-------------------------- MODULE ReviewDesk_proofs --------------------------
(***************************************************************************)
(* What the three agents answer is copied figure by figure or refused, and *)
(* what reaches the operator is what was measured: for any candidates,     *)
(* figures, answers and reports.                                           *)
(*                                                                         *)
(* The invariant relates the queue to the verdicts that are routed.  The   *)
(* entries are those of the first surviving verdict on each strategy, all  *)
(* of them and no others; every verdict passed its checks against the      *)
(* figures it is filed with; and those figures belong to candidates that   *)
(* were not rejected.                                                      *)
(***************************************************************************)
EXTENDS ReviewDesk, FiniteSetTheorems, SequenceTheorems, TLAPS

\* What is still empty before a stage.
Before ==
  /\ stage \in {"tested", "triaged"} => robustness = << >>
  /\ stage \in {"tested", "triaged", "stressed"} =>
       critique = << >> /\ routed = 0 /\ queue = << >>
  /\ stage # "reported" => report = None

StressedSurvived == DOMAIN robustness \subseteq Survivors(triage)

\* Every verdict of the critic passed its checks.
VerdictsChecked ==
  \A k \in DOMAIN critique :
    /\ ReferencesReal(critique[k], robustness)
    /\ InSampleVerbatim(critique[k], robustness)
    /\ OosVerbatimOrAbsent(critique[k], robustness)
    /\ critique[k].verdict \in VerdictKinds

Entries == {EntryFor(critique[k]) : k \in Filed}

QueueIsFiled ==
  /\ routed \in Nat
  /\ 1 .. routed \subseteq DOMAIN critique
  /\ queue \in Seq(Entries)
  /\ \A k \in Filed : \E n \in DOMAIN queue : queue[n] = EntryFor(critique[k])
  /\ \A k \in Survivals : \E n \in DOMAIN queue : queue[n].identity = Identity[critique[k].id]

ReportChecked == report # None => ReportAccepted(report, result, queue)

DeskInv == Before /\ StressedSurvived /\ VerdictsChecked /\ QueueIsFiled /\ ReportChecked

-----------------------------------------------------------------------------
\* A cycle starts with nothing judged, filed or reported (run_cycle).
LEMMA InitDesk == Init => DeskInv
<1> SUFFICES ASSUME Init
             PROVE  DeskInv
  OBVIOUS
<1>1. Before /\ ReportChecked
  BY DEF Init, Before, ReportChecked
<1>2. StressedSurvived /\ VerdictsChecked
  BY DEF Init, StressedSurvived, VerdictsChecked
<1>3. Survivals = {} /\ Filed = {} /\ queue = << >> /\ routed = 0
  BY DEF Init, Survivals, Filed
<1>4. QueueIsFiled
  BY <1>3 DEF QueueIsFiled, Entries
<1> QED BY <1>1, <1>2, <1>4 DEF DeskInv

\* Before the routing nothing is filed (run_pipeline).
LEMMA NothingFiled ==
  ASSUME routed' = 0, queue' = << >>
  PROVE  QueueIsFiled'
<1>1. Survivals' = {} /\ Filed' = {}
  BY DEF Survivals, Filed
<1> QED BY <1>1 DEF QueueIsFiled, Entries

\* Steps that touch neither the verdicts nor what they are filed with keep the
\* queue what was filed.
LEMMA SameQueue ==
  ASSUME QueueIsFiled, UNCHANGED <<evidence, robustness, critique, routed, queue>>
  PROVE  QueueIsFiled'
<1>1. Survivals' = Survivals /\ Filed' = Filed
  BY DEF Survivals, Filed
<1>2. Entries' = Entries
  BY <1>1 DEF Entries, EntryFor
<1> QED BY <1>1, <1>2 DEF QueueIsFiled, EntryFor

\* Steps that leave the figures and the verdicts alone keep them checked.
LEMMA SameVerdicts ==
  ASSUME StressedSurvived, VerdictsChecked,
         UNCHANGED <<evidence, triage, robustness, critique>>
  PROVE  StressedSurvived' /\ VerdictsChecked'
BY DEF StressedSurvived, Survivors, Rejected, VerdictsChecked

-----------------------------------------------------------------------------
\* Until the routing starts, a step changes neither queue nor count
\* (run_pipeline).
LEMMA AnsweringKeeps ==
  ASSUME DeskInv, NothingTested \/ AskBacktestAgent \/ Stress \/ AskCritic
  PROVE  DeskInv'
<1>1. /\ stage \in {"tested", "triaged", "stressed"}
      /\ routed' = routed /\ queue' = queue /\ report' = report /\ evidence' = evidence
  BY DEF NothingTested, AskBacktestAgent, Stress, AskCritic, DeskInv, Before
<1>2. routed' = 0 /\ queue' = << >> /\ report' = None /\ critique = << >>
  BY <1>1 DEF DeskInv, Before
<1>3. QueueIsFiled' /\ ReportChecked'
  BY <1>2, NothingFiled DEF ReportChecked
<1>4. CASE NothingTested
  <2>1. stage' = "closed" /\ UNCHANGED <<evidence, triage, robustness, critique>>
    BY <1>4 DEF NothingTested, Close
  <2>2. StressedSurvived' /\ VerdictsChecked'
    BY <2>1, SameVerdicts DEF DeskInv
  <2> QED BY <1>2, <1>3, <2>1, <2>2 DEF DeskInv, Before
<1>5. CASE AskBacktestAgent
  <2>1. /\ stage' \in {"triaged", "closed"}
        /\ robustness' = << >> /\ critique' = << >>
    BY <1>2, <1>5 DEF AskBacktestAgent, Close, DeskInv, Before
  <2>2. StressedSurvived' /\ VerdictsChecked'
    BY <2>1 DEF StressedSurvived, VerdictsChecked
  <2> QED BY <1>2, <1>3, <2>1, <2>2 DEF DeskInv, Before
<1>6. CASE Stress
  <2>1. stage' \in {"stressed", "closed"} /\ critique' = << >> /\ triage' = triage
    BY <1>2, <1>6 DEF Stress, Close
  <2>2. DOMAIN robustness' \subseteq Survivors(triage)
    BY <1>6 DEF Stress, Robustness
  <2>3. StressedSurvived' /\ VerdictsChecked'
    BY <1>1, <2>1, <2>2 DEF StressedSurvived, VerdictsChecked, Survivors, Rejected
  <2> QED BY <1>2, <1>3, <2>1, <2>3 DEF DeskInv, Before
<1>7. CASE AskCritic
  <2>1. /\ stage' \in {"routing", "closed"}
        /\ UNCHANGED <<evidence, triage, robustness>>
    BY <1>7 DEF AskCritic, Close
  <2>2. StressedSurvived'
    BY <2>1 DEF DeskInv, StressedSurvived, Survivors, Rejected
  <2>3. VerdictsChecked'
    <3>1. PICK a \in CriticAnswers(robustness) :
            \/ CritiqueAccepted(a, robustness) /\ critique' = a.verdicts
            \/ critique' = critique
      BY <1>7 DEF AskCritic
    <3>2. CASE CritiqueAccepted(a, robustness) /\ critique' = a.verdicts
      BY <2>1, <3>2 DEF CritiqueAccepted, VerdictsChecked
    <3>3. CASE critique' = critique
      BY <1>2, <3>3 DEF VerdictsChecked
    <3> QED BY <3>1, <3>2, <3>3
  <2> QED BY <1>2, <1>3, <2>1, <2>2, <2>3 DEF DeskInv, Before
<1> QED BY <1>4, <1>5, <1>6, <1>7

-----------------------------------------------------------------------------
\* One more verdict is routed: what was filed stays so, and the new one is
\* filed if it survives and is the first of its strategy.
LEMMA OneMoreVerdict ==
  ASSUME QueueIsFiled, routed' = routed + 1, critique' = critique
  PROVE  /\ Survivals' = Survivals \union
              {k \in {routed + 1} : critique[k].verdict # "kill"}
         /\ Filed \subseteq Survivals
         /\ Survivals \subseteq 1 .. routed
         /\ Filed' = Filed \union
              {k \in Survivals' \ Survivals :
                 \A j \in Survivals : Identity[critique[j].id] # Identity[critique[k].id]}
<1>1. routed \in Nat /\ 1 .. routed' = 1 .. routed \union {routed + 1}
  BY DEF QueueIsFiled
<1>2. Survivals' = Survivals \union {k \in {routed + 1} : critique[k].verdict # "kill"}
  BY <1>1 DEF Survivals
<1>3. Survivals \subseteq 1 .. routed /\ Filed \subseteq Survivals
  BY DEF Survivals, Filed
<1>4. \A j \in Survivals, k \in Survivals' \ Survivals :
        j \in Nat /\ k = routed + 1 /\ j <= k /\ ~(k <= j)
  BY <1>1, <1>2, <1>3
<1>5. Survivals \subseteq Nat /\ Survivals' \subseteq Nat
  <2>1. 1 .. routed \subseteq Nat /\ {routed + 1} \subseteq Nat
    BY <1>1
  <2>2. {k \in {routed + 1} : critique[k].verdict # "kill"} \subseteq {routed + 1}
    OBVIOUS
  <2>3. Survivals \subseteq Nat
    BY <1>3, <2>1
  <2> QED BY <1>2, <2>1, <2>2, <2>3
<1>6. ASSUME NEW k
      PROVE  k \in Filed' <=>
               \/ k \in Filed
               \/ /\ k \in Survivals' \ Survivals
                  /\ \A j \in Survivals : Identity[critique[j].id] # Identity[critique[k].id]
  <2>1. CASE k \in Survivals
    BY <1>2, <1>4, <1>5, <2>1 DEF Filed
  <2>2. CASE k \in Survivals' \ Survivals
    <3>1. \A j \in Survivals' \ Survivals : j = k
      BY <1>4, <2>2, <1>2
    <3> QED BY <1>2, <1>4, <1>5, <2>2, <3>1 DEF Filed
  <2>3. CASE k \notin Survivals'
    BY <1>2, <2>3 DEF Filed
  <2> QED BY <2>1, <2>2, <2>3
<1> QED BY <1>2, <1>3, <1>6

\* A verdict to kill files nothing (run_pipeline).
LEMMA RouteKillKeeps ==
  ASSUME DeskInv, RouteKill
  PROVE  DeskInv'
<1>1. /\ stage = "routing" /\ stage' = stage /\ report' = report /\ queue' = queue
      /\ routed + 1 \in DOMAIN critique /\ critique[routed + 1].verdict = "kill"
      /\ routed' = routed + 1
      /\ UNCHANGED <<evidence, triage, robustness, critique>>
  BY DEF RouteKill
<1>2. QueueIsFiled
  BY DEF DeskInv
<1>3. Survivals' = Survivals /\ Filed' = Filed
  BY <1>1, <1>2, OneMoreVerdict
<1>4. Entries' = Entries
  BY <1>1, <1>3 DEF Entries, EntryFor
<1>5. routed' \in Nat /\ 1 .. routed' \subseteq DOMAIN critique'
  BY <1>1, <1>2 DEF QueueIsFiled
<1>6. QueueIsFiled'
  BY <1>1, <1>2, <1>3, <1>4, <1>5 DEF QueueIsFiled, EntryFor
<1>7. StressedSurvived' /\ VerdictsChecked'
  BY <1>1, SameVerdicts DEF DeskInv
<1>8. Before' /\ ReportChecked'
  BY <1>1 DEF DeskInv, Before, ReportChecked
<1> QED BY <1>6, <1>7, <1>8 DEF DeskInv

\* A verdict to survive is filed unless its strategy is filed already
\* (ApprovalQueue.append).
LEMMA RouteSurvivorKeeps ==
  ASSUME DeskInv, RouteSurvivor
  PROVE  DeskInv'
<1> DEFINE r == routed + 1
           v == critique[r]
           mine == Identity[v.id]
<1>1. /\ stage = "routing" /\ stage' = stage /\ report' = report
      /\ r \in DOMAIN critique /\ v.verdict # "kill"
      /\ routed' = r
      /\ UNCHANGED <<evidence, triage, robustness, critique>>
  BY DEF RouteSurvivor
<1>2. /\ QueueIsFiled
      /\ queue' = IF \E k \in DOMAIN queue : queue[k].identity = mine
                  THEN queue ELSE Append(queue, EntryFor(v))
  BY DEF DeskInv, RouteSurvivor, FileSurvivor
<1>3. r \notin Survivals /\ Survivals' = Survivals \union {r}
  <2>1. routed \in Nat /\ Survivals \subseteq 1 .. routed
    BY <1>2 DEF QueueIsFiled, Survivals
  <2>2. Survivals' = Survivals \union {k \in {r} : critique[k].verdict # "kill"}
    BY <1>1, <1>2, OneMoreVerdict
  <2> QED BY <1>1, <2>1, <2>2
<1>4. Filed' = Filed \union
        {k \in {r} : \A j \in Survivals : Identity[critique[j].id] # Identity[critique[k].id]}
  BY <1>1, <1>2, <1>3, OneMoreVerdict
<1>5. routed' \in Nat /\ 1 .. routed' \subseteq DOMAIN critique'
  BY <1>1, <1>2 DEF QueueIsFiled
<1>6. \A k : EntryFor(critique[k])' = EntryFor(critique[k])
  BY <1>1 DEF EntryFor
<1>7. ASSUME \E k \in DOMAIN queue : queue[k].identity = mine
      PROVE  QueueIsFiled'
  <2>1. queue' = queue
    BY <1>2, <1>7
  <2>2. \E j \in Filed : Identity[critique[j].id] = mine
    <3>1. PICK n \in DOMAIN queue : queue[n].identity = mine
      BY <1>7
    <3>2. queue[n] \in Entries
      BY <1>2, <3>1 DEF QueueIsFiled
    <3> QED BY <3>1, <3>2 DEF Entries, EntryFor
  <2>3. Filed' = Filed
    BY <1>4, <2>2 DEF Filed
  <2>4. Entries' = Entries
    BY <1>1, <2>3 DEF Entries, EntryFor
  <2>5. \A k \in Survivals' : \E n \in DOMAIN queue' : queue'[n].identity = Identity[critique'[k].id]
    BY <1>1, <1>2, <1>3, <1>7, <2>1 DEF QueueIsFiled
  <2> QED BY <1>1, <1>2, <1>5, <2>1, <2>3, <2>4, <2>5 DEF QueueIsFiled, EntryFor
<1>8. ASSUME ~ \E k \in DOMAIN queue : queue[k].identity = mine
      PROVE  QueueIsFiled'
  <2>1. queue' = Append(queue, EntryFor(v))
    BY <1>2, <1>8
  <2>2. \A j \in Survivals : Identity[critique[j].id] # mine
    BY <1>2, <1>8 DEF QueueIsFiled
  <2>3. Filed' = Filed \union {r}
    BY <1>4, <2>2
  <2>4. Entries' = Entries \union {EntryFor(v)}
    BY <1>1, <2>3 DEF Entries, EntryFor
  <2>5. queue \in Seq(Entries')
    BY <1>2, <2>4 DEF QueueIsFiled
  <2>6. /\ queue' \in Seq(Entries')
        /\ DOMAIN queue' = 1 .. Len(queue) + 1
        /\ DOMAIN queue = 1 .. Len(queue)
        /\ Len(queue) \in Nat
        /\ queue'[Len(queue) + 1] = EntryFor(v)
        /\ \A n \in DOMAIN queue : queue'[n] = queue[n]
    BY <2>1, <2>4, <2>5
  <2>7. \A k \in Filed' : \E n \in DOMAIN queue' : queue'[n] = EntryFor(critique[k])
    <3>1. \A k \in Filed : \E n \in DOMAIN queue : queue[n] = EntryFor(critique[k])
      BY <1>2 DEF QueueIsFiled
    <3>2. Len(queue) + 1 \in DOMAIN queue' /\ DOMAIN queue \subseteq DOMAIN queue'
      BY <2>6
    <3> QED BY <2>3, <2>6, <3>1, <3>2
  <2>8. \A k \in Survivals' : \E n \in DOMAIN queue' : queue'[n].identity = Identity[critique[k].id]
    <3>1. \A k \in Survivals : \E n \in DOMAIN queue : queue[n].identity = Identity[critique[k].id]
      BY <1>2 DEF QueueIsFiled
    <3>2. Len(queue) + 1 \in DOMAIN queue' /\ DOMAIN queue \subseteq DOMAIN queue'
      BY <2>6
    <3>3. queue'[Len(queue) + 1].identity = Identity[critique[r].id]
      BY <2>6 DEF EntryFor
    <3> QED BY <1>3, <2>6, <3>1, <3>2, <3>3
  <2> QED BY <1>1, <1>5, <2>6, <2>7, <2>8 DEF QueueIsFiled, EntryFor
<1>9. StressedSurvived' /\ VerdictsChecked'
  BY <1>1, SameVerdicts DEF DeskInv
<1>10. Before' /\ ReportChecked'
  BY <1>1 DEF DeskInv, Before, ReportChecked
<1> QED BY <1>7, <1>8, <1>9, <1>10 DEF DeskInv

\* The end of the cycle and the report change nothing of what they are checked
\* against (ReportingAgent).
LEMMA ReportingKeeps ==
  ASSUME DeskInv, EndCycle \/ AskReportingAgent \/ UNCHANGED vars
  PROVE  DeskInv'
<1>1. UNCHANGED <<evidence, triage, robustness, critique, routed, queue>>
  BY DEF EndCycle, AskReportingAgent, vars
<1>2. QueueIsFiled' /\ StressedSurvived' /\ VerdictsChecked'
  BY <1>1, SameQueue, SameVerdicts DEF DeskInv
<1>3. Before'
  BY <1>1 DEF EndCycle, AskReportingAgent, Close, vars, DeskInv, Before
<1>4. ReportChecked'
  <2>1. CASE EndCycle
    BY <2>1 DEF EndCycle, DeskInv, Before, ReportChecked
  <2>2. CASE AskReportingAgent
    <3>1. result' = result /\ queue' = queue /\ report = None
      BY <2>2 DEF AskReportingAgent, DeskInv, Before
    <3>2. \/ report' = None
          \/ ReportAccepted(report', result, queue)
      BY <2>2, <3>1 DEF AskReportingAgent
    <3> QED BY <3>1, <3>2 DEF ReportChecked
  <2>3. CASE UNCHANGED vars
    BY <2>3 DEF vars, DeskInv, ReportChecked
  <2> QED BY <2>1, <2>2, <2>3
<1> QED BY <1>2, <1>3, <1>4 DEF DeskInv

\* The invariant of the desk is inductive.
LEMMA StepDesk == DeskInv /\ [Next]_vars => DeskInv'
<1> SUFFICES ASSUME DeskInv, [Next]_vars
             PROVE  DeskInv'
  OBVIOUS
<1>1. CASE NothingTested \/ AskBacktestAgent \/ Stress \/ AskCritic
  BY <1>1, AnsweringKeeps
<1>2. CASE RouteKill
  BY <1>2, RouteKillKeeps
<1>3. CASE RouteSurvivor
  BY <1>3, RouteSurvivorKeeps
<1>4. CASE EndCycle \/ AskReportingAgent \/ UNCHANGED vars
  BY <1>4, ReportingKeeps
<1> QED BY <1>1, <1>2, <1>3, <1>4 DEF Next

-----------------------------------------------------------------------------
\* An entry of the queue is that of a verdict that was filed.
LEMMA EntryIsFiled ==
  ASSUME DeskInv, NEW n \in DOMAIN queue
  PROVE  \E k \in Filed : k \in DOMAIN critique /\ queue[n] = EntryFor(critique[k])
<1>1. queue[n] \in Entries
  BY DEF DeskInv, QueueIsFiled
<1>2. Filed \subseteq DOMAIN critique
  BY DEF DeskInv, QueueIsFiled, Filed, Survivals
<1> QED BY <1>1, <1>2 DEF Entries

\* Two entries on one candidate are the same.
LEMMA OneEntryEach ==
  ASSUME DeskInv, NEW m \in DOMAIN queue, NEW n \in DOMAIN queue, queue[m].id = queue[n].id
  PROVE  queue[m] = queue[n]
<1>1. PICK j \in Filed : queue[m] = EntryFor(critique[j])
  BY EntryIsFiled
<1>2. PICK k \in Filed : queue[n] = EntryFor(critique[k])
  BY EntryIsFiled
<1>3. critique[j].id = critique[k].id
  BY <1>1, <1>2 DEF EntryFor
<1>4. j \in Survivals /\ k \in Survivals /\ j <= k /\ k <= j
  BY <1>3 DEF Filed
<1>5. j \in Nat /\ k \in Nat
  BY <1>4 DEF Survivals, DeskInv, QueueIsFiled
<1> QED BY <1>1, <1>2, <1>4, <1>5

\* An entry waits for the operator only if its candidate was tested, kept,
\* stressed and judged by a critic who quoted what was measured, whatever the
\* agents answer (run_pipeline and Tier-1).
THEOREM QueueAlwaysEarned == Spec => []QueueEarned
<1>1. DeskInv => QueueEarned
  <2> SUFFICES ASSUME DeskInv, NEW n \in DOMAIN queue
               PROVE  LET e == queue[n]
                      IN  /\ e.id \in DOMAIN evidence \intersect DOMAIN robustness
                          /\ e.id \in DOMAIN triage => triage[e.id] # "reject"
                          /\ \E k \in DOMAIN critique :
                               LET v == critique[k]
                               IN  /\ v.id = e.id
                                   /\ v.verdict = "survive_for_now"
                                   /\ v.concerns = e.concerns
                                   /\ v.in_sample_metrics = MetricsView(robustness[v.id].in_sample)
                                   /\ \/ v.out_of_sample_metrics = None
                                      \/ /\ e.out_of_sample # None
                                         /\ v.out_of_sample_metrics = MetricsView(e.out_of_sample)
    BY DEF QueueEarned
  <2>1. PICK k \in Filed : k \in DOMAIN critique /\ queue[n] = EntryFor(critique[k])
    BY EntryIsFiled
  <2>2. /\ critique[k].verdict = "survive_for_now"
        /\ ReferencesReal(critique[k], robustness)
        /\ InSampleVerbatim(critique[k], robustness)
        /\ OosVerbatimOrAbsent(critique[k], robustness)
    BY <2>1 DEF DeskInv, VerdictsChecked, VerdictKinds, Filed, Survivals
  <2>3. /\ queue[n].id = critique[k].id
        /\ queue[n].concerns = critique[k].concerns
        /\ queue[n].out_of_sample = robustness[critique[k].id].out_of_sample
    BY <2>1 DEF EntryFor
  <2>4. critique[k].id \in Survivors(triage) /\ critique[k].id \in DOMAIN robustness
    BY <2>2 DEF ReferencesReal, DeskInv, StressedSurvived
  <2> QED BY <2>1, <2>2, <2>3, <2>4
          DEF Survivors, Rejected, InSampleVerbatim, OosVerbatimOrAbsent
<1> QED BY <1>1, InitDesk, StepDesk, PTL DEF Spec

-----------------------------------------------------------------------------
\* What the checks of the reporting agent say of one item of its report.
LEMMA ItemIsEntry ==
  ASSUME DeskInv, report # None, NEW n \in DOMAIN report.items
  PROVE  \E m \in DOMAIN queue :
           /\ queue[m].id = report.items[n].id
           /\ report.items[n].concerns = queue[m].concerns
           /\ report.items[n].in_sample_metrics = MetricsView(queue[m].in_sample)
           /\ report.items[n].out_of_sample_metrics =
                IF queue[m].out_of_sample = None THEN None
                ELSE MetricsView(queue[m].out_of_sample)
<1> DEFINE item == report.items[n]
           chosen == CHOOSE k \in DOMAIN queue : queue[k].id = item.id
<1>1. ReportAccepted(report, result, queue)
  BY DEF DeskInv, ReportChecked
<1>2. \E m \in DOMAIN queue : queue[m].id = item.id
  BY <1>1 DEF ReportAccepted, AllQueuedPresentAndReal, QueuedIds
<1>3. chosen \in DOMAIN queue /\ queue[chosen].id = item.id
  BY <1>2
<1>4. EntryOf(item.id, queue) = queue[chosen]
  BY DEF EntryOf
<1>5. QueuedMetricsVerbatim(item, queue) /\ ConcernsPresentAndComplete(item, queue)
  BY <1>1 DEF ReportAccepted
<1> QED BY <1>3, <1>4, <1>5 DEF QueuedMetricsVerbatim, ConcernsPresentAndComplete

\* Every entry has its one item.
LEMMA EntryHasItem ==
  ASSUME DeskInv, report # None, NEW m \in DOMAIN queue
  PROVE  \E n \in DOMAIN report.items : ItemsOn(queue[m].id) = {n}
<1>1. AllQueuedPresentAndReal(report, queue)
  BY DEF DeskInv, ReportChecked, ReportAccepted
<1>2. queue[m].id \in {report.items[n].id : n \in DOMAIN report.items}
  BY <1>1 DEF AllQueuedPresentAndReal, QueuedIds
<1>3. PICK n \in DOMAIN report.items : report.items[n].id = queue[m].id
  BY <1>2
<1>4. \A j \in DOMAIN report.items : report.items[j].id = queue[m].id => j = n
  BY <1>1, <1>3 DEF AllQueuedPresentAndReal
<1> QED BY <1>3, <1>4 DEF ItemsOn

\* The report that reaches the operator tells of exactly the survivors that were
\* filed, with the figures that were measured and all of the critic's concerns
\* (reporting_agent.py).
THEOREM ReportAlwaysFaithful == Spec => []ReportFaithful
<1>1. ASSUME DeskInv, report # None
      PROVE  report.summary = SummaryOf(result) /\ ~report.recommends
  <2>1. /\ CycleIdPreserved(report) /\ SummaryVerbatim(report, result)
        /\ ~report.recommends
    BY <1>1 DEF DeskInv, ReportChecked, ReportAccepted
  <2> QED BY <2>1 DEF CycleIdPreserved, SummaryVerbatim, SummaryOf
<1>2. ASSUME DeskInv, report # None, NEW n \in DOMAIN report.items
      PROVE  \E k \in Filed :
               LET item == report.items[n]
                   v == critique[k]
               IN  /\ item.id = v.id
                   /\ item.concerns = v.concerns
                   /\ item.in_sample_metrics = MetricsView(evidence[v.id])
                   /\ item.out_of_sample_metrics =
                        IF robustness[v.id].out_of_sample = None THEN None
                        ELSE MetricsView(robustness[v.id].out_of_sample)
  <2>1. PICK m \in DOMAIN queue :
           /\ queue[m].id = report.items[n].id
           /\ report.items[n].concerns = queue[m].concerns
           /\ report.items[n].in_sample_metrics = MetricsView(queue[m].in_sample)
           /\ report.items[n].out_of_sample_metrics =
                IF queue[m].out_of_sample = None THEN None
                ELSE MetricsView(queue[m].out_of_sample)
    BY <1>2, ItemIsEntry
  <2>2. PICK k \in Filed : queue[m] = EntryFor(critique[k])
    BY <1>2, EntryIsFiled
  <2> QED BY <2>1, <2>2 DEF EntryFor
<1>3. ASSUME DeskInv, report # None, NEW k \in Filed
      PROVE  Cardinality(ItemsOn(critique[k].id)) = 1
  <2>1. PICK m \in DOMAIN queue : queue[m] = EntryFor(critique[k])
    BY <1>3 DEF DeskInv, QueueIsFiled
  <2>2. PICK n \in DOMAIN report.items : ItemsOn(queue[m].id) = {n}
    BY <1>3, EntryHasItem
  <2>3. queue[m].id = critique[k].id
    BY <2>1 DEF EntryFor
  <2> QED BY <2>2, <2>3, FS_Singleton
<1>4. ASSUME DeskInv, report # None, NEW m \in DOMAIN queue
      PROVE  /\ ItemsOn(queue[m].id) # {}
             /\ ApprovalItem(queue[m]).concerns = queue[m].concerns
  <2>1. PICK n \in DOMAIN report.items : ItemsOn(queue[m].id) = {n}
    BY <1>4, EntryHasItem
  <2>2. report.items[n].id = queue[m].id
    BY <2>1 DEF ItemsOn
  <2>3. PICK j \in DOMAIN queue :
          queue[j].id = report.items[n].id /\ report.items[n].concerns = queue[j].concerns
    BY <1>4, ItemIsEntry
  <2>4. queue[j] = queue[m]
    BY <1>4, <2>2, <2>3, OneEntryEach
  <2>5. ApprovalItem(queue[m]) = report.items[n]
    BY <2>1 DEF ApprovalItem
  <2> QED BY <2>1, <2>3, <2>4, <2>5
<1>5. DeskInv => ReportFaithful
  BY <1>1, <1>2, <1>3, <1>4 DEF ReportFaithful
<1> QED BY <1>5, InitDesk, StepDesk, PTL DEF Spec

-----------------------------------------------------------------------------
(***************************************************************************)
(* The counts of a cycle.                                                  *)
(***************************************************************************)
Killings == {k \in 1 .. routed : critique[k].verdict = "kill"}

\* One entry for each strategy.
OncePerStrategy ==
  \A m, n \in DOMAIN queue : queue[m].identity = queue[n].identity => m = n

\* What the cycle counts, stage by stage.
Tally ==
  /\ DOMAIN evidence \subseteq Ids
  /\ robustness \in Robustness(Ids)
  /\ critique \in Seq({critique[k] : k \in DOMAIN critique})
  /\ stage = "tested" => triage = << >> /\ killed = 0
  /\ stage \in {"tested", "triaged", "stressed"} => queued = << >>
  /\ stage \in {"tested", "triaged", "stressed", "routing"} => result = None
  /\ stage \in {"tested", "triaged", "stressed", "routing"} =>
       killed = Cardinality(Rejected(triage)) + Cardinality(Killings)

\* The strategies counted as queued are those of the surviving verdicts.
QueuedCounted ==
  /\ queued \in Seq({Identity[critique[k].id] : k \in Survivals})
  /\ Len(queued) = Cardinality(Survivals)
  /\ \A k \in Survivals : \E n \in DOMAIN queued : queued[n] = Identity[critique[k].id]

\* The first of the two claims of CountsAddUp.
Accounted ==
  (result # None /\ result.outcome = "completed" /\ JudgedOnce) =>
    result.proposed = result.killed + result.queued
      + Cardinality(Ids \ DOMAIN evidence)
      + Cardinality(Survivors(triage) \ DOMAIN robustness)

CountInv == DeskInv /\ Tally /\ OncePerStrategy /\ QueuedCounted /\ Accounted

\* A part of a finite set and the rest of it.
LEMMA PartAndRest ==
  ASSUME NEW S, IsFiniteSet(S), NEW T, T \subseteq S
  PROVE  /\ IsFiniteSet(T) /\ IsFiniteSet(S \ T)
         /\ Cardinality(T) \in Nat /\ Cardinality(S \ T) \in Nat
         /\ Cardinality(S) = Cardinality(T) + Cardinality(S \ T)
<1>1. IsFiniteSet(T)
  BY FS_Subset
<1>2. IsFiniteSet(S \ T) /\ Cardinality(S \ T) = Cardinality(S) - Cardinality(S \cap T)
  BY FS_Difference
<1>3. S \cap T = T
  OBVIOUS
<1>4. Cardinality(S) \in Nat /\ Cardinality(T) \in Nat /\ Cardinality(S \ T) \in Nat
  BY <1>1, <1>2, FS_CardinalityType
<1>5. Cardinality(S \ T) = Cardinality(S) - Cardinality(T)
  BY <1>2, <1>3
<1>6. Cardinality(S) = Cardinality(T) + Cardinality(S \ T)
  BY <1>4, <1>5
<1> QED BY <1>1, <1>2, <1>4, <1>6

\* A proposed candidate was not tested, or rejected, or not stressed, or stressed.
LEMMA EveryCandidateOnce ==
  ASSUME DOMAIN evidence \subseteq Ids, NEW R, R \subseteq Survivors(triage)
  PROVE  /\ IsFiniteSet(R)
         /\ Cardinality(Rejected(triage)) \in Nat /\ Cardinality(R) \in Nat
         /\ Cardinality(Ids \ DOMAIN evidence) \in Nat
         /\ Cardinality(Survivors(triage) \ R) \in Nat
         /\ Cardinality(Ids) = Cardinality(Rejected(triage)) + Cardinality(R)
              + Cardinality(Ids \ DOMAIN evidence) + Cardinality(Survivors(triage) \ R)
<1> DEFINE E == DOMAIN evidence
           J == Rejected(triage)
           S == Survivors(triage)
<1>1. IsFiniteSet(Ids)
  BY ReviewDeskAssumption
<1>2. J \subseteq E /\ S = E \ J
  BY DEF Rejected, Survivors
<1> HIDE DEF J, S
<1>3. /\ IsFiniteSet(E) /\ Cardinality(E) \in Nat /\ Cardinality(Ids \ E) \in Nat
      /\ Cardinality(Ids) = Cardinality(E) + Cardinality(Ids \ E)
  BY <1>1, PartAndRest
<1> HIDE DEF E
<1>4. /\ IsFiniteSet(S) /\ Cardinality(J) \in Nat /\ Cardinality(S) \in Nat
      /\ Cardinality(E) = Cardinality(J) + Cardinality(S)
  BY <1>2, <1>3, PartAndRest
<1>5. R \subseteq S
  BY DEF S
<1>6. /\ IsFiniteSet(R) /\ Cardinality(R) \in Nat /\ Cardinality(S \ R) \in Nat
      /\ Cardinality(S) = Cardinality(R) + Cardinality(S \ R)
  BY <1>4, <1>5, PartAndRest
<1>7. Cardinality(Ids) = Cardinality(J) + Cardinality(R) + Cardinality(Ids \ E) + Cardinality(S \ R)
  BY <1>3, <1>4, <1>6
<1> QED BY <1>3, <1>4, <1>6, <1>7 DEF E, J, S

\* A critic who judged each candidate once gave as many verdicts as there are
\* candidates.
LEMMA OneVerdictEach ==
  ASSUME VerdictsChecked, critique \in Seq({critique[k] : k \in DOMAIN critique}),
         JudgedOnce
  PROVE  Cardinality(DOMAIN robustness) = Len(critique)
<1> DEFINE n == Len(critique)
           R == DOMAIN robustness
           Id == [k \in 1 .. n |-> critique[k].id]
           On(id) == {k \in DOMAIN critique : critique[k].id = id}
<1>1. n \in Nat /\ DOMAIN critique = 1 .. n
  OBVIOUS
<1>2. IsFiniteSet(1 .. n) /\ Cardinality(1 .. n) = n
  BY <1>1, FS_Interval
<1>3. \A k \in 1 .. n : critique[k].id \in R
  BY <1>1 DEF VerdictsChecked, ReferencesReal
<1>4. ASSUME NEW id \in R
      PROVE  \E k \in 1 .. n : On(id) = {k}
  <2>1. Cardinality(On(id)) = 1
    BY DEF JudgedOnce
  <2>2. On(id) \subseteq 1 .. n
    BY <1>1
  <2> HIDE DEF On
  <2>3. IsFiniteSet(On(id))
    BY <1>2, <2>2, FS_Subset
  <2>4. PICK k : On(id) = {k}
    BY <2>1, <2>3, FS_Singleton
  <2> QED BY <2>2, <2>4
<1>5. Id \in [1 .. n -> R]
  BY <1>3
<1>6. \A id \in R : \E k \in 1 .. n : Id[k] = id
  <2> TAKE id \in R
  <2>1. PICK k \in 1 .. n : On(id) = {k}
    BY <1>4
  <2>2. critique[k].id = id
    BY <2>1
  <2> QED BY <2>2
<1>7. \A j, k \in 1 .. n : Id[j] = Id[k] => j = k
  <2> TAKE j, k \in 1 .. n
  <2> HAVE Id[j] = Id[k]
  <2>1. critique[j].id = critique[k].id /\ critique[k].id \in R
    BY <1>3
  <2>2. j \in On(critique[k].id) /\ k \in On(critique[k].id)
    BY <1>1, <2>1
  <2>3. PICK m : On(critique[k].id) = {m}
    BY <1>4, <2>1
  <2> QED BY <2>2, <2>3
<1>8. Id \in Bijection(1 .. n, R)
  <2> HIDE DEF Id, n, R
  <2> QED BY <1>5, <1>6, <1>7 DEF Bijection, Injection, IsInjective, Surjection
<1>9. ExistsBijection(1 .. n, R)
  <2> HIDE DEF Id, n, R
  <2> QED BY <1>8 DEF ExistsBijection
<1> QED BY <1>2, <1>9, FS_Bijection

\* The queue holds an entry for each strategy counted.
LEMMA EntryPerStrategy ==
  ASSUME QueueIsFiled, OncePerStrategy, QueuedCounted
  PROVE  Len(queue) = Cardinality({queued[k] : k \in DOMAIN queued})
<1> DEFINE n == Len(queue)
           Q == {queued[k] : k \in DOMAIN queued}
           Of == [k \in 1 .. n |-> queue[k].identity]
<1>1. n \in Nat /\ DOMAIN queue = 1 .. n
  BY DEF QueueIsFiled
<1>2. IsFiniteSet(1 .. n) /\ Cardinality(1 .. n) = n
  <2> HIDE DEF n
  <2> QED BY <1>1, FS_Interval
<1>3. \A k \in 1 .. n : queue[k].identity \in Q
  <2> TAKE k \in 1 .. n
  <2>1. queue[k] \in Entries
    BY <1>1 DEF QueueIsFiled
  <2>2. PICK j \in Filed : queue[k] = EntryFor(critique[j])
    BY <2>1 DEF Entries
  <2>3. j \in Survivals /\ queue[k].identity = Identity[critique[j].id]
    BY <2>2 DEF Filed, EntryFor
  <2> QED BY <2>3 DEF QueuedCounted
<1>4. \A s \in Q : \E k \in 1 .. n : queue[k].identity = s
  <2> TAKE s \in Q
  <2>1. PICK m \in DOMAIN queued : s = queued[m]
    OBVIOUS
  <2>2. queued[m] \in {Identity[critique[k].id] : k \in Survivals}
    BY DEF QueuedCounted
  <2>3. PICK j \in Survivals : s = Identity[critique[j].id]
    BY <2>1, <2>2
  <2> QED BY <1>1, <2>3 DEF QueueIsFiled
<1>5. \A j, k \in 1 .. n : queue[j].identity = queue[k].identity => j = k
  BY <1>1 DEF OncePerStrategy
<1> HIDE DEF n, Q
<1>6. Of \in Bijection(1 .. n, Q)
  <2>1. Of \in [1 .. n -> Q]
    BY <1>3
  <2>2. \A s \in Q : \E k \in 1 .. n : Of[k] = s
    BY <1>4
  <2>3. \A j, k \in 1 .. n : Of[j] = Of[k] => j = k
    BY <1>5
  <2> HIDE DEF Of
  <2> QED BY <2>1, <2>2, <2>3 DEF Bijection, Injection, IsInjective, Surjection
<1>7. ExistsBijection(1 .. n, Q)
  <2> HIDE DEF Of
  <2> QED BY <1>6 DEF ExistsBijection
<1> QED BY <1>2, <1>7, FS_Bijection DEF n, Q

\* The routed verdicts are those that kill and those that let survive.
LEMMA KilledAndSurvived ==
  ASSUME routed \in Nat
  PROVE  /\ IsFiniteSet(Killings) /\ IsFiniteSet(Survivals)
         /\ Cardinality(Killings) \in Nat /\ Cardinality(Survivals) \in Nat
         /\ Cardinality(Killings) + Cardinality(Survivals) = routed
<1>1. Killings \subseteq 1 .. routed /\ Survivals = (1 .. routed) \ Killings
  BY DEF Killings, Survivals
<1>2. IsFiniteSet(1 .. routed) /\ Cardinality(1 .. routed) = routed
  BY FS_Interval
<1> HIDE DEF Killings
<1> QED BY <1>1, <1>2, PartAndRest

-----------------------------------------------------------------------------
\* Nothing is counted before the first answer (run_cycle).
LEMMA InitCounts == Init => CountInv
<1> SUFFICES ASSUME Init
             PROVE  CountInv
  OBVIOUS
<1>1. DeskInv
  BY InitDesk
<1>2. DOMAIN evidence \subseteq Ids
  BY DEF Init, Evidence
<1>3. robustness \in Robustness(Ids)
  <2>1. robustness = << >> /\ {} \in SUBSET Ids
    BY DEF Init
  <2>2. << >> \in [{} -> [in_sample: RawMetrics, out_of_sample: RawMetrics \union {None}]]
    OBVIOUS
  <2> QED BY <2>1, <2>2 DEF Robustness
<1>4. /\ Killings = {} /\ Survivals = {} /\ Rejected(triage) = {}
      /\ queue = << >> /\ queued = << >> /\ result = None /\ killed = 0
      /\ critique = << >> /\ stage = "tested" /\ triage = << >>
  BY DEF Init, Killings, Survivals, Rejected
<1>5. Tally
  BY <1>2, <1>3, <1>4, FS_EmptySet DEF Tally
<1>6. OncePerStrategy /\ QueuedCounted /\ Accounted
  BY <1>4, FS_EmptySet DEF OncePerStrategy, QueuedCounted, Accounted
<1> QED BY <1>1, <1>5, <1>6 DEF CountInv

\* Until the routing starts nothing is queued and only the triage kills
\* (run_pipeline).
LEMMA NothingCounted ==
  ASSUME CountInv, NothingTested \/ AskBacktestAgent \/ Stress \/ AskCritic
  PROVE  /\ evidence' = evidence /\ report' = report
         /\ routed' = 0 /\ queue' = << >> /\ queued' = << >>
         /\ queued = << >> /\ result = None
         /\ killed = Cardinality(Rejected(triage))
         /\ critique = << >> /\ DOMAIN evidence \subseteq Ids
         /\ Killings' = {} /\ Survivals' = {}
         /\ OncePerStrategy' /\ QueuedCounted'
<1>1. /\ stage \in {"tested", "triaged", "stressed"}
      /\ routed' = routed /\ queue' = queue /\ report' = report
      /\ evidence' = evidence /\ queued' = queued
  BY DEF NothingTested, AskBacktestAgent, Stress, AskCritic
<1>2. /\ critique = << >> /\ routed = 0 /\ queue = << >>
      /\ queued = << >> /\ result = None /\ DOMAIN evidence \subseteq Ids
      /\ killed = Cardinality(Rejected(triage)) + Cardinality(Killings)
  BY <1>1 DEF CountInv, DeskInv, Before, Tally
<1>3. Killings = {} /\ Killings' = {} /\ Survivals' = {}
  BY <1>1, <1>2 DEF Killings, Survivals
<1>4. Rejected(triage) \subseteq Ids /\ Cardinality(Rejected(triage)) \in Nat
  <2>1. Rejected(triage) \subseteq Ids
    BY <1>2 DEF Rejected
  <2> QED BY <2>1, ReviewDeskAssumption, FS_Subset, FS_CardinalityType
<1>5. killed = Cardinality(Rejected(triage))
  BY <1>2, <1>3, <1>4, FS_EmptySet
<1>6. OncePerStrategy'
  BY <1>1, <1>2 DEF OncePerStrategy
<1>7. QueuedCounted'
  BY <1>1, <1>2, <1>3, FS_EmptySet DEF QueuedCounted
<1> QED BY <1>1, <1>2, <1>3, <1>5, <1>6, <1>7

\* No candidate left to stress: every one was untested, rejected or failed
\* (run_pipeline).
LEMMA NoneLeft ==
  ASSUME CountInv, evidence' = evidence, triage' = triage,
         DOMAIN robustness' = {},
         killed = Cardinality(Rejected(triage)), DOMAIN evidence \subseteq Ids,
         result' = Completed(killed, 0)
  PROVE  Accounted'
<1>1. {} \subseteq Survivors(triage)
  OBVIOUS
<1>2. /\ Cardinality(Rejected(triage)) \in Nat
      /\ Cardinality(Ids \ DOMAIN evidence) \in Nat
      /\ Cardinality(Survivors(triage) \ {}) \in Nat
      /\ Cardinality(Ids) = Cardinality(Rejected(triage)) + Cardinality({})
           + Cardinality(Ids \ DOMAIN evidence) + Cardinality(Survivors(triage) \ {})
  BY <1>1, EveryCandidateOnce
<1>3. Survivors(triage)' = Survivors(triage)
  BY DEF Survivors, Rejected
<1>4. result'.proposed = Cardinality(Ids) /\ result'.killed = killed /\ result'.queued = 0
  BY DEF Completed, CycleResult
<1>5. Cardinality(Ids) = killed + 0 + Cardinality(Ids \ DOMAIN evidence)
        + Cardinality(Survivors(triage) \ {})
  BY <1>2, FS_EmptySet
<1> QED BY <1>3, <1>4, <1>5 DEF Accounted

LEMMA NothingTestedCounts ==
  ASSUME CountInv, NothingTested
  PROVE  CountInv'
<1>1. /\ DOMAIN evidence = {} /\ stage = "tested" /\ stage' = "closed"
      /\ result' = Completed(0, 0)
      /\ UNCHANGED <<evidence, triage, robustness, critique>>
  BY DEF NothingTested, Close
<1>2. /\ OncePerStrategy' /\ QueuedCounted' /\ killed = Cardinality(Rejected(triage))
      /\ DOMAIN evidence \subseteq Ids
  BY NothingCounted
<1>3. killed = 0 /\ robustness = << >>
  BY <1>1 DEF CountInv, Tally, DeskInv, Before
<1>4. Accounted'
  BY <1>1, <1>2, <1>3, NoneLeft
<1>5. Tally'
  BY <1>1 DEF CountInv, Tally
<1>6. DeskInv'
  BY AnsweringKeeps DEF CountInv
<1> QED BY <1>2, <1>4, <1>5, <1>6 DEF CountInv

LEMMA TriageCounts ==
  ASSUME CountInv, AskBacktestAgent
  PROVE  CountInv'
<1>1. /\ stage = "tested" /\ UNCHANGED <<evidence, robustness, critique>>
      /\ \/ /\ stage' = "triaged" /\ result' = result
            /\ killed' = Cardinality(Rejected(triage'))
         \/ stage' = "closed" /\ result' = Aborted
  BY DEF AskBacktestAgent, Close
<1>2. OncePerStrategy' /\ QueuedCounted' /\ Killings' = {} /\ queued' = << >> /\ result = None
  BY NothingCounted
<1>3. Accounted'
  BY <1>1, <1>2 DEF Accounted, Aborted, CycleResult
<1>4. Rejected(triage') = Rejected(triage)'
  BY <1>1 DEF Rejected
<1>5. Rejected(triage)' \subseteq Ids
  BY <1>1 DEF Rejected, CountInv, Tally
<1>6. Cardinality(Rejected(triage)') \in Nat
  BY <1>5, ReviewDeskAssumption, FS_Subset, FS_CardinalityType
<1>7. Tally'
  <2>1. /\ DOMAIN evidence' \subseteq Ids /\ robustness' \in Robustness(Ids)
        /\ critique' \in Seq({critique'[k] : k \in DOMAIN critique'})
    BY <1>1 DEF CountInv, Tally
  <2>2. CASE stage' = "closed"
    BY <1>2, <2>1, <2>2 DEF Tally
  <2>3. CASE stage' = "triaged" /\ result' = result /\ killed' = Cardinality(Rejected(triage'))
    <3>1. killed' = Cardinality(Rejected(triage)') + Cardinality(Killings')
      BY <1>2, <1>4, <1>6, <2>3, FS_EmptySet
    <3> QED BY <1>2, <2>1, <2>3, <3>1 DEF Tally
  <2> QED BY <1>1, <2>2, <2>3
<1>8. DeskInv'
  BY AnsweringKeeps DEF CountInv
<1> QED BY <1>2, <1>3, <1>7, <1>8 DEF CountInv

LEMMA StressCounts ==
  ASSUME CountInv, Stress
  PROVE  CountInv'
<1>1. /\ stage = "triaged" /\ UNCHANGED <<evidence, triage, critique, killed>>
      /\ robustness' \in Robustness(Survivors(triage))
      /\ \/ /\ DOMAIN robustness' = {}
            /\ stage' = "closed" /\ result' = Completed(killed, 0)
         \/ stage' = "stressed" /\ result' = result
  BY DEF Stress, Close
<1>2. /\ OncePerStrategy' /\ QueuedCounted' /\ Killings' = {} /\ queued' = << >>
      /\ result = None /\ killed = Cardinality(Rejected(triage))
      /\ DOMAIN evidence \subseteq Ids
  BY NothingCounted
<1>3. Rejected(triage)' = Rejected(triage) /\ Rejected(triage) \subseteq Ids
  BY <1>1, <1>2 DEF Rejected
<1>4. Cardinality(Rejected(triage)) \in Nat
  BY <1>3, ReviewDeskAssumption, FS_Subset, FS_CardinalityType
<1>5. Accounted'
  <2>1. CASE DOMAIN robustness' = {} /\ result' = Completed(killed, 0)
    BY <1>1, <1>2, <2>1, NoneLeft
  <2>2. CASE result' = result
    BY <1>2, <2>2 DEF Accounted
  <2> QED BY <1>1, <2>1, <2>2
<1>6. robustness' \in Robustness(Ids)
  <2>1. SUBSET Survivors(triage) \subseteq SUBSET Ids
    BY <1>2 DEF Survivors
  <2> QED BY <1>1, <2>1 DEF Robustness
<1>7. killed' = Cardinality(Rejected(triage)') + Cardinality(Killings')
  BY <1>1, <1>2, <1>3, <1>4, FS_EmptySet
<1>8. Tally'
  BY <1>1, <1>2, <1>6, <1>7 DEF CountInv, Tally
<1>9. DeskInv'
  BY AnsweringKeeps DEF CountInv
<1> QED BY <1>2, <1>5, <1>8, <1>9 DEF CountInv

LEMMA CritiqueCounts ==
  ASSUME CountInv, AskCritic
  PROVE  CountInv'
<1>1. /\ stage = "stressed" /\ UNCHANGED <<evidence, triage, robustness, killed>>
      /\ \/ stage' = "routing" /\ result' = result
         \/ stage' = "closed" /\ result' = Aborted
  BY DEF AskCritic, Close
<1>2. /\ OncePerStrategy' /\ QueuedCounted' /\ Killings' = {} /\ queued' = << >>
      /\ result = None /\ killed = Cardinality(Rejected(triage))
      /\ DOMAIN evidence \subseteq Ids /\ critique = << >>
  BY NothingCounted
<1>3. Rejected(triage)' = Rejected(triage) /\ Rejected(triage) \subseteq Ids
  BY <1>1, <1>2 DEF Rejected
<1>4. Cardinality(Rejected(triage)) \in Nat
  BY <1>3, ReviewDeskAssumption, FS_Subset, FS_CardinalityType
<1>5. Accounted'
  BY <1>1, <1>2 DEF Accounted, Aborted, CycleResult
<1>6. critique' \in Seq({critique'[k] : k \in DOMAIN critique'})
  <2>1. robustness \in Robustness(Ids)
    BY DEF CountInv, Tally
  <2>2. PICK a \in CriticAnswers(robustness) : critique' = a.verdicts \/ critique' = critique
    BY DEF AskCritic
  <2>3. a.verdicts \in Seq({a.verdicts[k] : k \in DOMAIN a.verdicts})
    BY <2>1, CritiqueAssumption
  <2>4. critique \in Seq({critique[k] : k \in DOMAIN critique})
    BY DEF CountInv, Tally
  <2> QED BY <2>2, <2>3, <2>4
<1>7. killed' = Cardinality(Rejected(triage)') + Cardinality(Killings')
  BY <1>1, <1>2, <1>3, <1>4, FS_EmptySet
<1>8. Tally'
  BY <1>1, <1>2, <1>6, <1>7 DEF CountInv, Tally
<1>9. DeskInv'
  BY AnsweringKeeps DEF CountInv
<1> QED BY <1>2, <1>5, <1>8, <1>9 DEF CountInv

-----------------------------------------------------------------------------
\* A kill is routed: one more killing, no other survivor (run_pipeline).
LEMMA KillCounts ==
  ASSUME CountInv, RouteKill
  PROVE  CountInv'
<1>1. /\ stage = "routing" /\ stage' = stage
      /\ critique[routed + 1].verdict = "kill"
      /\ killed' = killed + 1 /\ routed' = routed + 1
      /\ UNCHANGED <<evidence, triage, robustness, critique, queued, queue, result>>
  BY DEF RouteKill
<1>2. routed \in Nat /\ QueueIsFiled /\ result = None
      /\ killed = Cardinality(Rejected(triage)) + Cardinality(Killings)
  BY <1>1 DEF CountInv, DeskInv, QueueIsFiled, Tally
<1>3. Survivals' = Survivals
  BY <1>1, <1>2, OneMoreVerdict
<1>4. Killings' = Killings \union {routed + 1} /\ routed + 1 \notin Killings
  <2>1. 1 .. routed' = (1 .. routed) \union {routed + 1} /\ routed + 1 \notin 1 .. routed
    BY <1>1, <1>2
  <2> QED BY <1>1, <2>1 DEF Killings
<1>5. Cardinality(Killings') = Cardinality(Killings) + 1 /\ Cardinality(Killings) \in Nat
  <2>1. IsFiniteSet(Killings) /\ Cardinality(Killings) \in Nat
    BY <1>2, KilledAndSurvived
  <2> QED BY <1>4, <2>1, FS_AddElement
<1>6. Rejected(triage)' = Rejected(triage) /\ Cardinality(Rejected(triage)) \in Nat
  <2>1. Rejected(triage) \subseteq Ids
    BY DEF Rejected, CountInv, Tally
  <2>2. Cardinality(Rejected(triage)) \in Nat
    BY <2>1, ReviewDeskAssumption, FS_Subset, FS_CardinalityType
  <2> QED BY <1>1, <2>2 DEF Rejected
<1>7. killed' = Cardinality(Rejected(triage)') + Cardinality(Killings')
  BY <1>1, <1>2, <1>5, <1>6
<1>8. Tally'
  BY <1>1, <1>2, <1>7 DEF CountInv, Tally
<1>9. OncePerStrategy' /\ QueuedCounted' /\ Accounted'
  BY <1>1, <1>2, <1>3 DEF CountInv, OncePerStrategy, QueuedCounted, Accounted
<1>10. DeskInv'
  BY RouteKillKeeps DEF CountInv
<1> QED BY <1>8, <1>9, <1>10 DEF CountInv

\* A survivor is routed: one more strategy counted, one more entry if it is new
\* (run_pipeline, ApprovalQueue.append).
LEMMA SurvivorCounts ==
  ASSUME CountInv, RouteSurvivor
  PROVE  CountInv'
<1> DEFINE r == routed + 1
           mine == Identity[critique[r].id]
           Old == {Identity[critique[k].id] : k \in Survivals}
<1>1. /\ stage = "routing" /\ stage' = stage
      /\ critique[r].verdict # "kill" /\ routed' = r
      /\ queued' = Append(queued, mine)
      /\ UNCHANGED <<evidence, triage, robustness, critique, killed, result>>
      /\ queue' = IF \E k \in DOMAIN queue : queue[k].identity = mine
                  THEN queue ELSE Append(queue, EntryFor(critique[r]))
  BY DEF RouteSurvivor, FileSurvivor
<1>2. routed \in Nat /\ QueueIsFiled /\ result = None
      /\ killed = Cardinality(Rejected(triage)) + Cardinality(Killings)
  BY <1>1 DEF CountInv, DeskInv, QueueIsFiled, Tally
<1>3. Survivals' = Survivals \union {r} /\ r \notin Survivals
  <2>1. Survivals \subseteq 1 .. routed
    BY DEF Survivals
  <2>2. Survivals' = Survivals \union {k \in {r} : critique[k].verdict # "kill"}
    BY <1>1, <1>2, OneMoreVerdict
  <2> QED BY <1>1, <1>2, <2>1, <2>2
<1>4. Killings' = Killings
  <2>1. 1 .. routed' = (1 .. routed) \union {r}
    BY <1>1, <1>2
  <2> QED BY <1>1, <2>1 DEF Killings
<1>5. Cardinality(Survivals') = Cardinality(Survivals) + 1 /\ Cardinality(Survivals) \in Nat
  <2>1. IsFiniteSet(Survivals) /\ Cardinality(Survivals) \in Nat
    BY <1>2, KilledAndSurvived
  <2> QED BY <1>3, <2>1, FS_AddElement
<1>6. Tally'
  <2>1. Rejected(triage)' = Rejected(triage)
    BY <1>1 DEF Rejected
  <2> QED BY <1>1, <1>2, <1>4, <2>1 DEF CountInv, Tally
<1>7. OncePerStrategy'
  <2>1. CASE queue' = queue
    BY <2>1 DEF CountInv, OncePerStrategy
  <2>2. CASE /\ queue' = Append(queue, EntryFor(critique[r]))
             /\ \A k \in DOMAIN queue : queue[k].identity # mine
    <3>1. queue \in Seq(Entries)
      BY <1>2 DEF QueueIsFiled
    <3>2. /\ DOMAIN queue' = 1 .. Len(queue) + 1 /\ DOMAIN queue = 1 .. Len(queue)
          /\ Len(queue) \in Nat
          /\ queue'[Len(queue) + 1] = EntryFor(critique[r])
          /\ \A n \in DOMAIN queue : queue'[n] = queue[n]
      BY <2>2, <3>1, AppendProperties
    <3>3. EntryFor(critique[r]).identity = mine
      BY DEF EntryFor
    <3>4. \A n \in DOMAIN queue' : n \in DOMAIN queue \/ n = Len(queue) + 1
      BY <3>2
    <3> HIDE DEF mine
    <3> QED BY <2>2, <3>2, <3>3, <3>4 DEF CountInv, OncePerStrategy
  <2> QED BY <1>1, <2>1, <2>2
<1>8. QueuedCounted'
  <2>1. /\ queued \in Seq(Old) /\ Len(queued) = Cardinality(Survivals)
        /\ \A k \in Survivals : \E n \in DOMAIN queued : queued[n] = Identity[critique[k].id]
    BY DEF CountInv, QueuedCounted
  <2>2. {Identity[critique[k].id] : k \in Survivals}' = Old \union {mine}
    BY <1>1, <1>3
  <2> HIDE DEF Old, mine
  <2>3. queued \in Seq(Old \union {mine})
    BY <2>1
  <2>4. /\ queued' \in Seq(Old \union {mine}) /\ Len(queued') = Len(queued) + 1
        /\ DOMAIN queued' = 1 .. Len(queued) + 1 /\ DOMAIN queued = 1 .. Len(queued)
        /\ Len(queued) \in Nat
        /\ queued'[Len(queued) + 1] = mine
        /\ \A n \in DOMAIN queued : queued'[n] = queued[n]
    BY <1>1, <2>3, AppendProperties
  <2>5. \A k \in Survivals' : \E n \in DOMAIN queued' : queued'[n] = Identity[critique[k].id]
    <3>1. Len(queued) + 1 \in DOMAIN queued' /\ DOMAIN queued \subseteq DOMAIN queued'
      BY <2>4
    <3>2. queued'[Len(queued) + 1] = Identity[critique[r].id]
      BY <2>4 DEF mine
    <3> QED BY <1>3, <2>1, <2>4, <3>1, <3>2
  <2>6. Len(queued') = Cardinality(Survivals')
    BY <1>5, <2>1, <2>4
  <2> QED BY <1>1, <2>2, <2>4, <2>5, <2>6 DEF QueuedCounted
<1>9. Accounted'
  BY <1>1, <1>2 DEF Accounted
<1>10. DeskInv'
  BY RouteSurvivorKeeps DEF CountInv
<1> QED BY <1>6, <1>7, <1>8, <1>9, <1>10 DEF CountInv

\* All verdicts are routed: with one verdict each the counts account for every
\* candidate (run_cycle).
LEMMA EndCounts ==
  ASSUME CountInv, EndCycle
  PROVE  CountInv'
<1> DEFINE R == DOMAIN robustness
<1>1. /\ stage = "routing" /\ stage' = "closed" /\ routed = Len(critique)
      /\ result' = Completed(killed, Len(queued))
      /\ UNCHANGED <<evidence, triage, robustness, critique, routed, killed, queued, queue>>
  BY DEF EndCycle, Close
<1>2. /\ routed \in Nat /\ Len(queued) = Cardinality(Survivals)
      /\ killed = Cardinality(Rejected(triage)) + Cardinality(Killings)
      /\ DOMAIN evidence \subseteq Ids /\ R \subseteq Survivors(triage)
  BY <1>1 DEF CountInv, DeskInv, QueueIsFiled, QueuedCounted, StressedSurvived, Tally
<1>3. Accounted'
  <2> SUFFICES ASSUME JudgedOnce'
               PROVE  result'.proposed = result'.killed + result'.queued
                        + Cardinality((Ids \ DOMAIN evidence)')
                        + Cardinality((Survivors(triage) \ DOMAIN robustness)')
    BY DEF Accounted
  <2>1. JudgedOnce
    BY <1>1 DEF JudgedOnce
  <2>2. Cardinality(R) = routed
    BY <1>1, <2>1, OneVerdictEach DEF CountInv, DeskInv, Tally
  <2>3. /\ Cardinality(Killings) \in Nat /\ Cardinality(Survivals) \in Nat
        /\ Cardinality(Killings) + Cardinality(Survivals) = routed
    BY <1>2, KilledAndSurvived
  <2>4. /\ Cardinality(Rejected(triage)) \in Nat
        /\ Cardinality(Ids \ DOMAIN evidence) \in Nat
        /\ Cardinality(Survivors(triage) \ R) \in Nat
        /\ Cardinality(Ids) = Cardinality(Rejected(triage)) + Cardinality(R)
             + Cardinality(Ids \ DOMAIN evidence) + Cardinality(Survivors(triage) \ R)
    BY <1>2, EveryCandidateOnce
  <2>5. /\ result'.proposed = Cardinality(Ids) /\ result'.killed = killed
        /\ result'.queued = Len(queued)
    BY <1>1 DEF Completed, CycleResult
  <2>6. Survivors(triage)' = Survivors(triage)
    BY <1>1 DEF Survivors, Rejected
  <2>7. Cardinality(Ids) = killed + Len(queued) + Cardinality(Ids \ DOMAIN evidence)
          + Cardinality(Survivors(triage) \ R)
    BY <1>2, <2>2, <2>3, <2>4
  <2> QED BY <1>1, <2>5, <2>6, <2>7
<1>4. Survivals' = Survivals
  BY <1>1 DEF Survivals
<1>5. Tally' /\ OncePerStrategy' /\ QueuedCounted'
  BY <1>1, <1>4 DEF CountInv, Tally, OncePerStrategy, QueuedCounted
<1>6. DeskInv'
  BY ReportingKeeps DEF CountInv
<1> QED BY <1>3, <1>5, <1>6 DEF CountInv

\* The report counts nothing (ReportingAgent).
LEMMA ReportingCounts ==
  ASSUME CountInv, AskReportingAgent \/ UNCHANGED vars
  PROVE  CountInv'
<1>1. /\ \/ stage' = stage
         \/ stage = "closed" /\ stage' \in {"reported", "unreported"}
      /\ UNCHANGED <<evidence, triage, robustness, critique, routed, killed, queued, queue, result>>
  BY DEF AskReportingAgent, vars
<1>2. Survivals' = Survivals /\ Killings' = Killings
  BY <1>1 DEF Survivals, Killings
<1>3. Rejected(triage)' = Rejected(triage) /\ Survivors(triage)' = Survivors(triage)
  BY <1>1 DEF Rejected, Survivors
<1>4. JudgedOnce' = JudgedOnce
  BY <1>1 DEF JudgedOnce
<1>5. Tally'
  BY <1>1, <1>2, <1>3 DEF CountInv, Tally
<1>6. OncePerStrategy' /\ QueuedCounted' /\ Accounted'
  BY <1>1, <1>2, <1>3, <1>4 DEF CountInv, OncePerStrategy, QueuedCounted, Accounted
<1>7. DeskInv'
  BY ReportingKeeps DEF CountInv
<1> QED BY <1>5, <1>6, <1>7 DEF CountInv

LEMMA StepCounts == CountInv /\ [Next]_vars => CountInv'
<1> SUFFICES ASSUME CountInv, [Next]_vars
             PROVE  CountInv'
  OBVIOUS
<1> QED BY NothingTestedCounts, TriageCounts, StressCounts, CritiqueCounts, KillCounts,
           SurvivorCounts, EndCounts, ReportingCounts DEF Next

\* Whatever the agents answer, the counts of a completed cycle account for every
\* candidate proposed if the critic judged each once, and the queue holds one
\* entry for each strategy counted (orchestrator.run_cycle).
THEOREM CountsAlwaysAddUp == Spec => []CountsAddUp
<1>1. CountInv => CountsAddUp
  <2> SUFFICES ASSUME CountInv
               PROVE  CountsAddUp
    OBVIOUS
  <2>1. Len(queue) = Cardinality({queued[k] : k \in DOMAIN queued})
    BY EntryPerStrategy DEF CountInv, DeskInv
  <2> QED BY <2>1 DEF CountInv, Accounted, CountsAddUp
<1> QED BY <1>1, InitCounts, StepCounts, PTL DEF Spec
=============================================================================
