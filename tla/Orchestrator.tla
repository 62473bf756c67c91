---------------------------- MODULE Orchestrator ----------------------------
(***************************************************************************)
(* core/orchestration/orchestrator.py: run_cycle, one pass of the slow     *)
(* loop, over the registry and the approval queue.                         *)
(*                                                                         *)
(* There is one action per durable write, so that a crash can fall between *)
(* any two of them, and one per agent call.  What an agent answers is any  *)
(* answer its Tier-1 checks let through.  What the cycle holds in memory   *)
(* is lost when it crashes or returns; a new process may then run another. *)
(***************************************************************************)
EXTENDS ApprovalQueue, SequencesExt

CONSTANTS
  Ids,           \* candidate ids, which the strategy lab chooses
  Proposals,     \* the proposals the strategy lab may return
  CallCosts,     \* what one agent call may turn out to cost
  CostCeiling,   \* per_call_cost_ceiling_usd
  CycleCap,      \* max_cost_per_cycle_usd
  MaxVerdicts,   \* bound on the verdicts of one answer of the critic
  MaxCycles      \* bound on the cycles run

Candidate == [id: Ids, identity: Identities]

ASSUME OrchestratorAssumption ==
  /\ Proposals \subseteq Seq(Candidate)
  /\ CallCosts \subseteq Nat
  /\ {CostCeiling, CycleCap, MaxVerdicts, MaxCycles} \subseteq Nat
  /\ None \notin Identities \union Verdicts \union WritableStates
               \union AuthorizingStates \union RegistryEntry

VARIABLES
  stage,     \* where the cycle is
  cycle,     \* number of the current or last cycle
  work,      \* what the running cycle holds in memory
  result,    \* what the last cycle reported, if it returned
  crashed    \* observed: the cycles that never returned

vars == <<registry, queue, stage, cycle, work, result, crashed>>

CallStages == {"market_context", "strategy_lab", "backtest_agent", "critic"}
Stages == CallStages \union {"idle", "upsert", "record", "triage", "route",
                             "file", "mark"}
Outcomes == {"completed", "aborted_budget", "aborted_failure"}

\* todo is what the current loop has not handled yet: candidate ids,
\* positions in the proposal, or verdicts.
Fresh == [cost |-> 0, proposal |-> << >>, todo |-> << >>, evidence |-> << >>,
          survivors |-> {}, killed |-> 0, queued |-> << >>]

-----------------------------------------------------------------------------
\* The positions up to n that are in S, in order.
InOrder(n, S) ==
  LET upTo[k \in 0 .. n] ==
        IF k = 0 THEN << >>
        ELSE IF k \in S THEN Append(upTo[k - 1], k) ELSE upTo[k - 1]
  IN  upTo[n]

\* The dictionaries by candidate id: a later candidate replaces an earlier one
\* of the same id, at the place of the earlier one.
Keys(proposal, ids) ==
  LET first == {k \in DOMAIN proposal :
                  proposal[k].id \in ids /\ \A j \in 1 .. k - 1 : proposal[j].id # proposal[k].id}
      order == InOrder(Len(proposal), first)
  IN  [n \in DOMAIN order |-> proposal[order[n]].id]

IdentityOf(proposal, id) ==
  proposal[Max({k \in DOMAIN proposal : proposal[k].id = id})].identity

\* Faulty variant: the registry is keyed by candidate id.
CandidateId(id) == id

Identity(id) == IdentityOf(work.proposal, id)

Tested == {work.proposal[k].id : k \in ToSet(work.evidence)}

\* ev_by_id: the evidence of a candidate id, by the strategy it was made from.
EvidenceOf(id) ==
  LET mine == {k \in ToSet(work.evidence) : work.proposal[k].id = id}
  IN  IF mine = {} THEN None ELSE work.proposal[Max(mine)].identity

\* The candidates that go on to the robustness runs.
Survivors(rejected) == Tested \ rejected

-----------------------------------------------------------------------------
Init ==
  /\ RegistryInit
  /\ QueueInit
  /\ stage = "idle"
  /\ cycle = 0
  /\ work = Fresh
  /\ result = None
  /\ crashed = {}

StartCycle ==
  /\ stage = "idle"
  /\ cycle < MaxCycles
  /\ cycle' = cycle + 1
  /\ work' = Fresh
  /\ stage' = "market_context"
  /\ result' = None
  /\ UNCHANGED <<registry, queue, crashed>>

\* run_cycle returns its result.
Return(outcome, cost, proposed, killed, queued) ==
  /\ result' = [outcome |-> outcome, cost |-> cost, proposed |-> proposed,
                killed |-> killed, queued |-> queued]
  /\ work' = Fresh
  /\ stage' = "idle"
  /\ UNCHANGED <<registry, queue, cycle, crashed>>

Complete ==
  Return("completed", work.cost, Len(Keys(work.proposal, Ids)), work.killed, work.queued)

\* The counts of an aborted cycle are those it started with.
Abort(outcome, cost) == Return(outcome, cost, 0, 0, << >>)

GoTo(next, memory) ==
  /\ stage' = next
  /\ work' = memory
  /\ UNCHANGED <<cycle, result, crashed>>

GoOnTo(next, memory) == GoTo(next, memory) /\ UNCHANGED <<registry, queue>>

-----------------------------------------------------------------------------
(* _run_agent *)

\* Faulty variant: only what was spent is compared with the cap.
SpentWithinCap == work.cost <= CycleCap

Affordable == work.cost + CostCeiling <= CycleCap

\* Faulty variant: the cycle waits for its budget to grow.
WaitForBudget == stage \in CallStages /\ ~Affordable /\ UNCHANGED vars

RefuseCall == stage \in CallStages /\ ~Affordable /\ Abort("aborted_budget", work.cost)

\* A failed run costs nothing, or what a rejected answer cost.
CallFails == \E cost \in {0} \union CallCosts :
  /\ stage \in CallStages
  /\ Affordable
  /\ Abort("aborted_failure", work.cost + cost)

\* AgentBudgetExceeded escapes before the cost of the call is added.
CallOverAgentBudget ==
  stage \in CallStages /\ Affordable /\ Abort("aborted_budget", work.cost)

Calling(agent) == stage = agent /\ Affordable

Paying(memory, cost) == [memory EXCEPT !.cost = @ + cost]

-----------------------------------------------------------------------------
(* _run_pipeline *)

MarketContext == \E cost \in CallCosts :
  /\ Calling("market_context")
  /\ GoOnTo("strategy_lab", Paying(work, cost))

StrategyLab == \E cost \in CallCosts, p \in Proposals :
  /\ Calling("strategy_lab")
  /\ GoOnTo("upsert", [Paying(work, cost) EXCEPT !.proposal = p, !.todo = Keys(p, Ids)])

UpsertNext ==
  /\ stage = "upsert"
  /\ work.todo # << >>
  /\ UpsertProposed(Identity(Head(work.todo)), cycle)
  /\ GoTo("upsert", [work EXCEPT !.todo = Tail(@)])
  /\ UNCHANGED queue

NothingProposed == stage = "upsert" /\ work.proposal = << >> /\ Complete

\* run_proposal: every candidate may fail to run.
RunBacktests == \E run \in SUBSET DOMAIN work.proposal :
  /\ stage = "upsert"
  /\ work.todo = << >>
  /\ work.proposal # << >>
  /\ LET positions == InOrder(Len(work.proposal), run)
     IN  GoOnTo("record", [work EXCEPT !.evidence = positions, !.todo = positions])

RecordNext ==
  /\ stage = "record"
  /\ work.todo # << >>
  /\ LET run == work.proposal[Head(work.todo)]
     IN  RecordBacktest(Identity(run.id), run.identity)
  /\ GoTo("record", [work EXCEPT !.todo = Tail(@)])
  /\ UNCHANGED queue

NothingTested == stage = "record" /\ work.evidence = << >> /\ Complete

EvidenceRecorded ==
  /\ stage = "record"
  /\ work.todo = << >>
  /\ work.evidence # << >>
  /\ GoOnTo("backtest_agent", work)

\* The backtest agent may leave a candidate out: only a rejected one is killed.
Interpret == \E cost \in CallCosts, rejected \in SUBSET Tested :
  /\ Calling("backtest_agent")
  /\ LET killed == Keys(work.proposal, rejected)
     IN  GoOnTo("triage", [Paying(work, cost) EXCEPT !.todo = killed,
                                                     !.survivors = Survivors(rejected)])

KillNext ==
  /\ stage = "triage"
  /\ work.todo # << >>
  /\ SetState(Identity(Head(work.todo)), "killed")
  /\ GoTo("triage", [work EXCEPT !.todo = Tail(@), !.killed = @ + 1])
  /\ UNCHANGED queue

NothingSurvives ==
  stage = "triage" /\ work.todo = << >> /\ work.survivors = {} /\ Complete

\* run_robustness: every survivor may fail to run.
Stress == \E run \in SUBSET work.survivors :
  /\ stage = "triage"
  /\ work.todo = << >>
  /\ work.survivors # {}
  /\ IF run = {} THEN Complete
     ELSE GoOnTo("critic", [work EXCEPT !.survivors = run])

\* The critic may leave a candidate out or give it several verdicts.
Criticise ==
  \E cost \in CallCosts,
     verdicts \in SeqOf([id: work.survivors, verdict: Verdicts], MaxVerdicts) :
    /\ Calling("critic")
    /\ GoOnTo("route", [Paying(work, cost) EXCEPT !.todo = verdicts])

Routed(memory) == [memory EXCEPT !.todo = Tail(@)]

RouteKill ==
  /\ stage = "route"
  /\ work.todo # << >>
  /\ Head(work.todo).verdict = "kill"
  /\ RecordCritic(Identity(Head(work.todo).id), "kill", "killed")
  /\ GoTo("route", [Routed(work) EXCEPT !.killed = @ + 1])
  /\ UNCHANGED queue

\* Faulty variant: the registry already says queued before the entry is filed.
QueuedAtOnce == "queued_for_approval"

\* The state a survivor is recorded with.
SurvivorState == "survived_for_now"

\* Faulty variant: the verdict is not recorded.
FileUnrecorded ==
  /\ stage = "route"
  /\ work.todo # << >>
  /\ Head(work.todo).verdict = "survive_for_now"
  /\ GoOnTo("file", work)

RouteSurvivor ==
  /\ stage = "route"
  /\ work.todo # << >>
  /\ Head(work.todo).verdict = "survive_for_now"
  /\ RecordCritic(Identity(Head(work.todo).id), "survive_for_now", SurvivorState)
  /\ GoTo("file", work)
  /\ UNCHANGED queue

\* Faulty variant: a survivor that is filed already is not marked again.
FileOnlyOnce ==
  /\ stage = "file"
  /\ LET v == Head(work.todo)
         entry == [cycle |-> cycle, identity |-> Identity(v.id),
                   evidence |-> EvidenceOf(v.id), verdict |-> v.verdict]
     IN  /\ Enqueue(entry)
         /\ IF \E k \in DOMAIN queue : Matches(queue[k], entry)
            THEN GoTo("route", Routed(work))
            ELSE GoTo("mark", work)
  /\ UNCHANGED registry

FileSurvivor ==
  /\ stage = "file"
  /\ LET v == Head(work.todo)
     IN  Enqueue([cycle |-> cycle, identity |-> Identity(v.id),
                  evidence |-> EvidenceOf(v.id), verdict |-> v.verdict])
  /\ GoTo("mark", work)
  /\ UNCHANGED registry

MarkQueued ==
  /\ stage = "mark"
  /\ LET i == Identity(Head(work.todo).id)
     IN  /\ SetState(i, "queued_for_approval")
         /\ GoTo("route", [Routed(work) EXCEPT !.queued = Append(@, i)])
  /\ UNCHANGED queue

AllRouted == stage = "route" /\ work.todo = << >> /\ Complete

-----------------------------------------------------------------------------
\* The process dies, or an exception run_cycle does not catch ends it.
Crash ==
  /\ stage # "idle"
  /\ crashed' = crashed \union {cycle}
  /\ work' = Fresh
  /\ stage' = "idle"
  /\ UNCHANGED <<registry, queue, cycle, result>>

\* Outside this code: the human decides on what is queued, while no cycle runs.
HumanAuthorizes == \E i \in Identities, state \in AuthorizingStates :
  /\ stage = "idle"
  /\ StateOf(i) \in {"queued_for_approval"} \union (AuthorizingStates \ {state})
  /\ SetState(i, state)
  /\ UNCHANGED <<queue, stage, cycle, work, result, crashed>>

Call == MarketContext \/ StrategyLab \/ Interpret \/ Criticise
        \/ RefuseCall \/ CallFails \/ CallOverAgentBudget

Write == UpsertNext \/ RecordNext \/ KillNext \/ RouteKill \/ RouteSurvivor
         \/ FileSurvivor \/ MarkQueued

Decide == NothingProposed \/ RunBacktests \/ NothingTested \/ EvidenceRecorded
          \/ NothingSurvives \/ Stress \/ AllRouted

CycleStep == Call \/ Write \/ Decide

Next == StartCycle \/ CycleStep \/ Crash \/ HumanAuthorizes

Spec == Init /\ [][Next]_vars

\* A cycle that was started runs on; nobody has to start one, or to decide.
FairSpec == Spec /\ WF_vars(CycleStep)

-----------------------------------------------------------------------------
Todo(s) == CASE s = "record" -> Nat
             [] s \in {"route", "file", "mark"} -> [id: Ids, verdict: Verdicts]
             [] OTHER -> Ids

Memory(s) == [cost: Nat, proposal: Proposals \union {<< >>}, todo: Seq(Todo(s)),
              evidence: Seq(Nat), survivors: SUBSET Ids, killed: Nat,
              queued: Seq(Identities)]

\* Types of the volatile state and of the files.
TypeOK ==
  /\ RegistryTypeOK
  /\ QueueTypeOK
  /\ stage \in Stages
  /\ cycle \in 0 .. MaxCycles
  /\ crashed \subseteq 1 .. cycle
  /\ work \in Memory(stage)
  /\ \/ result = None
     \/ result \in [outcome: Outcomes, cost: Nat, proposed: Nat, killed: Nat,
                     queued: Seq(Identities)]

\* What an entry's state owes to what it records.
Backed(e) ==
  /\ (e.state = "proposed") => (e.evidence = None)
  /\ (e.state # "proposed") => (e.evidence # None)
  /\ (e.state \in {"proposed", "backtested"}) => (e.verdict = None)
  /\ (e.state = "killed") => (e.verdict # "survive_for_now")
  /\ (e.state \in {"survived_for_now", "queued_for_approval"} \union AuthorizingStates)
       => (e.verdict = "survive_for_now")

\* Whatever crashes and re-proposals came before, an entry's state is backed by
\* what it records: nothing left of an earlier run speaks for a new proposal,
\* nothing is judged without evidence, and only a candidate whose latest
\* verdict is to survive is called a survivor or goes further.
TrailComplete == \A i \in Identities : registry[i] # None => Backed(registry[i])

\* What the registry calls queued, and what the human authorized, has its entry
\* in the inbox, filed by the same run and filed once, however often a critic
\* repeats itself and however many candidates are the same strategy: a crash
\* between the two files cannot leave a candidate that waits for a decision
\* nobody is asked for.
QueuedHasEntry == \A i \in Identities :
  StateOf(i) \in {"queued_for_approval"} \union AuthorizingStates =>
    \E k \in DOMAIN queue : \A j \in DOMAIN queue :
      j = k <=> queue[j].identity = i /\ queue[j].cycle = registry[i].run

\* A survivor is dropped before it is queued only by a crash of the cycle that
\* judged it: else it is the one being filed or marked now.
NoSurvivorDropped == \A i \in Identities : StateOf(i) = "survived_for_now" =>
  \/ registry[i].run \in crashed
  \/ stage \in {"file", "mark"} /\ Identity(Head(work.todo).id) = i

\* The cap, overrun by one call dearer than the ceiling it was budgeted at.
WithinBudget(cost) ==
  \/ cost <= CycleCap
  \/ \E c \in CallCosts : cost <= CycleCap + c - CostCeiling

\* A cycle overspends its cap by one call's overrun at most, never by a call it
\* should not have made, however it ends.
CostBounded ==
  /\ WithinBudget(work.cost)
  /\ result # None => WithinBudget(result.cost)

\* A cycle that was started returns or crashes.
CycleReturns == (stage # "idle") ~> (stage = "idle")

-----------------------------------------------------------------------------
\* How far the strategy of an entry is.
EntryStatus(e) ==
  CASE e.state = "backtested" -> "tested"
    [] e.state \in {"survived_for_now", "queued_for_approval"} -> "survived"
    [] e.state \in AuthorizingStates -> "authorized"
    [] OTHER -> e.state

Status(i) == IF registry[i] = None THEN None ELSE EntryStatus(registry[i])

Gate == INSTANCE ReviewGate WITH
  Strategies <- Identities, Cycles <- 1 .. MaxCycles, NotSeen <- None,
  status <- [i \in Identities |-> Status(i)],
  inbox <- {<<queue[k].cycle, queue[k].identity>> : k \in DOMAIN queue}

\* Seen through the registry and the inbox, every cycle, crashed or not, is a
\* run of the review gate.
ImplementsReviewGate == Gate!Spec

-----------------------------------------------------------------------------
(* A claim of the code's own text that does not hold. *)

\* "It may READ the current champion but can never write that slot": a
\* candidate the human authorized stays so through later cycles.
ChampionKept == [][\A i \in Identities :
  StateOf(i) \in AuthorizingStates => StateOf(i)' \in AuthorizingStates]_vars
=============================================================================
