---------------------------- MODULE AgentRunner ----------------------------
(***************************************************************************)
(* core/agents/runner.py and core/agents/evaluation.py: one run of an      *)
(* agent, through its budget checks, its retries and the two tiers of the  *)
(* evaluation gate, and the runs that follow on the same budget tracker.   *)
(*                                                                         *)
(* There is one action per call of the provider and per decision between   *)
(* two calls.  An agent prepares any of Calls, the provider fails in any   *)
(* way or reports any of Usages, and any Tier-1 check may fail.            *)
(***************************************************************************)
EXTENDS LlmClient

CONSTANTS
  Calls,           \* the calls an agent may prepare
  Usages,          \* the usage the provider may report, zeros if it reports none
  PromptCap,       \* max_prompt_tokens_per_call
  CompletionCap,   \* max_completion_tokens_per_call
  CostCap,         \* max_cost_per_cycle_usd, or NoCap
  NoCap,
  Retries,
  Tier2Mode,
  MaxRuns          \* bound on the runs

\* The estimate of prompt tokens is a quarter of the characters: it says nothing
\* certain of the tokens the provider will report.
AgentCall == [tier: Tiers, estimate: Nat, maxOutput: Nat]

ASSUME AgentRunnerAssumption ==
  /\ Calls \subseteq AgentCall
  /\ Usages \subseteq TokenUsage
  /\ {PromptCap, CompletionCap, Retries, MaxRuns} \subseteq Nat
  /\ NoCap \notin Nat
  /\ CostCap \in Nat \union {NoCap}
  /\ Tier2Mode \in {"off", "sampled", "on"}

VARIABLES
  stage,       \* where the run is
  run,         \* number of the current or last run
  call,        \* the call the run makes or made
  attempt,     \* retries of it so far
  usage,       \* what its answer used
  cycleCost,   \* the budget tracker: what was spent since it was at zero
  outcome,     \* how the last run ended
  told,        \* observed: the costs of the results since the tracker was at zero
  mark         \* observed: the length of the usage log when it was at zero

vars == <<usageLog, stage, run, call, attempt, usage, cycleCost, outcome, told, mark>>

Stages == {"idle", "calling", "answered", "settled", "judging"}
Outcomes == {"none", "output", "rejected", "failed", "raised"}

JudgeTier == "cheap"

NoCall  == [tier |-> JudgeTier, estimate |-> 0, maxOutput |-> 0]
NoUsage == [prompt |-> 0, cached |-> 0, completion |-> 0]

Cost == EstimateCost(call.tier, usage)

OverCap(cost) == CostCap # NoCap /\ cost > CostCap

-----------------------------------------------------------------------------
Init ==
  /\ UsageLogInit
  /\ stage = "idle"
  /\ run = 0
  /\ call = NoCall
  /\ attempt = 0
  /\ usage = NoUsage
  /\ cycleCost = 0
  /\ outcome = "none"
  /\ told = 0
  /\ mark = 0

\* The run ends, and everything it held in memory is gone.
End(how) ==
  /\ stage' = "idle"
  /\ outcome' = how
  /\ call' = NoCall
  /\ attempt' = 0
  /\ usage' = NoUsage

\* A result that tells what the answer cost.
Return(how) == End(how) /\ told' = told + Cost

\* A failure, or an exception, tells no cost.
EndUntold(how) == End(how) /\ UNCHANGED told

BeginRun == stage = "idle" /\ run < MaxRuns /\ run' = run + 1

\* check_pre_call looks at the call alone, not at what was spent before it.
TooLarge(c) == c.maxOutput > CompletionCap \/ c.estimate > PromptCap

PreparationFails ==
  /\ BeginRun
  /\ EndUntold("failed")
  /\ UNCHANGED <<usageLog, cycleCost, mark>>

RefuseCall == \E c \in Calls :
  /\ TooLarge(c)
  /\ BeginRun
  /\ EndUntold("raised")
  /\ UNCHANGED <<usageLog, cycleCost, mark>>

Dispatch == \E c \in Calls :
  /\ ~TooLarge(c)
  /\ BeginRun
  /\ stage' = "calling"
  /\ call' = c
  /\ outcome' = "none"
  /\ UNCHANGED <<usageLog, attempt, usage, cycleCost, told, mark>>

-----------------------------------------------------------------------------
(* _call_with_retry *)

\* Faulty variant: one retry too many.
RetryOnceMore == \E fault \in LlmTransientErrors :
  /\ stage = "calling"
  /\ attempt <= Retries
  /\ attempt' = attempt + 1
  /\ UNCHANGED <<usageLog, stage, run, call, usage, cycleCost, outcome, told, mark>>

Retry == \E fault \in LlmTransientErrors :
  /\ stage = "calling"
  /\ attempt < Retries
  /\ attempt' = attempt + 1
  /\ UNCHANGED <<usageLog, stage, run, call, usage, cycleCost, outcome, told, mark>>

GiveUp == \E fault \in LlmTransientErrors :
  /\ stage = "calling"
  /\ attempt = Retries
  /\ EndUntold("failed")
  /\ UNCHANGED <<usageLog, run, cycleCost, mark>>

FatalError == \E fault \in LlmFatalErrors :
  /\ stage = "calling"
  /\ EndUntold("failed")
  /\ UNCHANGED <<usageLog, run, cycleCost, mark>>

Answer == \E u \in Usages :
  /\ stage = "calling"
  /\ RecordUsage(run, "agent", call.tier, u)
  /\ usage' = u
  /\ stage' = "answered"
  /\ UNCHANGED <<run, call, attempt, cycleCost, outcome, told, mark>>

\* An error of the usage log's database is neither transient nor fatal: it
\* escapes the run, and the answer is lost.
RecorderFails ==
  /\ stage = "calling"
  /\ EndUntold("raised")
  /\ UNCHANGED <<usageLog, run, cycleCost, mark>>

-----------------------------------------------------------------------------
(* BudgetTracker.record *)

LongPrompt == usage.prompt > PromptCap

\* The cost of an answer to too long a prompt is not added.
RaiseOnPrompt ==
  /\ stage = "answered"
  /\ LongPrompt
  /\ EndUntold("raised")
  /\ UNCHANGED <<usageLog, run, cycleCost, mark>>

\* Faulty variant: the cost that breaks the cap is not added.
RaiseUncounted ==
  /\ stage = "answered"
  /\ ~LongPrompt
  /\ OverCap(cycleCost + Cost)
  /\ EndUntold("raised")
  /\ UNCHANGED <<usageLog, run, cycleCost, mark>>

RaiseOnCost ==
  /\ stage = "answered"
  /\ ~LongPrompt
  /\ OverCap(cycleCost + Cost)
  /\ cycleCost' = cycleCost + Cost
  /\ EndUntold("raised")
  /\ UNCHANGED <<usageLog, run, mark>>

Settle ==
  /\ stage = "answered"
  /\ ~LongPrompt
  /\ ~OverCap(cycleCost + Cost)
  /\ cycleCost' = cycleCost + Cost
  /\ stage' = "settled"
  /\ UNCHANGED <<usageLog, run, call, attempt, usage, outcome, told, mark>>

-----------------------------------------------------------------------------
(* EvaluationGate.evaluate *)

\* Faulty variant: a rejected run reports no cost.
RejectForFree ==
  /\ stage = "settled"
  /\ EndUntold("rejected")
  /\ UNCHANGED <<usageLog, run, cycleCost, mark>>

\* A Tier-1 check fails, or raises.
Reject ==
  /\ stage = "settled"
  /\ Return("rejected")
  /\ UNCHANGED <<usageLog, run, cycleCost, mark>>

Accept ==
  /\ stage = "settled"
  /\ Tier2Mode # "on"
  /\ Return("output")
  /\ UNCHANGED <<usageLog, run, cycleCost, mark>>

AskJudge ==
  /\ stage = "settled"
  /\ Tier2Mode # "off"
  /\ stage' = "judging"
  /\ UNCHANGED <<usageLog, run, call, attempt, usage, cycleCost, outcome, told, mark>>

\* Faulty variant: an unfavourable judge is asked again.
JudgeAgain == \E u \in Usages :
  /\ stage = "judging"
  /\ RecordUsage(run, "judge", JudgeTier, u)
  /\ UNCHANGED <<stage, run, call, attempt, usage, cycleCost, outcome, told, mark>>

\* Whatever the judge says, the answer is passed on.  Its own call is logged,
\* but the budget tracker does not see it.
JudgeAnswers == \E u \in Usages :
  /\ stage = "judging"
  /\ RecordUsage(run, "judge", JudgeTier, u)
  /\ Return("output")
  /\ UNCHANGED <<run, cycleCost, mark>>

\* Any error of the judge, of the usage log too, counts as a flag.  There is no
\* second attempt.
JudgeFails ==
  /\ stage = "judging"
  /\ Return("output")
  /\ UNCHANGED <<usageLog, run, cycleCost, mark>>

-----------------------------------------------------------------------------
StartCount == cycleCost' = 0 /\ told' = 0 /\ mark' = Len(usageLog)

ResetCycle ==
  /\ stage = "idle"
  /\ StartCount
  /\ UNCHANGED <<usageLog, stage, run, call, attempt, usage, outcome>>

\* The process ends, in a run or between two, and another one starts.
Restart ==
  /\ StartCount
  /\ End("none")
  /\ UNCHANGED <<usageLog, run>>

RunStep ==
  \/ Retry \/ GiveUp \/ FatalError \/ Answer \/ RecorderFails
  \/ RaiseOnPrompt \/ RaiseOnCost \/ Settle
  \/ Reject \/ Accept \/ AskJudge \/ JudgeAnswers \/ JudgeFails

Next == PreparationFails \/ RefuseCall \/ Dispatch \/ RunStep \/ ResetCycle \/ Restart

Spec == Init /\ [][Next]_vars

\* A run that was begun goes on: every call of the provider ends by an answer or
\* a timeout.  Nobody has to begin one, or to reset the tracker.
FairSpec == Spec /\ WF_vars(RunStep)

-----------------------------------------------------------------------------
\* Types.
TypeOK ==
  /\ usageLog \in Seq(UsageRow)
  /\ stage \in Stages
  /\ run \in 0 .. MaxRuns
  /\ call \in Calls \union {NoCall}
  /\ attempt \in 0 .. Retries
  /\ usage \in Usages \union {NoUsage}
  /\ cycleCost \in Nat
  /\ outcome \in Outcomes
  /\ told \in Nat
  /\ mark \in 0 .. Len(usageLog)

\* The rows whose cost the tracker should have: an agent's own answers since it
\* was at zero, but for the one whose cost is not settled yet and those whose
\* prompt was too long.
Counted(k) ==
  /\ k > mark
  /\ usageLog[k].caller = "agent"
  /\ usageLog[k].usage.prompt <= PromptCap
  /\ (stage = "answered") => (k # Len(usageLog))

CountedCost(k) ==
  IF Counted(k) THEN EstimateCost(usageLog[k].tier, usageLog[k].usage) ELSE 0

\* The tracker in memory and the usage log on disk agree on what was spent,
\* whether runs returned, were rejected, raised on the cap or died.
TrackerMatchesLog == cycleCost = Total([k \in 1 .. Len(usageLog) |-> CountedCost(k)])

\* However a run fails and is retried, it is answered, and pays, once.
OneAnswerPerRun == \A j, k \in DOMAIN usageLog :
  usageLog[j].run = usageLog[k].run /\ usageLog[j].caller = usageLog[k].caller => j = k

-----------------------------------------------------------------------------
Promise == INSTANCE BudgetedCall WITH
  Costs <- {EstimateCost(tier, u) : tier \in Tiers, u \in Usages \union {NoUsage}},
  busy <- stage # "idle",
  spent <- IF stage \in {"settled", "judging"} THEN cycleCost - Cost ELSE cycleCost

\* To its caller a run is one step, which ends, and whose cost is told unless it
\* breaks the cap.
ImplementsBudgetedCall == Promise!Spec
=============================================================================
