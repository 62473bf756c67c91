------------------------- MODULE AgentRunner_proofs -------------------------
(***************************************************************************)
(* What the agent runner spends and what it counts, for every set of calls *)
(* and usages, every cap, every number of retries and of runs.             *)
(***************************************************************************)
EXTENDS AgentRunner, Totals_proofs, SequenceTheorems

-----------------------------------------------------------------------------
(***************************************************************************)
(* Costs.                                                                  *)
(***************************************************************************)
LEMMA CostType ==
  ASSUME NEW tier \in Tiers, NEW u \in TokenUsage
  PROVE  EstimateCost(tier, u) \in Nat
PROOF
  <1> DEFINE charged == 2 * Larger(0, u.prompt - u.cached) * InputRate[tier]
                        + u.cached * InputRate[tier]
                        + 2 * u.completion * OutputRate[tier]
  <1>1. InputRate[tier] \in Nat /\ OutputRate[tier] \in Nat
    BY DEF Tiers, InputRate, OutputRate
  <1>2. /\ u.prompt \in Nat /\ u.cached \in Nat /\ u.completion \in Nat
        /\ Larger(0, u.prompt - u.cached) \in Nat
    BY DEF TokenUsage, Larger
  <1>3. \A a, b \in Nat : a * b \in Nat /\ 2 * a * b \in Nat
    OBVIOUS
  <1>4. charged \in Nat
    <2>1. 2 * Larger(0, u.prompt - u.cached) * InputRate[tier] \in Nat
      BY <1>1, <1>2, <1>3
    <2>2. u.cached * InputRate[tier] \in Nat
      BY <1>1, <1>2, <1>3
    <2>3. 2 * u.completion * OutputRate[tier] \in Nat
      BY <1>1, <1>2, <1>3
    <2>4. QED
      BY <2>1, <2>2, <2>3
  <1>5. EstimateCost(tier, u) = RoundedQuotient(charged, 200)
    BY DEF EstimateCost
  <1> HIDE DEF charged
  <1>6. QED
    BY <1>4, <1>5, RoundedQuotientBounds

LEMMA ConstantsType ==
  /\ NoUsage \in TokenUsage /\ NoCall \in AgentCall /\ JudgeTier \in Tiers
  /\ Calls \subseteq AgentCall /\ Usages \subseteq TokenUsage
  /\ PromptCap \in Nat /\ Retries \in Nat /\ MaxRuns \in Nat
PROOF
  <1>1. \A n \in {PromptCap, CompletionCap, Retries, MaxRuns} : n \in Nat
    BY AgentRunnerAssumption
  <1>2. QED
    BY <1>1, AgentRunnerAssumption
       DEF NoUsage, NoCall, TokenUsage, AgentCall, JudgeTier, Tiers

LEMMA WorkType ==
  ASSUME TypeOK
  PROVE  /\ call \in AgentCall /\ call.tier \in Tiers
         /\ usage \in TokenUsage
         /\ Cost \in Nat
PROOF
  <1>1. call \in AgentCall /\ usage \in TokenUsage
    BY ConstantsType DEF TypeOK
  <1>2. call.tier \in Tiers
    BY <1>1 DEF AgentCall
  <1>3. QED
    BY <1>1, <1>2, CostType DEF Cost

\* What a row may be, and what appending one does to the log.
LEMMA LogAppend ==
  ASSUME TypeOK, NEW caller \in {"agent", "judge"}, NEW tier \in Tiers,
         NEW u \in TokenUsage, RecordUsage(run, caller, tier, u)
  PROVE  /\ usageLog' \in Seq(UsageRow)
         /\ Len(usageLog) \in Nat
         /\ Len(usageLog') = Len(usageLog) + 1
         /\ usageLog'[Len(usageLog) + 1] =
              [run |-> run, caller |-> caller, tier |-> tier, usage |-> u]
         /\ \A k \in 1 .. Len(usageLog) : usageLog'[k] = usageLog[k]
PROOF
  <1> DEFINE row == [run |-> run, caller |-> caller, tier |-> tier, usage |-> u]
  <1>1. run \in Nat
    BY ConstantsType DEF TypeOK
  <1>2. row \in UsageRow
    BY <1>1 DEF UsageRow
  <1>3. usageLog \in Seq(UsageRow) /\ usageLog' = Append(usageLog, row)
    BY DEF TypeOK, RecordUsage
  <1>4. QED
    BY <1>2, <1>3, AppendProperties, LenProperties

-----------------------------------------------------------------------------
(***************************************************************************)
(* Type correctness.                                                       *)
(***************************************************************************)
LEMMA EndType ==
  ASSUME NEW how \in Outcomes, End(how)
  PROVE  /\ stage' \in Stages /\ call' \in Calls \union {NoCall}
         /\ attempt' \in 0 .. Retries /\ usage' \in Usages \union {NoUsage}
         /\ outcome' \in Outcomes
PROOF
  BY ConstantsType DEF End, Stages

LEMMA TypeStep == TypeOK /\ [Next]_vars => TypeOK'
PROOF
  <1> SUFFICES ASSUME TypeOK, [Next]_vars PROVE TypeOK'
    OBVIOUS
  <1>0. Len(usageLog) \in Nat /\ run \in Nat /\ mark \in Nat
    BY LenProperties DEF TypeOK
  <1> USE DEF Outcomes
  <1>1. CASE PreparationFails
    BY <1>0, <1>1, EndType, ConstantsType DEF PreparationFails, BeginRun, EndUntold, TypeOK
  <1>2. CASE RefuseCall
    BY <1>0, <1>2, EndType, ConstantsType DEF RefuseCall, BeginRun, EndUntold, TypeOK
  <1>3. CASE Dispatch
    BY <1>0, <1>3, ConstantsType DEF Dispatch, BeginRun, TypeOK, Stages
  <1>4. CASE Retry
    BY <1>4, ConstantsType DEF Retry, TypeOK
  <1>5. CASE GiveUp
    BY <1>5, EndType DEF GiveUp, EndUntold, TypeOK
  <1>6. CASE FatalError
    BY <1>6, EndType DEF FatalError, EndUntold, TypeOK
  <1>7. ASSUME NEW u \in Usages, stage = "calling",
               RecordUsage(run, "agent", call.tier, u),
               usage' = u, stage' = "answered",
               UNCHANGED <<run, call, attempt, cycleCost, outcome, told, mark>>
        PROVE  TypeOK'
    <2>1. usageLog' \in Seq(UsageRow) /\ Len(usageLog') = Len(usageLog) + 1
      BY <1>7, WorkType, ConstantsType, LogAppend
    <2>2. QED
      BY <1>0, <1>7, <2>1 DEF TypeOK, Stages
  <1>8. CASE RecorderFails
    BY <1>8, EndType DEF RecorderFails, EndUntold, TypeOK
  <1>9. CASE RaiseOnPrompt
    BY <1>9, EndType DEF RaiseOnPrompt, EndUntold, TypeOK
  <1>10. CASE RaiseOnCost
    BY <1>10, EndType, WorkType DEF RaiseOnCost, EndUntold, TypeOK
  <1>11. CASE Settle
    BY <1>11, WorkType DEF Settle, TypeOK, Stages
  <1>12. CASE Reject \/ Accept \/ JudgeFails
    BY <1>12, EndType, WorkType DEF Reject, Accept, JudgeFails, Return, TypeOK
  <1>13. CASE AskJudge
    BY <1>13 DEF AskJudge, TypeOK, Stages
  <1>14. ASSUME NEW u \in Usages, RecordUsage(run, "judge", JudgeTier, u),
                Return("output"), UNCHANGED <<run, cycleCost, mark>>
         PROVE  TypeOK'
    <2>1. usageLog' \in Seq(UsageRow) /\ Len(usageLog') = Len(usageLog) + 1
      BY <1>14, ConstantsType, LogAppend
    <2>2. QED
      BY <1>0, <1>14, <2>1, EndType, WorkType DEF Return, TypeOK
  <1>15. CASE ResetCycle
    BY <1>0, <1>15 DEF ResetCycle, StartCount, TypeOK
  <1>16. CASE Restart
    BY <1>0, <1>16, EndType DEF Restart, StartCount, TypeOK
  <1>17. CASE UNCHANGED vars
    BY <1>17 DEF vars, TypeOK
  <1>18. QED
    BY <1>1, <1>2, <1>3, <1>4, <1>5, <1>6, <1>7, <1>8, <1>9, <1>10, <1>11, <1>12,
       <1>13, <1>14, <1>15, <1>16, <1>17
       DEF Next, RunStep, Answer, JudgeAnswers

\* Whatever the provider reports, the runner's state and the usage log keep
\* their types: costs and counts never go below zero, attempts never exceed
\* the retries.
THEOREM RunnerTyping == Spec => []TypeOK
PROOF
  <1>1. Init => TypeOK
    BY ConstantsType, EmptySeq
       DEF Init, UsageLogInit, TypeOK, Stages, Outcomes
  <1>2. QED
    BY <1>1, TypeStep, PTL DEF Spec

-----------------------------------------------------------------------------
(***************************************************************************)
(* The tracker and the usage log.                                          *)
(***************************************************************************)
\* The answer that is not settled yet is the last row, and was made after the
\* tracker was at zero.
PendingLogged == (stage = "answered") =>
  /\ Len(usageLog) > mark
  /\ usageLog[Len(usageLog)] =
       [run |-> run, caller |-> "agent", tier |-> call.tier, usage |-> usage]

CountedCosts == [k \in 1 .. Len(usageLog) |-> CountedCost(k)]

LEMMA CountedCostsType ==
  ASSUME TypeOK
  PROVE  Len(usageLog) \in Nat /\ CountedCosts \in [1 .. Len(usageLog) -> Int]
PROOF
  <1>1. Len(usageLog) \in Nat
        /\ \A k \in 1 .. Len(usageLog) : usageLog[k] \in UsageRow
    BY LenProperties, ElementOfSeq DEF TypeOK
  <1>2. \A k \in 1 .. Len(usageLog) : CountedCost(k) \in Int
    BY <1>1, CostType DEF CountedCost, UsageRow
  <1>3. QED
    BY <1>1, <1>2 DEF CountedCosts

LEMMA CountedCostsTypeNext ==
  ASSUME TypeOK'
  PROVE  Len(usageLog') \in Nat /\ CountedCosts' \in [1 .. Len(usageLog') -> Int]
PROOF
  <1>1. Len(usageLog') \in Nat
        /\ \A k \in 1 .. Len(usageLog') : usageLog'[k] \in UsageRow
    BY LenProperties, ElementOfSeq DEF TypeOK
  <1>2. \A k \in 1 .. Len(usageLog') : CountedCost(k)' \in Int
    BY <1>1, CostType DEF CountedCost, UsageRow
  <1>3. QED
    BY <1>1, <1>2 DEF CountedCosts

\* A step that leaves the log alone and settles nothing counts the same rows.
LEMMA SameRowsCounted ==
  ASSUME UNCHANGED <<usageLog, mark>>,
         (stage' = "answered") <=> (stage = "answered")
  PROVE  CountedCosts' = CountedCosts
PROOF
  BY DEF CountedCosts, CountedCost, Counted

\* A row that is pending, or not an agent's own, is not counted.
LEMMA UncountedRow ==
  ASSUME TypeOK, TypeOK', mark' = mark, stage # "answered",
         NEW caller \in {"agent", "judge"}, NEW tier \in Tiers,
         NEW u \in TokenUsage, RecordUsage(run, caller, tier, u),
         (caller = "agent") <=> (stage' = "answered")
  PROVE  Total(CountedCosts') = Total(CountedCosts)
PROOF
  <1> DEFINE n == Len(usageLog)
             f == CountedCosts
             g == CountedCosts'
  <1>1. /\ n \in Nat
        /\ Len(usageLog') = n + 1
        /\ usageLog'[n + 1] =
             [run |-> run, caller |-> caller, tier |-> tier, usage |-> u]
        /\ \A k \in 1 .. n : usageLog'[k] = usageLog[k]
    BY LogAppend
  <1>2. f \in [1 .. n -> Int] /\ g \in [1 .. n + 1 -> Int]
    BY <1>1, CountedCostsType, CountedCostsTypeNext
  <1>3. \A k \in 1 .. n : g[k] = f[k]
    BY <1>1 DEF CountedCosts, CountedCost, Counted
  <1>4. g[n + 1] = 0
    BY <1>1 DEF CountedCosts, CountedCost, Counted
  <1>5. Total(f) \in Int
    BY <1>1, <1>2, TotalType
  <1> HIDE DEF n, f, g
  <1>6. Total(g) = Total(f)
    BY <1>1, <1>2, <1>3, <1>4, <1>5, TotalAppend
  <1>7. QED
    BY <1>6 DEF f, g

\* Settling the pending answer adds its cost, unless its prompt was too long.
LEMMA SettledRow ==
  ASSUME TypeOK, TypeOK', PendingLogged, UNCHANGED <<usageLog, mark>>,
         stage = "answered", stage' # "answered"
  PROVE  Total(CountedCosts') =
           Total(CountedCosts) + (IF LongPrompt THEN 0 ELSE Cost)
PROOF
  <1> DEFINE n == Len(usageLog) - 1
             f == CountedCosts
             g == CountedCosts'
  <1>1. /\ Len(usageLog) \in Nat /\ mark \in Nat /\ Len(usageLog) > mark
        /\ usageLog[Len(usageLog)] =
             [run |-> run, caller |-> "agent", tier |-> call.tier, usage |-> usage]
    BY LenProperties DEF PendingLogged, TypeOK
  <1>2. n \in Nat /\ Len(usageLog) = n + 1
    BY <1>1
  <1>3. f \in [1 .. n + 1 -> Int] /\ g \in [1 .. n + 1 -> Int]
    BY <1>1, <1>2, CountedCostsType, CountedCostsTypeNext
  <1>4. ASSUME NEW k \in 1 .. n PROVE g[k] = f[k]
    <2>1. k \in 1 .. Len(usageLog) /\ k # Len(usageLog)
      BY <1>1
    <2>2. Counted(k)' <=> Counted(k)
      BY <2>1 DEF Counted
    <2>3. CountedCost(k)' = CountedCost(k)
      BY <2>2 DEF CountedCost
    <2>4. QED
      BY <2>1, <2>3 DEF CountedCosts
  <1>5. f[n + 1] = 0
    BY <1>2 DEF CountedCosts, CountedCost, Counted
  <1>6. PromptCap \in Nat /\ usage.prompt \in Nat /\ Cost \in Nat
    BY ConstantsType, WorkType DEF TokenUsage
  <1>7. g[n + 1] = IF LongPrompt THEN 0 ELSE Cost
    BY <1>1, <1>2, <1>6 DEF CountedCosts, CountedCost, Counted, LongPrompt, Cost
  <1>8. Total(f) \in Int
    BY <1>2, <1>3, TotalType
  <1> HIDE DEF n, f, g
  <1>9. Total(g) = Total(f) - f[n + 1] + g[n + 1]
    BY <1>2, <1>3, <1>4, TotalLast
  <1>10. QED
    BY <1>5, <1>6, <1>7, <1>8, <1>9 DEF f, g

CountInv == TrackerMatchesLog /\ PendingLogged

\* Whatever ends a run without settling its answer leaves the count alone.
LEMMA CountUntouched ==
  ASSUME CountInv, UNCHANGED <<usageLog, cycleCost, mark>>,
         stage # "answered", stage' # "answered"
  PROVE  CountInv'
PROOF
  <1>1. CountedCosts' = CountedCosts
    BY SameRowsCounted
  <1>2. TrackerMatchesLog'
    BY <1>1 DEF CountInv, TrackerMatchesLog, CountedCosts
  <1>3. QED
    BY <1>2 DEF CountInv, PendingLogged

LEMMA CountAppended ==
  ASSUME CountInv, TypeOK, TypeOK', UNCHANGED <<cycleCost, mark>>,
         stage # "answered", NEW caller \in {"agent", "judge"}, NEW tier \in Tiers,
         NEW u \in TokenUsage, RecordUsage(run, caller, tier, u),
         (caller = "agent") <=> (stage' = "answered")
  PROVE  TrackerMatchesLog'
PROOF
  <1>1. Total(CountedCosts') = Total(CountedCosts)
    BY UncountedRow
  <1>2. QED
    BY <1>1 DEF CountInv, TrackerMatchesLog, CountedCosts

LEMMA CountSettled ==
  ASSUME CountInv, TypeOK, TypeOK', UNCHANGED <<usageLog, mark>>,
         stage = "answered", stage' # "answered",
         cycleCost' = cycleCost + (IF LongPrompt THEN 0 ELSE Cost)
  PROVE  CountInv'
PROOF
  <1>1. Total(CountedCosts') =
          Total(CountedCosts) + (IF LongPrompt THEN 0 ELSE Cost)
    BY SettledRow DEF CountInv
  <1>2. TrackerMatchesLog'
    BY <1>1 DEF CountInv, TrackerMatchesLog, CountedCosts
  <1>3. QED
    BY <1>2 DEF CountInv, PendingLogged

LEMMA CountStarted ==
  ASSUME TypeOK, StartCount, UNCHANGED usageLog, stage' # "answered"
  PROVE  CountInv'
PROOF
  <1>1. Len(usageLog) \in Nat
    BY LenProperties DEF TypeOK
  <1>2. \A k \in DOMAIN CountedCosts' : CountedCosts'[k] = 0
    BY <1>1 DEF StartCount, CountedCosts, CountedCost, Counted
  <1>3. Total(CountedCosts') = 0
    BY <1>2, TotalZero
  <1>4. QED
    BY <1>3 DEF CountInv, PendingLogged, TrackerMatchesLog, CountedCosts, StartCount

LEMMA CountStep == TypeOK /\ TypeOK' /\ CountInv /\ [Next]_vars => CountInv'
PROOF
  <1> SUFFICES ASSUME TypeOK, TypeOK', CountInv, [Next]_vars PROVE CountInv'
    OBVIOUS
  <1>1. CASE PreparationFails \/ RefuseCall
    BY <1>1, CountUntouched DEF PreparationFails, RefuseCall, BeginRun, EndUntold, End
  <1>2. CASE Dispatch
    BY <1>2, CountUntouched DEF Dispatch, BeginRun
  <1>3. CASE Retry
    BY <1>3, CountUntouched DEF Retry
  <1>4. CASE GiveUp \/ FatalError \/ RecorderFails
    BY <1>4, CountUntouched DEF GiveUp, FatalError, RecorderFails, EndUntold, End
  <1>5. ASSUME NEW u \in Usages, stage = "calling",
               RecordUsage(run, "agent", call.tier, u),
               usage' = u, stage' = "answered",
               UNCHANGED <<run, call, attempt, cycleCost, outcome, told, mark>>
        PROVE  CountInv'
    <2>1. call.tier \in Tiers /\ u \in TokenUsage
      BY WorkType, ConstantsType
    <2>2. TrackerMatchesLog'
      BY <1>5, <2>1, CountAppended
    <2>3. PendingLogged'
      BY <1>5, <2>1, LogAppend DEF PendingLogged, TypeOK
    <2>4. QED
      BY <2>2, <2>3 DEF CountInv
  <1>6. CASE RaiseOnPrompt
    <2>1. cycleCost \in Nat
      BY DEF TypeOK
    <2>2. QED
      BY <1>6, <2>1, CountSettled DEF RaiseOnPrompt, EndUntold, End
  <1>7. CASE RaiseOnCost
    BY <1>7, CountSettled DEF RaiseOnCost, EndUntold, End
  <1>8. CASE Settle
    BY <1>8, CountSettled DEF Settle
  <1>9. CASE Reject \/ Accept \/ JudgeFails
    BY <1>9, CountUntouched DEF Reject, Accept, JudgeFails, Return, End
  <1>10. CASE AskJudge
    BY <1>10, CountUntouched DEF AskJudge
  <1>11. ASSUME NEW u \in Usages, stage = "judging", RecordUsage(run, "judge", JudgeTier, u),
                Return("output"), UNCHANGED <<run, cycleCost, mark>>
         PROVE  CountInv'
    <2>1. stage' = "idle"
      BY <1>11 DEF Return, End
    <2>2. TrackerMatchesLog'
      BY <1>11, <2>1, ConstantsType, CountAppended
    <2>3. QED
      BY <2>1, <2>2 DEF CountInv, PendingLogged
  <1>12. CASE ResetCycle
    BY <1>12, CountStarted DEF ResetCycle
  <1>13. CASE Restart
    BY <1>13, CountStarted DEF Restart, End
  <1>14. CASE UNCHANGED vars
    <2>1. CountedCosts' = CountedCosts
      BY <1>14, SameRowsCounted DEF vars
    <2>2. QED
      BY <1>14, <2>1
         DEF vars, CountInv, TrackerMatchesLog, PendingLogged, CountedCosts
  <1>15. QED
    BY <1>1, <1>2, <1>3, <1>4, <1>5, <1>6, <1>7, <1>8, <1>9, <1>10, <1>11, <1>12,
       <1>13, <1>14
       DEF Next, RunStep, Answer, JudgeAnswers

\* After any sequence of runs, rejected, raised or died, the budget tracker is
\* the sum of the logged answers it should count: none is forgotten or counted
\* twice.
THEOREM TrackerAlwaysMatches == Spec => []TrackerMatchesLog
PROOF
  <1>1. Init => CountInv
    <2> SUFFICES ASSUME Init PROVE CountInv
      OBVIOUS
    <2>1. DOMAIN CountedCosts = {}
      BY DEF Init, UsageLogInit, CountedCosts
    <2>2. Total(CountedCosts) = 0
      BY <2>1, TotalEmpty
    <2>3. QED
      BY <2>2 DEF Init, CountInv, TrackerMatchesLog, CountedCosts, PendingLogged
  <1>2. CountInv => TrackerMatchesLog
    BY DEF CountInv
  <1>3. QED
    BY <1>1, <1>2, RunnerTyping, CountStep, PTL DEF Spec

-----------------------------------------------------------------------------
(***************************************************************************)
(* One answer per run.                                                     *)
(***************************************************************************)
\* What the log knows of the current run: nothing before it is answered, and
\* nothing of a judge before it ended.
RunLogged == \A k \in DOMAIN usageLog :
  /\ usageLog[k].run <= run
  /\ usageLog[k].run = run =>
       /\ stage # "calling"
       /\ (usageLog[k].caller = "judge") => (stage = "idle")

AnswerInv == OneAnswerPerRun /\ RunLogged

\* A step that logs nothing, and does not send a logged run back to its call.
LEMMA AnswersUntouched ==
  ASSUME TypeOK, AnswerInv, usageLog' = usageLog,
         \/ run' = run /\ (stage' = stage \/ stage' = "idle")
         \/ run' = run /\ stage \notin {"idle", "calling"} /\ stage' # "calling"
         \/ run' = run + 1
  PROVE  AnswerInv'
PROOF
  <1>1. \A k \in DOMAIN usageLog : usageLog[k].run \in Nat
    <2>1. \A k \in DOMAIN usageLog : usageLog[k] \in UsageRow
      BY ElementOfSeq, LenProperties DEF TypeOK
    <2>2. QED
      BY <2>1 DEF UsageRow
  <1>2. run \in Nat
    BY ConstantsType DEF TypeOK
  <1>3. OneAnswerPerRun'
    BY DEF AnswerInv, OneAnswerPerRun
  <1>4. RunLogged'
    <2> SUFFICES ASSUME NEW k \in DOMAIN usageLog
                 PROVE  /\ usageLog[k].run <= run'
                        /\ usageLog[k].run = run' =>
                             /\ stage' # "calling"
                             /\ (usageLog[k].caller = "judge") => (stage' = "idle")
      BY DEF RunLogged
    <2>1. /\ usageLog[k].run <= run
          /\ usageLog[k].run = run =>
               /\ stage # "calling"
               /\ (usageLog[k].caller = "judge") => (stage = "idle")
      BY DEF AnswerInv, RunLogged
    <2>2. QED
      BY <1>1, <1>2, <2>1
  <1>5. QED
    BY <1>3, <1>4 DEF AnswerInv

\* The first row of the current run and of this caller.
LEMMA AnswerAppended ==
  ASSUME TypeOK, AnswerInv, run' = run,
         NEW caller \in {"agent", "judge"}, NEW tier \in Tiers,
         NEW u \in TokenUsage, RecordUsage(run, caller, tier, u),
         \/ caller = "agent" /\ stage = "calling" /\ stage' = "answered"
         \/ caller = "judge" /\ stage = "judging" /\ stage' = "idle"
  PROVE  AnswerInv'
PROOF
  <1> DEFINE n == Len(usageLog)
  <1>1. /\ n \in Nat
        /\ DOMAIN usageLog = 1 .. n
        /\ usageLog' \in Seq(UsageRow)
        /\ Len(usageLog') = n + 1
        /\ usageLog'[n + 1] =
             [run |-> run, caller |-> caller, tier |-> tier, usage |-> u]
        /\ \A k \in 1 .. n : usageLog'[k] = usageLog[k]
    BY LogAppend, LenProperties DEF TypeOK
  <1>2. DOMAIN usageLog' = 1 .. n + 1
    BY <1>1, LenProperties
  <1>3. run \in Nat
    BY ConstantsType DEF TypeOK
  <1>4. \A k \in 1 .. n :
          ~(usageLog[k].run = run /\ usageLog[k].caller = caller)
    BY <1>1 DEF AnswerInv, RunLogged
  <1> HIDE DEF n
  <1>5. OneAnswerPerRun'
    <2> SUFFICES ASSUME NEW j \in 1 .. n + 1, NEW k \in 1 .. n + 1,
                        usageLog'[j].run = usageLog'[k].run,
                        usageLog'[j].caller = usageLog'[k].caller
                 PROVE  j = k
      BY <1>2 DEF OneAnswerPerRun
    <2>1. CASE j \in 1 .. n /\ k \in 1 .. n
      BY <1>1, <2>1 DEF AnswerInv, OneAnswerPerRun
    <2>2. CASE j = n + 1 /\ k \in 1 .. n
      BY <1>1, <1>4, <2>2
    <2>3. CASE j \in 1 .. n /\ k = n + 1
      BY <1>1, <1>4, <2>3
    <2>4. CASE j = n + 1 /\ k = n + 1
      BY <2>4
    <2>5. \A m \in 1 .. n + 1 : m \in 1 .. n \/ m = n + 1
      BY <1>1
    <2>6. QED
      BY <2>1, <2>2, <2>3, <2>4, <2>5
  <1>6. RunLogged'
    <2> SUFFICES ASSUME NEW k \in 1 .. n + 1
                 PROVE  /\ usageLog'[k].run <= run
                        /\ usageLog'[k].run = run =>
                             /\ stage' # "calling"
                             /\ (usageLog'[k].caller = "judge") => (stage' = "idle")
      BY <1>2 DEF RunLogged
    <2>1. CASE k \in 1 .. n
      BY <1>1, <2>1 DEF AnswerInv, RunLogged
    <2>2. CASE k = n + 1
      BY <1>1, <1>3, <2>2
    <2>3. k \in 1 .. n \/ k = n + 1
      BY <1>1
    <2>4. QED
      BY <2>1, <2>2, <2>3
  <1>7. QED
    BY <1>5, <1>6 DEF AnswerInv

LEMMA AnswerStep == TypeOK /\ AnswerInv /\ [Next]_vars => AnswerInv'
PROOF
  <1> SUFFICES ASSUME TypeOK, AnswerInv, [Next]_vars PROVE AnswerInv'
    OBVIOUS
  <1>1. CASE PreparationFails \/ RefuseCall
    BY <1>1, AnswersUntouched DEF PreparationFails, RefuseCall, BeginRun
  <1>2. CASE Dispatch
    BY <1>2, AnswersUntouched DEF Dispatch, BeginRun
  <1>3. CASE Retry
    BY <1>3, AnswersUntouched DEF Retry
  <1>4. CASE GiveUp \/ FatalError \/ RecorderFails
    BY <1>4, AnswersUntouched DEF GiveUp, FatalError, RecorderFails, EndUntold, End
  <1>5. CASE Answer
    BY <1>5, WorkType, ConstantsType, AnswerAppended DEF Answer
  <1>6. CASE RaiseOnPrompt \/ RaiseOnCost
    BY <1>6, AnswersUntouched DEF RaiseOnPrompt, RaiseOnCost, EndUntold, End
  <1>7. CASE Settle \/ AskJudge
    BY <1>7, AnswersUntouched DEF Settle, AskJudge
  <1>8. CASE Reject \/ Accept \/ JudgeFails
    BY <1>8, AnswersUntouched DEF Reject, Accept, JudgeFails, Return, End
  <1>9. CASE JudgeAnswers
    BY <1>9, ConstantsType, AnswerAppended DEF JudgeAnswers, Return, End
  <1>10. CASE ResetCycle
    BY <1>10, AnswersUntouched DEF ResetCycle
  <1>11. CASE Restart
    BY <1>11, AnswersUntouched DEF Restart, End
  <1>12. CASE UNCHANGED vars
    BY <1>12, AnswersUntouched DEF vars
  <1>13. QED
    BY <1>1, <1>2, <1>3, <1>4, <1>5, <1>6, <1>7, <1>8, <1>9, <1>10, <1>11, <1>12
       DEF Next, RunStep

\* A run never pays for a second answer, nor for a second judge, however its
\* attempts fail and whatever the evaluation gate thinks of the answer.
THEOREM OneAnswerAlways == Spec => []OneAnswerPerRun
PROOF
  <1>1. Init => AnswerInv
    BY DEF Init, UsageLogInit, AnswerInv, OneAnswerPerRun, RunLogged
  <1>2. AnswerInv => OneAnswerPerRun
    BY DEF AnswerInv
  <1>3. QED
    BY <1>1, <1>2, RunnerTyping, AnswerStep, PTL DEF Spec

-----------------------------------------------------------------------------
(***************************************************************************)
(* The runner implements what it promises its caller, but for the promise  *)
(* that a run ends, which needs fairness and is left to the model checker. *)
(***************************************************************************)
\* What was settled is within the cap, and is still part of the count.
SettledWithinCap == (stage \in {"settled", "judging"}) => ~OverCap(cycleCost)

LEMMA WithinCapStep == TypeOK /\ SettledWithinCap /\ [Next]_vars => SettledWithinCap'
PROOF
  <1> SUFFICES ASSUME TypeOK, SettledWithinCap, [Next]_vars PROVE SettledWithinCap'
    OBVIOUS
  <1> USE DEF SettledWithinCap
  <1>1. CASE PreparationFails \/ RefuseCall \/ Dispatch
    BY <1>1 DEF PreparationFails, RefuseCall, Dispatch, EndUntold, End
  <1>2. CASE Retry \/ GiveUp \/ FatalError \/ Answer \/ RecorderFails
    BY <1>2 DEF Retry, GiveUp, FatalError, Answer, RecorderFails, EndUntold, End
  <1>3. CASE RaiseOnPrompt \/ RaiseOnCost
    BY <1>3 DEF RaiseOnPrompt, RaiseOnCost, EndUntold, End
  <1>4. CASE Settle
    BY <1>4 DEF Settle, OverCap
  <1>5. CASE Reject \/ Accept \/ JudgeAnswers \/ JudgeFails
    BY <1>5 DEF Reject, Accept, JudgeAnswers, JudgeFails, Return, End
  <1>6. CASE AskJudge
    BY <1>6 DEF AskJudge, OverCap
  <1>7. CASE ResetCycle \/ Restart
    BY <1>7 DEF ResetCycle, Restart, End
  <1>8. CASE UNCHANGED vars
    BY <1>8 DEF vars, OverCap
  <1>9. QED
    BY <1>1, <1>2, <1>3, <1>4, <1>5, <1>6, <1>7, <1>8 DEF Next, RunStep

CallCosts == {EstimateCost(tier, u) : tier \in Tiers, u \in Usages \union {NoUsage}}

LEMMA CostIsCallCost == TypeOK => Cost \in CallCosts
PROOF
  BY WorkType DEF TypeOK, Cost, CallCosts

\* How the contract sees the end of a run that returns its result.
LEMMA ReturnSucceeds ==
  ASSUME TypeOK, SettledWithinCap, stage \in {"settled", "judging"},
         NEW how \in {"output", "rejected"}, Return(how), UNCHANGED cycleCost
  PROVE  Promise!Succeed
PROOF
  <1>1. Cost \in Nat /\ Cost \in CallCosts /\ cycleCost \in Nat
    BY WorkType, CostIsCallCost DEF TypeOK
  <1>2. stage' = "idle" /\ outcome' = how /\ told' = told + Cost
    BY DEF Return, End
  <1>3. cycleCost' = (cycleCost - Cost) + Cost /\ ~OverCap(cycleCost')
    BY <1>1 DEF SettledWithinCap
  <1>4. QED
    BY <1>1, <1>2, <1>3 DEF Promise!Succeed, CallCosts

LEMMA PromiseStep ==
  TypeOK /\ SettledWithinCap /\ [Next]_vars => [Promise!Next]_Promise!call
PROOF
  <1> SUFFICES ASSUME TypeOK, SettledWithinCap, [Next]_vars
               PROVE  [Promise!Next]_Promise!call
    OBVIOUS
  <1>0. Cost \in Nat /\ Cost \in CallCosts /\ cycleCost \in Nat
    BY WorkType, CostIsCallCost DEF TypeOK
  <1>1. CASE PreparationFails \/ RefuseCall
    BY <1>1 DEF PreparationFails, RefuseCall, BeginRun, EndUntold, End,
                Promise!Next, Promise!Fail
  <1>2. CASE Dispatch
    BY <1>2 DEF Dispatch, BeginRun, Promise!Next, Promise!Begin
  <1>3. CASE Retry \/ Answer \/ AskJudge
    BY <1>3 DEF Retry, Answer, AskJudge, Cost, Promise!call
  <1>4. CASE GiveUp \/ FatalError \/ RecorderFails \/ RaiseOnPrompt
    BY <1>4 DEF GiveUp, FatalError, RecorderFails, RaiseOnPrompt, EndUntold, End,
                Promise!Next, Promise!Fail
  <1>5. CASE RaiseOnCost
    <2>1. stage' = "idle" /\ outcome' = "raised" /\ told' = told
      BY <1>5 DEF RaiseOnCost, EndUntold, End
    <2>2. stage = "answered" /\ cycleCost' = cycleCost + Cost /\ OverCap(cycleCost')
      BY <1>5 DEF RaiseOnCost
    <2>3. QED
      BY <1>0, <2>1, <2>2 DEF Promise!Next, Promise!Breach, CallCosts
  <1>6. CASE Settle
    <2>1. Cost' = Cost
      BY <1>6 DEF Settle, Cost
    <2>2. QED
      BY <1>0, <1>6, <2>1 DEF Settle, Promise!call
  <1>7. CASE Reject \/ Accept \/ JudgeAnswers \/ JudgeFails
    BY <1>7, ReturnSucceeds
       DEF Reject, Accept, JudgeAnswers, JudgeFails, Promise!Next
  <1>8. CASE ResetCycle \/ Restart
    BY <1>8 DEF ResetCycle, Restart, StartCount, End, Promise!Next, Promise!Restart
  <1>9. CASE UNCHANGED vars
    BY <1>9 DEF vars, Cost, Promise!call
  <1>10. QED
    BY <1>1, <1>2, <1>3, <1>4, <1>5, <1>6, <1>7, <1>8, <1>9 DEF Next, RunStep

\* To the loop that calls it a run is one step: what it cost is told with its
\* result while the count is within the cap, or breaks the cap and is raised,
\* or it was nothing.
THEOREM RunnerKeepsPromise == Spec => Promise!Safety
PROOF
  <1>1. Init => Promise!Init /\ SettledWithinCap
    BY DEF Init, Promise!Init, SettledWithinCap
  <1>2. QED
    BY <1>1, RunnerTyping, WithinCapStep, PromiseStep, PTL DEF Spec, Promise!Safety

-----------------------------------------------------------------------------
(***************************************************************************)
(* A run comes to its end: what is left of it is the attempts of its call  *)
(* and the steps after the answer.                                         *)
(***************************************************************************)
StepsLeft == CASE stage = "calling"  -> 4 + Retries - attempt
               [] stage = "answered" -> 3
               [] stage = "settled"  -> 2
               [] stage = "judging"  -> 1
               [] OTHER              -> 0

\* Every step of a run leaves less to do, whatever the provider, the tracker,
\* the gate and the judge answer, and wherever the process dies: no retry and
\* no flag sends it back, for any number of retries (runner.py, run and
\* _call_with_retry).
THEOREM RunCountsDown ==
  Spec => /\ [](StepsLeft \in Nat)
          /\ [][stage # "idle" => StepsLeft' < StepsLeft]_vars
PROOF
  <1>1. TypeOK => StepsLeft \in Nat
    BY ConstantsType DEF TypeOK, StepsLeft
  <1>2. TypeOK /\ TypeOK' /\ [Next]_vars => [stage # "idle" => StepsLeft' < StepsLeft]_vars
    <2> SUFFICES ASSUME TypeOK, TypeOK', Next, stage # "idle"
                 PROVE  StepsLeft' < StepsLeft
      OBVIOUS
    <2>1. Retries \in Nat /\ attempt \in 0 .. Retries /\ attempt' \in 0 .. Retries
      BY ConstantsType DEF TypeOK
    <2>2. stage \in {"calling", "answered", "settled", "judging"}
      BY DEF TypeOK, Stages
    <2>3. StepsLeft \in Nat /\ StepsLeft > 0
      BY <2>1, <2>2 DEF StepsLeft
    <2>4. CASE stage' = "idle"
      BY <2>3, <2>4 DEF StepsLeft
    <2>5. CASE stage' # "idle"
      <3>1. ~(PreparationFails \/ RefuseCall \/ Dispatch \/ ResetCycle)
        BY DEF PreparationFails, RefuseCall, Dispatch, BeginRun, ResetCycle
      <3>2. Retry \/ Answer \/ Settle \/ AskJudge
        BY <2>5, <3>1 DEF Next, RunStep, Restart, GiveUp, FatalError, RecorderFails,
           RaiseOnPrompt, RaiseOnCost, Reject, Accept, JudgeAnswers, JudgeFails,
           Return, EndUntold, End
      <3>3. CASE Retry
        BY <2>1, <3>3 DEF Retry, StepsLeft
      <3>4. CASE Answer \/ Settle \/ AskJudge
        BY <2>1, <3>4 DEF Answer, Settle, AskJudge, StepsLeft
      <3> QED BY <3>2, <3>3, <3>4
    <2> QED BY <2>4, <2>5
  <1> QED BY <1>1, <1>2, RunnerTyping, PTL DEF Spec
=============================================================================
