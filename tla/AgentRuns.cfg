SPECIFICATION FairSpec
CONSTANTS
  Calls <- MCCalls
  Usages <- MCUsages
  PromptCap = 50
  CompletionCap = 8
  CostCap = 300
  NoCap = NoCap
  Retries = 1
  Tier2Mode = "sampled"
  MaxRuns = 3
INVARIANTS TypeOK TrackerMatchesLog OneAnswerPerRun
PROPERTIES ImplementsBudgetedCall
CHECK_DEADLOCK FALSE
