----------------------------- MODULE StrategyLab -----------------------------
(***************************************************************************)
(* core/agents/strategy_lab_agent.py: which proposals of the LLM pass the  *)
(* Tier-1 checks.  A request names the run, the universe, the timeframes   *)
(* and the number of candidates; a rationale either speaks of execution or *)
(* does not.                                                               *)
(***************************************************************************)
EXTENDS Strategy

\* What the LLM writes, as far as the checks look at it: a candidate with its
\* parameters and ranges, and a proposal of several.
ParamRange(low, high) == [low |-> low, high |-> high]

StrategyCandidate(run_id, instrument, timeframe, params, ranges, intent) ==
  [run_id |-> run_id, archetype |-> "ma_crossover", instrument |-> instrument,
   timeframe |-> timeframe, params |-> params, ranges |-> ranges, intent |-> intent]

StrategyProposal(run_id, candidates) == [run_id |-> run_id, candidates |-> candidates]

\* StrategyLabRequest, as prepare_call puts it into the snapshot.
LabRequest(run_id, universe, timeframes, n) ==
  [run_id |-> run_id, universe |-> universe, timeframes |-> timeframes, max |-> n]

RunIdPreserved(p, request) ==
  /\ p.run_id = request.run_id
  /\ \A c \in ToSet(p.candidates) : c.run_id = request.run_id

CandidateCount(p, request) == Len(p.candidates) \in 1..request.max

ArchetypesInRegistry(p) == \A c \in ToSet(p.candidates) : c.archetype \in Registered

PairsInUniverse(p, request) ==
  request.universe # {} => \A c \in ToSet(p.candidates) : c.instrument \in request.universe

TimeframesAllowed(p, request) ==
  request.timeframes # {} => \A c \in ToSet(p.candidates) : c.timeframe \in request.timeframes

ParamsAndRangesSane(p) == \A c \in ToSet(p.candidates) : ValidCandidate(c)

CandidatesConstructible(p) == \A c \in ToSet(p.candidates) : Constructible(c)

NoExecutionIntent(p) == \A c \in ToSet(p.candidates) : ~c.intent

\* All of _TIER1_CHECKS.
ProposalAccepted(p, request) ==
  /\ RunIdPreserved(p, request)
  /\ CandidateCount(p, request)
  /\ ArchetypesInRegistry(p)
  /\ PairsInUniverse(p, request)
  /\ TimeframesAllowed(p, request)
  /\ ParamsAndRangesSane(p)
  /\ CandidatesConstructible(p)
  /\ NoExecutionIntent(p)
=============================================================================
