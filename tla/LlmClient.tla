----------------------------- MODULE LlmClient -----------------------------
(***************************************************************************)
(* core/llm_client.py, core/usage_accounting.py and core/agents/cost.py:   *)
(* how one call of the provider can end, the row it leaves in the usage    *)
(* log, and what it is estimated to cost.                                  *)
(*                                                                         *)
(* A usage recorder is attached.  A row is written only for an answer that *)
(* is handed to the caller; the insert itself may fail.                    *)
(***************************************************************************)
EXTENDS Totals, Sequences

VARIABLE usageLog    \* table llm_calls

\* Cents per million tokens.
InputRate  == [cheap |-> 10, default |-> 250, heavy |-> 500]
OutputRate == [cheap |-> 40, default |-> 1500, heavy |-> 3000]

Tiers == {"cheap", "default", "heavy"}

TokenUsage == [prompt: Nat, cached: Nat, completion: Nat]

\* Cached tokens are charged half the input rate.  In millionths of a dollar.
EstimateCost(tier, u) ==
  RoundedQuotient(  2 * Larger(0, u.prompt - u.cached) * InputRate[tier]
                  + u.cached * InputRate[tier]
                  + 2 * u.completion * OutputRate[tier], 200)

-----------------------------------------------------------------------------
\* What the SDK does instead of answering, as the client tells it apart.
TransientFaults == {"connection", "timeout", "server_error", "throttled"}

FatalFaults == {"insufficient_quota", "api_error", "unexpected_error"}

\* Completions that came back, and are billed, but are of no use.
UnusableAnswers == {"no_choices", "no_message", "refusal", "not_parsed",
                    "not_a_model", "schema_violation"}

LlmTransientErrors == TransientFaults
LlmFatalErrors     == FatalFaults \union UnusableAnswers

\* A call is an agent's own, or that of the judge of its answer.
UsageRow == [run: Nat, caller: {"agent", "judge"}, tier: Tiers, usage: TokenUsage]

UsageLogInit == usageLog = << >>

RecordUsage(run, caller, tier, u) ==
  usageLog' = Append(usageLog, [run |-> run, caller |-> caller, tier |-> tier, usage |-> u])
=============================================================================
