-------------------------- MODULE CandidateRegistry --------------------------
(***************************************************************************)
(* core/orchestration/registry.py: the persistent champion / challenger    *)
(* registry, one entry per strategy identity.                              *)
(*                                                                         *)
(* Every write loads the file, changes one entry and replaces the file     *)
(* atomically, so a write is one step and survives a crash.                *)
(***************************************************************************)
EXTENDS Naturals, FiniteSets, Sequences

CONSTANTS
  Identities,    \* strategy identities: hashes of what a strategy does
  None

VARIABLE registry

WritableStates == {"proposed", "backtested", "killed", "survived_for_now",
                   "queued_for_approval"}
AuthorizingStates == {"approved", "champion", "live"}

\* Evidence is known by the identity of the strategy it was computed for.
Verdicts == {"kill", "survive_for_now"}

RegistryEntry == [state: WritableStates \union AuthorizingStates, run: Nat \ {0},
                  evidence: Identities \union {None},
                  verdict: Verdicts \union {None}]

RegistryTypeOK == registry \in [Identities -> RegistryEntry \union {None}]

RegistryInit == registry = [i \in Identities |-> None]

StateOf(i) == IF registry[i] = None THEN None ELSE registry[i].state

-----------------------------------------------------------------------------
\* Faulty variant: what an earlier run recorded is kept.
RefreshProposed(i, run) ==
  registry' = [registry EXCEPT ![i] =
    IF @ = None THEN [state |-> "proposed", run |-> run, evidence |-> None, verdict |-> None]
    ELSE [@ EXCEPT !.state = "proposed", !.run = run]]

\* upsert_proposed: a new entry, or an old one made new again, whatever it was.
UpsertProposed(i, run) ==
  registry' = [registry EXCEPT ![i] = [state |-> "proposed", run |-> run,
                                       evidence |-> None, verdict |-> None]]

RecordBacktest(i, evidence) ==
  registry' = [registry EXCEPT ![i].state = "backtested",
                               ![i].evidence = evidence]

RecordCritic(i, verdict, state) ==
  registry' = [registry EXCEPT ![i].verdict = verdict, ![i].state = state]

SetState(i, state) == registry' = [registry EXCEPT ![i].state = state]
=============================================================================
