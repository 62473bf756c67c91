----------------------------- MODULE HttpRequest -----------------------------
(***************************************************************************)
(* The loop around one GET, the same in core/market_data.py                *)
(* (_request_json) and core/context_data.py (_http_get_json): a transport  *)
(* error or a status that may pass is tried again after a pause, up to     *)
(* Retries times; any other error, and a body that is not JSON, is final.  *)
(* The pauses are left out, time passes between any two steps anyway.  The *)
(* raise after the loop is never reached.                                  *)
(***************************************************************************)
EXTENDS NoValue, Naturals

CONSTANTS
  Retries,    \* attempts after the first
  NotJson,    \* a body that cannot be parsed
  Failed      \* the typed error the loop raises

RetryableStatuses == {429, 500, 502, 503, 504}

ASSUME HttpAssumption == Retries \in Nat

VARIABLES
  attempt,   \* number of the current attempt
  reply      \* None while trying, then the parsed body or Failed

httpVars == <<attempt, reply>>

RequestInit == attempt = 0 /\ reply = None

\* The next request starts over.
NewRequest == attempt' = 0 /\ reply' = None

TransportError ==
  /\ reply = None
  /\ IF attempt = Retries
     THEN reply' = Failed /\ UNCHANGED attempt
     ELSE attempt' = attempt + 1 /\ UNCHANGED reply

Answered(status, body) ==
  /\ reply = None
  /\ IF status \in RetryableStatuses /\ attempt < Retries
     THEN attempt' = attempt + 1 /\ UNCHANGED reply
     ELSE /\ reply' = IF status >= 400 \/ body = NotJson THEN Failed ELSE body
          /\ UNCHANGED attempt
=============================================================================
