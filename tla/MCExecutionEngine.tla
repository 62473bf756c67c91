-------------------------- MODULE MCExecutionEngine --------------------------
(***************************************************************************)
(* A small market for the fast loop: an account of 20, one pair quoted     *)
(* anywhere between a crash and a rally, orders that must be resized,      *)
(* rejected or approved, and a feed that may fail at every call.           *)
(***************************************************************************)
EXTENDS ExecutionEngine

CONSTANTS eur, gbp

MCPairs  == {eur, gbp}
MCGroups == {{eur, gbp}}

MCOrders ==
  { [pair |-> eur, direction |-> "long",  size |-> 4, entry |-> 5, stop |-> 4],
    [pair |-> eur, direction |-> "long",  size |-> 9, entry |-> 5, stop |-> 4],
    [pair |-> gbp, direction |-> "short", size |-> 2, entry |-> 5, stop |-> 7],
    [pair |-> gbp, direction |-> "short", size |-> 1, entry |-> 5, stop |-> 5] }

MCQuotes ==
  { [bid |-> 1, ask |-> 1], [bid |-> 5, ask |-> 5], [bid |-> 7, ask |-> 8] }
=============================================================================
