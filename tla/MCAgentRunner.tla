--------------------------- MODULE MCAgentRunner ---------------------------
(***************************************************************************)
(* Three runs of two tiers, in tokens by the dozen instead of thousands,   *)
(* on a budget that the second answer may break.  A call may be refused    *)
(* beforehand; an answer may have too long a prompt.                       *)
(***************************************************************************)
EXTENDS AgentRunner

Call(tier, estimate, maxOutput) ==
  [tier |-> tier, estimate |-> estimate, maxOutput |-> maxOutput]

Used(prompt, cached, completion) ==
  [prompt |-> prompt, cached |-> cached, completion |-> completion]

MCCalls == {Call("default", 40, 2), Call("heavy", 9, 8),
            Call("default", 60, 2), Call("heavy", 9, 9)}

MCUsages == {Used(40, 33, 2), Used(51, 0, 1), Used(10, 12, 8)}
=============================================================================
