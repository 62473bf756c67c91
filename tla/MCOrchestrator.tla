--------------------------- MODULE MCOrchestrator ---------------------------
(***************************************************************************)
(* Two cycles over two strategies.  The lab proposes nothing, two          *)
(* candidates, one strategy under two ids, or two strategies under one id. *)
(***************************************************************************)
EXTENDS Orchestrator

CONSTANTS a, b, X, Y

MCIds == {a, b}
MCIdentities == {X, Y}

C(id, identity) == [id |-> id, identity |-> identity]

MCProposals == { << >>, <<C(a, X), C(b, Y)>>, <<C(a, X), C(b, X)>>, <<C(a, X), C(a, Y)>> }
=============================================================================
