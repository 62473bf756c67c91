---------------------------- MODULE BudgetedCall ----------------------------
(***************************************************************************)
(* What the agent runner promises to the loop that calls it: a run is one  *)
(* step that ends, and what it costs is either told with its result, while *)
(* the total is within the cap, or it breaks the cap and is raised.        *)
(***************************************************************************)
EXTENDS Integers

CONSTANTS Costs, OverCap(_)

VARIABLES
  busy,      \* is a run going on?
  spent,     \* what was spent since the count was last set to zero
  told,      \* how much of it the results told
  outcome    \* how the last run ended

call == <<busy, spent, told, outcome>>

Init == busy = FALSE /\ spent = 0 /\ told = 0 /\ outcome = "none"

Begin == ~busy /\ busy' = TRUE /\ outcome' = "none" /\ UNCHANGED <<spent, told>>

Succeed == \E c \in Costs :
  /\ busy
  /\ spent' = spent + c
  /\ ~OverCap(spent')
  /\ told' = told + c
  /\ busy' = FALSE
  /\ outcome' \in {"output", "rejected"}

\* A run that fails before it is answered, or cannot even begin, costs nothing.
Fail ==
  /\ busy' = FALSE
  /\ outcome' \in {"failed", "raised"}
  /\ UNCHANGED <<spent, told>>

Breach == \E c \in Costs :
  /\ busy
  /\ spent' = spent + c
  /\ OverCap(spent')
  /\ busy' = FALSE
  /\ outcome' = "raised"
  /\ UNCHANGED told

\* A new process, or a new cycle, begins with nothing spent.
Restart ==
  /\ busy' = FALSE
  /\ spent' = 0
  /\ told' = 0
  /\ outcome' \in {"none", outcome}

Finish == busy /\ (Succeed \/ Fail \/ Breach)

Next == Begin \/ Succeed \/ Fail \/ Breach \/ Restart

Safety == Init /\ [][Next]_call

Spec == Safety /\ WF_call(Finish)
=============================================================================
