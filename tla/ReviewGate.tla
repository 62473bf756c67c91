----------------------------- MODULE ReviewGate -----------------------------
(***************************************************************************)
(* What the slow loop promises to the human who approves strategies: what  *)
(* lands in the inbox was, since it was last proposed, tested and then     *)
(* survived the critique, it lands there once per cycle, it never leaves,  *)
(* and only the human authorizes it.                                       *)
(***************************************************************************)
EXTENDS Naturals

CONSTANTS Strategies, Cycles, NotSeen

VARIABLES
  status,   \* how far each strategy is since it was last proposed
  inbox     \* pairs of a cycle and a strategy

gate == <<status, inbox>>

Init == status = [s \in Strategies |-> NotSeen] /\ inbox = {}

Move(s, to) == status' = [status EXCEPT ![s] = to]

Propose(s) == Move(s, "proposed") /\ UNCHANGED inbox

\* Two candidates may be the same strategy, which is then tested twice.
Test(s) == status[s] \in {"proposed", "tested"} /\ Move(s, "tested") /\ UNCHANGED inbox

\* A critique may be repeated, and the last one counts.
Judge(s) == \E verdict \in {"killed", "survived"} :
  /\ status[s] \in {"tested", "killed", "survived"}
  /\ Move(s, verdict)
  /\ UNCHANGED inbox

File(s) ==
  /\ status[s] = "survived"
  /\ \E c \in Cycles : <<c, s>> \notin inbox /\ inbox' = inbox \union {<<c, s>>}
  /\ UNCHANGED status

Authorize(s) ==
  /\ status[s] = "survived"
  /\ \E c \in Cycles : <<c, s>> \in inbox
  /\ Move(s, "authorized")
  /\ UNCHANGED inbox

Next == \E s \in Strategies :
          Propose(s) \/ Test(s) \/ Judge(s) \/ File(s) \/ Authorize(s)

Spec == Init /\ [][Next]_gate
=============================================================================
