----------------------------- MODULE GuardedBook -----------------------------
(***************************************************************************)
(* What the fast loop and the backtest promise to whoever owns the money,  *)
(* without saying how: a book of at most Limit positions that grows one    *)
(* position at a time, never while trading is halted, and a halt that only *)
(* the operator lifts.                                                     *)
(***************************************************************************)
EXTENDS Integers

CONSTANT Limit

VARIABLES
  halted,    \* is trading halted?
  size       \* number of open positions

book == <<halted, size>>

Init == halted \in BOOLEAN /\ size = 0

\* A position is opened.  Opening may itself go wrong and halt trading.
Open ==
  /\ ~halted
  /\ size < Limit
  /\ size' = size + 1
  /\ halted' \in BOOLEAN

\* Closing reduces risk, so it is allowed at any time: also by the step that
\* halts trading, never by one that lifts a halt.
Close ==
  /\ size > 0
  /\ size' = size - 1
  /\ halted => halted' = TRUE
  /\ halted' \in BOOLEAN

Halt == halted' = TRUE /\ UNCHANGED size

Lift == halted' = FALSE /\ UNCHANGED size

Next == Open \/ Close \/ Halt \/ Lift

Spec == Init /\ [][Next]_book
=============================================================================
