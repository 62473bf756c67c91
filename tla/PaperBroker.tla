----------------------------- MODULE PaperBroker -----------------------------
(***************************************************************************)
(* core/paper_broker.py: an in-process broker with real fills against a    *)
(* quote source it does not control.                                       *)
(*                                                                         *)
(* Every get_quote call is a call to a remote feed that may answer with    *)
(* any quote or raise (None).  An operation takes the answers it gets      *)
(* as parameters: quote for the pair it trades, marks[i] for the i-th open *)
(* position it marks to market.  Two calls need not see the same price.    *)
(***************************************************************************)
EXTENDS TradingModels, SequencesExt

CONSTANTS
  StartingBalance,
  DayStartEquity,
  CommissionPerUnit,
  ExtraHalfSpread

ASSUME PaperBrokerConfigAssumption ==
  /\ StartingBalance \in Nat \ {0}
  /\ DayStartEquity \in Nat \ {0}
  /\ CommissionPerUnit \in Nat
  /\ ExtraHalfSpread \in Nat

VARIABLES
  cash,
  open,             \* _open_positions, in the order they were opened
  realizedToday,    \* _realized_pnl_today
  peak              \* _peak_equity

brokerVars == <<cash, open, realizedToday, peak>>

BrokerTypeOK ==
  /\ cash \in Int
  /\ open \in Seq(Position)
  /\ realizedToday \in Int
  /\ peak \in Nat \ {0}

BrokerInit ==
  /\ cash = StartingBalance
  /\ open = << >>
  /\ realizedToday = 0
  /\ peak = StartingBalance

-----------------------------------------------------------------------------
(***************************************************************************)
(* Marking to market against the close side of the spread.                 *)
(***************************************************************************)
Marked(p, quote) ==
  IF p.direction = "long" THEN (quote.bid - p.entry) * p.size
                          ELSE (p.entry - quote.ask) * p.size

Unrealized(positions, marks) ==
  Total([i \in DOMAIN positions |-> Marked(positions[i], marks[i])])

AllQuoted(marks) == \A i \in DOMAIN marks : marks[i] # None

Equity(marks) == cash + Unrealized(open, marks)

\* Faulty variant: reports the peak as it was before this call bumped it.
SnapshotOldPeak(marks) ==
  [equity |-> Equity(marks), open |-> open,
   peak |-> peak, dayStart |-> DayStartEquity]

Snapshot(marks) ==
  [equity |-> Equity(marks), open |-> open,
   peak |-> Larger(Equity(marks), peak), dayStart |-> DayStartEquity]

\* get_account_state: marks every open position, and records a new peak.
GetAccountState(marks) ==
  /\ AllQuoted(marks)
  /\ peak' = Larger(Equity(marks), peak)
  /\ UNCHANGED <<cash, open, realizedToday>>

GetAccountStateRaises(marks) ==
  /\ ~AllQuoted(marks)
  /\ UNCHANGED brokerVars

-----------------------------------------------------------------------------
(***************************************************************************)
(* place_order.                                                            *)
(***************************************************************************)
FillPrice(direction, quote) ==
  IF direction = "long" THEN quote.ask + ExtraHalfSpread
                        ELSE quote.bid - ExtraHalfSpread

Commission(size) == size * CommissionPerUnit

\* place_order raises before it has changed anything.
PlaceRaises(order, quote) ==
  /\ \/ quote = None
     \/ quote # None /\ FillPrice(order.direction, quote) <= 0
     \/ Commission(order.size) > cash
  /\ UNCHANGED brokerVars

\* The peak after _maybe_bump_peak, which re-marks the whole book; when one of
\* its quotes is missing it raises and leaves the peak as it was.
BumpedPeak(newCash, positions, marks) ==
  IF AllQuoted(marks)
  THEN Larger(newCash + Unrealized(positions, marks), peak)
  ELSE peak

\* Faulty variant: no check on the effective fill price.
PlaceBooksAnyPrice(order, quote, marks) ==
  /\ quote # None
  /\ Commission(order.size) <= cash
  /\ LET filled == [order EXCEPT !.entry = FillPrice(order.direction, quote)]
     IN /\ cash' = cash - Commission(order.size)
        /\ open' = Append(open, filled)
  /\ peak' = BumpedPeak(cash', open', marks)
  /\ UNCHANGED realizedToday

\* The commission and the position are booked first and the book is marked
\* after that, so the call may still raise with the position open.
PlaceBooks(order, quote, marks) ==
  /\ quote # None
  /\ FillPrice(order.direction, quote) > 0
  /\ Commission(order.size) <= cash
  /\ LET filled == [order EXCEPT !.entry = FillPrice(order.direction, quote)]
     IN /\ cash' = cash - Commission(order.size)
        /\ open' = Append(open, filled)
  /\ peak' = BumpedPeak(cash', open', marks)
  /\ UNCHANGED realizedToday

-----------------------------------------------------------------------------
(***************************************************************************)
(* close_position.                                                         *)
(***************************************************************************)
Opposite(direction) == IF direction = "long" THEN "short" ELSE "long"

ClosePnl(p, quote) ==
  LET price == FillPrice(Opposite(p.direction), quote)
  IN IF p.direction = "long" THEN (price - p.entry) * p.size
                             ELSE (p.entry - price) * p.size

\* list.index: the first of several equal positions is the one closed.
FirstOfItsKind(i) == \A j \in 1 .. i - 1 : open[j] # open[i]

CloseRaises(i, quote) ==
  /\ \/ quote = None
     \/ quote # None /\ FillPrice(Opposite(open[i].direction), quote) <= 0
  /\ UNCHANGED brokerVars

\* Faulty variant: the commission is charged but not counted as realized.
CloseBooksGross(i, quote, marks) ==
  /\ FirstOfItsKind(i)
  /\ quote # None
  /\ FillPrice(Opposite(open[i].direction), quote) > 0
  /\ cash' = cash + ClosePnl(open[i], quote) - Commission(open[i].size)
  /\ realizedToday' = realizedToday + ClosePnl(open[i], quote)
  /\ open' = RemoveAt(open, i)
  /\ peak' = BumpedPeak(cash', open', marks)

\* Closes the i-th open position; like place_order it books first and marks
\* the rest of the book afterwards.
CloseBooks(i, quote, marks) ==
  /\ FirstOfItsKind(i)
  /\ quote # None
  /\ FillPrice(Opposite(open[i].direction), quote) > 0
  /\ LET net == ClosePnl(open[i], quote) - Commission(open[i].size)
     IN /\ cash' = cash + net
        /\ realizedToday' = realizedToday + net
  /\ open' = RemoveAt(open, i)
  /\ peak' = BumpedPeak(cash', open', marks)
=============================================================================
