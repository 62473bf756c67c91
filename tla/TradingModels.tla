---------------------------- MODULE TradingModels ----------------------------
(***************************************************************************)
(* The value types of core/models.py that the fast loop exchanges.         *)
(* Money, prices and sizes are integers (multiples of one quantum).        *)
(***************************************************************************)
EXTENDS Totals, Sequences

CONSTANTS
  Pairs,    \* tradable pairs
  None      \* Python's None, or the answer of a call that raised

Directions == {"long", "short"}

\* An OrderRequest and a Position have the same fields and validators: every
\* number positive, no relation between entry, stop and direction.
OrderRequest == [pair: Pairs, direction: Directions, size: Nat \ {0},
                 entry: Nat \ {0}, stop: Nat \ {0}]
Position == OrderRequest

\* Quote: positive prices, never inverted.
Quote == {q \in [bid: Nat \ {0}, ask: Nat \ {0}] : q.ask >= q.bid}

\* The fields of the snapshot that the risk gates read.
AccountState == [equity: Int, open: Seq(Position), peak: Nat \ {0},
                 dayStart: Nat \ {0}]

\* Distance to the stop, loss if the stop fills exactly, and exposure at entry.
StopDistance(o) == Abs(o.entry - o.stop)
RiskAtStop(o)   == o.size * StopDistance(o)
Notional(o)     == o.size * o.entry

\* drawdown_pct >= cap and daily_loss_pct >= cap, for a cap in percent: the
\* fraction lost since base, saturated at 1 when equity is not positive.
LossAtLeast(base, equity, pct) ==
  /\ equity < base
  /\ equity <= 0 \/ 100 * (base - equity) >= pct * base

\* Sums over the open positions of a snapshot.
NotionalIn(open, pairs) ==
  Total([i \in DOMAIN open |->
           IF open[i].pair \in pairs THEN Notional(open[i]) ELSE 0])
OpenRisk(open) == Total([i \in DOMAIN open |-> RiskAtStop(open[i])])
=============================================================================
