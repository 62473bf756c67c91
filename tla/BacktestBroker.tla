--------------------------- MODULE BacktestBroker ---------------------------
(***************************************************************************)
(* The BacktestBroker of core/backtest/engine.py: a broker driven by bars. *)
(*                                                                         *)
(* A bar of the engine runs several of its methods in a row, so each       *)
(* method is an operator from a broker to the broker it leaves behind.     *)
(* The open lots are indexed by their trade id, which increases: the list  *)
(* of the code is the lots in the order of their ids.                      *)
(***************************************************************************)
EXTENDS CostModel

CONSTANT StartingBalance

ASSUME StartingBalanceAssumption == StartingBalance \in Nat \ {0}

Bar == [time: Nat, open: Nat \ {0}, close: Nat \ {0}]

Lot == [position: Position, entryCommission: Nat]

NoEntries == [id \in {} |-> 0]

NoCosts == [spread |-> 0, slippage |-> 0, commission |-> 0, swap |-> 0]

NewBroker ==
  [cash     |-> StartingBalance,
   lots     |-> NoEntries,          \* _open_lots, by trade id
   realized |-> 0,                  \* _realized_pnl_today
   peak     |-> StartingBalance,    \* _peak_equity
   dayStart |-> StartingBalance,    \* _day_start_equity
   mid      |-> None,               \* _current_marked_mid of the one pair
   day      |-> None,               \* _current_day
   swaps    |-> NoEntries,          \* _trade_swap_acc, by trade id
   costs    |-> NoCosts]            \* _cost_breakdown

-----------------------------------------------------------------------------
(***************************************************************************)
(* Functions whose domain grows and shrinks, as Python dicts do.           *)
(***************************************************************************)
Plus(f, key, value) ==
  [k \in DOMAIN f \union {key} |-> IF k = key THEN value ELSE f[k]]

Minus(f, keys) == [k \in DOMAIN f \ keys |-> f[k]]

\* The values of f in the order of its keys.
InOrder(f) ==
  LET rank(k) == Cardinality({j \in DOMAIN f : j < k}) + 1
  IN [i \in 1 .. Cardinality(DOMAIN f) |->
        f[CHOOSE k \in DOMAIN f : rank(k) = i]]

-----------------------------------------------------------------------------
(***************************************************************************)
(* Marking and snapshots.                                                  *)
(***************************************************************************)
Marked(lot, mid) ==
  LET p == lot.position
      price == ExitPrice(p.direction, mid)
  IN IF p.direction = "long" THEN (price - p.entry) * p.size
                             ELSE (p.entry - price) * p.size

\* A lot whose pair was never marked counts for nothing.
Unrealized(b) ==
  IF b.mid = None THEN 0
  ELSE Total([id \in DOMAIN b.lots |-> Marked(b.lots[id], b.mid)])

Equity(b) == b.cash + Unrealized(b)

\* Marking a long lot computes a sell price, which may raise.
MarkRaises(b) ==
  /\ b.mid # None
  /\ \E id \in DOMAIN b.lots :
       ExitRaises(b.lots[id].position.direction, b.mid)

\* Faulty variant: the day's starting equity is taken as it is.
RollDayUnfloored(b, bar) ==
  IF BarDay(bar.time) = b.day THEN b
  ELSE [b EXCEPT !.dayStart = Equity(b), !.realized = 0,
                 !.day = BarDay(bar.time)]

\* A new trading day starts from its equity, floored at one quantum.
MaybeRollDay(b, bar) ==
  LET day == BarDay(bar.time)
  IN IF b.day = None THEN [b EXCEPT !.day = day]
     ELSE IF day = b.day THEN b
     ELSE [b EXCEPT !.dayStart = Larger(Equity(b), 1),
                    !.realized = 0,
                    !.day = day]

MarkToMarket(b, bar) ==
  LET marked == [b EXCEPT !.mid = bar.close]
  IN [marked EXCEPT !.peak = Larger(Equity(marked), b.peak)]

Snapshot(b) ==
  [equity |-> Equity(b),
   open |-> InOrder([id \in DOMAIN b.lots |-> b.lots[id].position]),
   peak |-> b.peak, dayStart |-> b.dayStart]

-----------------------------------------------------------------------------
(***************************************************************************)
(* Fills at the next bar's open.                                           *)
(***************************************************************************)
\* Every fill adds its spread, slippage and commission to the breakdown.
CostsOfFill(costs, size) ==
  [costs EXCEPT !.spread     = @ + size * HalfSpread,
                !.slippage   = @ + size * SlippagePerUnit,
                !.commission = @ + CommissionFor(size)]

OpenAtNextOpen(b, order, bar, id) ==
  LET position == [order EXCEPT !.entry = EntryPrice(order.direction, bar.open)]
      commission == CommissionFor(order.size)
  IN [b EXCEPT !.cash  = @ - commission,
               !.costs = CostsOfFill(@, order.size),
               !.lots  = Plus(@, id, [position |-> position,
                                      entryCommission |-> commission]),
               !.swaps = Plus(@, id, 0)]

\* What closing a lot adds to cash, before its commission.
ClosePnl(lot, bar) == Marked(lot, bar.open)
CloseNet(lot, bar) == ClosePnl(lot, bar) - CommissionFor(lot.position.size)

\* close_at_next_open, and consume_swap_for_trade, for each of ids.
CloseLots(b, ids, bar) ==
  LET net == Total([id \in ids |-> CloseNet(b.lots[id], bar)])
      size == Total([id \in ids |-> b.lots[id].position.size])
  IN [b EXCEPT !.cash     = @ + net,
               !.realized = @ + net,
               !.costs    = CostsOfFill(@, size),
               !.lots     = Minus(@, ids),
               !.swaps    = Minus(@, ids)]

CloseRaises(b, ids, bar) ==
  \E id \in ids : ExitRaises(b.lots[id].position.direction, bar.open)

-----------------------------------------------------------------------------
(***************************************************************************)
(* Swap, charged on the lots that are open when it is applied.             *)
(***************************************************************************)
\* Faulty variant: cash pays for the swap, the trades do not hear of it.
ApplySwapToCashOnly(b, current, next) ==
  LET total == Total([id \in DOMAIN b.lots |->
                        SwapCharge(b.lots[id].position, current.time, next.time)])
  IN [b EXCEPT !.cash = @ + total, !.costs.swap = @ + total]

ApplySwapIfRollover(b, current, next) ==
  LET charge(id) ==
        SwapCharge(b.lots[id].position, current.time, next.time)
      total == Total([id \in DOMAIN b.lots |-> charge(id)])
  IN IF DOMAIN b.lots = {} \/ RolloversBetween(current.time, next.time) = {}
     THEN b
     ELSE [b EXCEPT !.cash       = @ + total,
                    !.swaps      = [id \in DOMAIN @ |->
                                      IF id \in DOMAIN b.lots
                                      THEN @[id] + charge(id) ELSE @[id]],
                    !.costs.swap = @ + total]
=============================================================================
