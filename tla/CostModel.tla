------------------------------ MODULE CostModel ------------------------------
(***************************************************************************)
(* core/backtest/costs.py and the rollover calendar of the backtest        *)
(* broker: what a simulated fill pays, and which nights a position is      *)
(* charged for.                                                            *)
(*                                                                         *)
(* Time is the number of hours since a Monday midnight, UTC.               *)
(***************************************************************************)
EXTENDS TradingModels

CONSTANTS
  HalfSpread,
  SlippagePerUnit,
  CommissionPerUnit,
  SwapLong,             \* per unit and day; negative is a cost
  SwapShort,
  WeekendMultiplier,
  RolloverHour

ASSUME CostModelAssumption ==
  /\ HalfSpread \in Nat
  /\ SlippagePerUnit \in Nat
  /\ CommissionPerUnit \in Nat
  /\ SwapLong \in Int
  /\ SwapShort \in Int
  /\ WeekendMultiplier \in Nat
  /\ RolloverHour \in 0 .. 23

BuyFillPrice(mid)  == mid + HalfSpread + SlippagePerUnit
SellFillPrice(mid) == mid - HalfSpread - SlippagePerUnit

\* sell_fill_price refuses a price that is not positive; a buy never raises.
SellRaises(mid) == SellFillPrice(mid) <= 0

EntryPrice(direction, mid) ==
  IF direction = "long" THEN BuyFillPrice(mid) ELSE SellFillPrice(mid)
ExitPrice(direction, mid) ==
  IF direction = "long" THEN SellFillPrice(mid) ELSE BuyFillPrice(mid)

EntryRaises(direction, mid) == direction = "short" /\ SellRaises(mid)
ExitRaises(direction, mid)  == direction = "long" /\ SellRaises(mid)

CommissionFor(size) == size * CommissionPerUnit

SwapPerDay(direction) == IF direction = "long" THEN SwapLong ELSE SwapShort

-----------------------------------------------------------------------------
(***************************************************************************)
(* The calendar.                                                           *)
(***************************************************************************)
HoursPerDay == 24
Wednesday   == 2

Rollover(day) == HoursPerDay * day + RolloverHour

\* _bar_day: from the rollover hour on, a bar belongs to the next trading day.
BarDay(time) ==
  IF time % HoursPerDay < RolloverHour THEN time \div HoursPerDay
                                       ELSE time \div HoursPerDay + 1

\* The days whose rollover lies in (start, end].
RolloversBetween(start, end) ==
  {day \in start \div HoursPerDay .. end \div HoursPerDay :
     start < Rollover(day) /\ Rollover(day) <= end}

\* Any Wednesday among them makes the multiplier apply to all of them.
WeekendFactor(start, end) ==
  IF \E day \in RolloversBetween(start, end) : day % 7 = Wednesday
  THEN WeekendMultiplier
  ELSE 1

SwapCharge(p, start, end) ==
  p.size * SwapPerDay(p.direction)
    * Cardinality(RolloversBetween(start, end)) * WeekendFactor(start, end)
=============================================================================
