----------------------------- MODULE RiskManager -----------------------------
(***************************************************************************)
(* core/risk_manager.py: the single deterministic gate between a signal    *)
(* and an order, and the latching kill switch it owns.                     *)
(*                                                                         *)
(* A cap that the code keeps as a Decimal fraction is a percentage here,   *)
(* so "x > cap * equity" is written "100 * x > cap * equity".              *)
(***************************************************************************)
EXTENDS TradingModels

CONSTANTS
  CorrelationGroups,        \* a set of sets of pairs
  MaxRiskPerTradePct,       \* caps of RiskConfig, in percent of equity
  MaxPortfolioRiskPct,
  MaxExposurePerPairPct,
  MaxCorrelatedExposurePct,
  DailyLossLimitPct,
  MaxDrawdownPct,
  MaxConcurrentPositions

\* The validators of RiskConfig: loss-side caps lie in (0, 1], exposure caps
\* are positive, and at least one position may be open.
ASSUME RiskConfigAssumption ==
  /\ CorrelationGroups \subseteq SUBSET Pairs
  /\ {MaxRiskPerTradePct, MaxPortfolioRiskPct, DailyLossLimitPct,
      MaxDrawdownPct} \subseteq 1 .. 100
  /\ {MaxExposurePerPairPct, MaxCorrelatedExposurePct,
      MaxConcurrentPositions} \subseteq Nat \ {0}

VARIABLE killSwitch   \* Clear, or the tag of what tripped it first

Clear  == "clear"
Causes == {"manual", "drawdown", "daily_loss", "exception"}

KillSwitchTypeOK == killSwitch \in Causes \union {Clear}

\* initial_kill_switch: a manager may be constructed with the switch engaged.
KillSwitchInit == killSwitch \in Causes \union {Clear}

Engaged == killSwitch # Clear

-----------------------------------------------------------------------------
(***************************************************************************)
(* RiskManager.evaluate.                                                   *)
(***************************************************************************)
ExceedsPerTrade(order, account) ==
  100 * RiskAtStop(order) > MaxRiskPerTradePct * account.equity

\* max_trade_risk / stop_distance, in the decimal context's rounding.
CappedSize(order, account) ==
  RoundedQuotient(MaxRiskPerTradePct * account.equity,
                  100 * StopDistance(order))

\* Only reached with a positive stop distance: an earlier gate sees to that.
Sized(order, account) ==
  IF StopDistance(order) > 0 /\ ExceedsPerTrade(order, account)
  THEN [order EXCEPT !.size = CappedSize(order, account)]
  ELSE order

\* Faulty variant: an off-by-one that lets one position too many through.
BookFullLate(account) == Len(account.open) > MaxConcurrentPositions

BookFull(account) == Len(account.open) >= MaxConcurrentPositions

OverCap(amount, pct, account) == 100 * amount > pct * account.equity

\* The gates in the order evaluate runs them; the first that fails decides.
Gates == <<"kill_switch", "stop_distance", "equity", "drawdown", "daily_loss",
           "max_concurrent", "per_trade", "per_pair", "correlated",
           "portfolio">>

Fails(gate, order, account) ==
  LET sized == Sized(order, account)
  IN CASE gate = "kill_switch"   -> Engaged
       [] gate = "stop_distance" -> StopDistance(order) <= 0
       [] gate = "equity"        -> account.equity <= 0
       [] gate = "drawdown" ->
            LossAtLeast(account.peak, account.equity, MaxDrawdownPct)
       [] gate = "daily_loss" ->
            LossAtLeast(account.dayStart, account.equity, DailyLossLimitPct)
       [] gate = "max_concurrent" -> BookFull(account)
       [] gate = "per_trade" -> sized.size <= 0
       [] gate = "per_pair" ->
            OverCap(NotionalIn(account.open, {order.pair}) + Notional(sized),
                    MaxExposurePerPairPct, account)
       [] gate = "correlated" ->
            \E g \in CorrelationGroups :
              /\ order.pair \in g
              /\ OverCap(NotionalIn(account.open, g) + Notional(sized),
                         MaxCorrelatedExposurePct, account)
       [] gate = "portfolio" ->
            OverCap(OpenRisk(account.open) + RiskAtStop(sized),
                    MaxPortfolioRiskPct, account)

Accepts(order, account) ==
  \A i \in DOMAIN Gates : ~Fails(Gates[i], order, account)

\* limiting_rule of a rejection.
LimitingRule(order, account) ==
  Gates[CHOOSE i \in DOMAIN Gates :
          /\ Fails(Gates[i], order, account)
          /\ \A j \in 1 .. i - 1 : ~Fails(Gates[j], order, account)]

\* Faulty variant: the switch is never engaged.
TripForgotten(cause) == killSwitch

\* trip() is idempotent: the first cause is kept until a reset.
Tripped(cause) == IF Engaged THEN killSwitch ELSE cause

\* The kill switch after evaluate: only the two loss gates trip it.
AfterEvaluate(order, account) ==
  LET rule == LimitingRule(order, account)
  IN IF ~Accepts(order, account) /\ rule \in {"drawdown", "daily_loss"}
     THEN Tripped(rule)
     ELSE killSwitch

-----------------------------------------------------------------------------
(***************************************************************************)
(* The operator's commands.  reset() changes nothing, and raises           *)
(* PermissionError, unless the exact token is given.                       *)
(***************************************************************************)
ManualTrip == killSwitch' = Tripped("manual")

ResetToken == "I_UNDERSTAND_RESET"
Reset(confirmation) ==
  killSwitch' = IF confirmation = ResetToken THEN Clear ELSE killSwitch
=============================================================================
