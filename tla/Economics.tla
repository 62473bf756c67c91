------------------------------- MODULE Economics -------------------------------
(***************************************************************************)
(* core/analysis/economics.py: the economic read of a run from what is     *)
(* kept of it, composed with the engine that produces it.  An expectancy   *)
(* is kept as its sum over the trades of the window; fractions are         *)
(* compared by multiplication.  The split into average win and loss, which *)
(* no flag looks at, is left out.                                          *)
(***************************************************************************)
EXTENDS BacktestEngine

CONSTANTS
  CostConcern, CostRetire,         \* <<numerator, denominator>>
  DecayConcern, DecayRetire,
  MinTradeCount,
  InSampleReads                    \* windows the run may be the holdout of

\* Costs that eat the whole gross result are never below the retire threshold.
ASSUME EconomicsAssumption ==
  /\ CostRetire \in Nat \X (Nat \ {0})
  /\ CostRetire[1] <= CostRetire[2]

ClosedPnls == SelectSeq(trades, LAMBDA trade : trade.closed)

\* The evidence kept of a finished run: its metrics only see closed trades.
Evidence ==
  [trade_count |-> Len(ClosedPnls),
   pnl |-> Total([i \in DOMAIN ClosedPnls |-> ClosedPnls[i].pnl]),
   net |-> Last(curve).equity - StartingBalance,
   cost_total |-> broker.costs.spread + broker.costs.slippage
                    + broker.costs.commission + broker.costs.swap]

\* _window_economics.
WindowEconomics(evidence) ==
  [trade_count |-> evidence.trade_count,
   net_pnl |-> evidence.net,
   cost_total |-> evidence.cost_total,
   gross_pnl |-> evidence.net + evidence.cost_total,
   net_expectancy |-> evidence.pnl - evidence.cost_total]  \* times trade_count

AtLeast(part, whole, fraction) == part * fraction[2] >= fraction[1] * whole

\* What the judged window says of the costs.
ExpectancyConcerns(w) ==
  IF w.trade_count > 0 /\ w.net_expectancy <= 0 THEN {"retire"} ELSE {}

\* Faulty variant: without a gross profit the costs are not looked at.
CostsIfProfit(w) ==
  IF w.gross_pnl <= 0 THEN {}
  ELSE IF AtLeast(w.cost_total, w.gross_pnl, CostRetire) THEN {"retire"}
  ELSE IF AtLeast(w.cost_total, w.gross_pnl, CostConcern) THEN {"concern"}
  ELSE {}

CostConcerns(w) ==
  IF w.gross_pnl <= 0 THEN {"retire"}
  ELSE IF AtLeast(w.cost_total, w.gross_pnl, CostRetire) THEN {"retire"}
  ELSE IF AtLeast(w.cost_total, w.gross_pnl, CostConcern) THEN {"concern"}
  ELSE {}

\* _decay: the expectancy of the holdout as a fraction of the in-sample one.
DecayConcerns(is, oos) ==
  LET kept == oos.net_expectancy * is.trade_count
      had == is.net_expectancy * oos.trade_count
  IN  IF is.trade_count = 0 \/ oos.trade_count = 0 \/ is.net_expectancy <= 0 THEN {}
      ELSE IF ~AtLeast(kept, had, DecayRetire) THEN {"retire"}
      ELSE IF ~AtLeast(kept, had, DecayConcern) THEN {"concern"}
      ELSE {}

FewTrades(oos) == IF oos.trade_count < MinTradeCount THEN {"concern"} ELSE {}

\* _flags: of the only window, or of the holdout where there is one.
WindowConcerns(w) == ExpectancyConcerns(w) \union CostConcerns(w)

Worst(concerns) ==
  IF "retire" \in concerns THEN "retire" ELSE IF concerns # {} THEN "concern" ELSE "ok"

FlagAlone(w) == Worst(WindowConcerns(w))

FlagHoldout(is, oos) ==
  Worst(WindowConcerns(oos) \union DecayConcerns(is, oos) \union FewTrades(oos))

-----------------------------------------------------------------------------
ThisRun == WindowEconomics(Evidence)

\* A run that lost money is flagged to retire, as the only window and as the
\* holdout of any other: also when its closed trades won and a trade that is still
\* open, which no trade metric sees, lost it (candidate_economics).
LoserRetired ==
  phase = "done" /\ ThisRun.net_pnl <= 0 =>
    /\ FlagAlone(ThisRun) = "retire"
    /\ \A other \in InSampleReads : FlagHoldout(other, ThisRun) = "retire"

\* economics.py, lines 14-18: the net expectancy is the trade's share of what the
\* account gained.  Stated of a run that closed all its trades: their number times
\* the net expectancy is the net result of the account.
NetExpectancyIsNet ==
  phase = "done" /\ DOMAIN broker.lots = {} /\ ThisRun.trade_count > 0 =>
    ThisRun.net_expectancy = ThisRun.net_pnl
===============================================================================
