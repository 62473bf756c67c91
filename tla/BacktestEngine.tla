--------------------------- MODULE BacktestEngine ---------------------------
(***************************************************************************)
(* core/backtest/engine.py: the run over historical bars, through the same *)
(* risk manager as the fast loop.                                          *)
(*                                                                         *)
(* The run is deterministic given its bars and its strategy; what is not   *)
(* known is which bars and what the strategy answers, so the bars are      *)
(* chosen at the start and the strategy returns any list of Proposals or   *)
(* raises.  A bar is processed in as many steps as the strategy has        *)
(* signals: a start, one step per signal, and an end.                      *)
(***************************************************************************)
EXTENDS RiskManager, BacktestBroker, SequencesExt

CONSTANTS
  Pair,         \* the pair of all bars
  Histories,    \* the lists of bars the engine may be given
  Proposals     \* the lists of orders the strategy may return

ASSUME BacktestAssumption ==
  /\ Pair \in Pairs
  /\ \A h \in Histories : /\ h \in Seq(Bar) /\ Len(h) >= 2
                          /\ \A i \in 1 .. Len(h) - 1 : h[i].time <= h[i + 1].time
  /\ Proposals \subseteq Seq(OrderRequest)

VARIABLES
  bars,
  t,            \* index of the current bar
  phase,        \* what the run does next
  broker,
  account,      \* the snapshot the next signal is evaluated against
  signals,      \* the strategy's signals not processed yet
  live,         \* live_trades: trade id to entry time
  trades,       \* closed_trades
  tradeSeq,     \* trade ids handed out
  counts,       \* signals proposed, accepted and rejected
  haltedAt,     \* index of the bar that halted the run, or None
  curve         \* the equity curve

vars == <<killSwitch, bars, t, phase, broker, account, signals, live, trades,
          tradeSeq, counts, haltedAt, curve>>

Phases == {"bar", "signals", "final", "done", "raised"}
Over   == {"done", "raised"}

\* Auxiliary in Init only: the run starts with a new broker and risk manager.
Init ==
  /\ bars \in Histories
  /\ killSwitch = Clear
  /\ t = 1
  /\ phase = "bar"
  /\ broker = NewBroker
  /\ account = None
  /\ signals = << >>
  /\ live = NoEntries
  /\ trades = << >>
  /\ tradeSeq = 0
  /\ counts = [proposed |-> 0, accepted |-> 0, rejected |-> 0]
  /\ haltedAt = None
  /\ curve = << >>

Current == bars[t]
NextBar == bars[t + 1]

Sample(index, b) == [bar |-> index, equity |-> Equity(b),
                     positions |-> Cardinality(DOMAIN b.lots)]

\* An exception that run() does not catch: nothing of the run survives.
Raise ==
  /\ phase' = "raised"
  /\ UNCHANGED <<killSwitch, bars, t, broker, account, signals, live, trades,
                 tradeSeq, counts, haltedAt, curve>>

-----------------------------------------------------------------------------
(***************************************************************************)
(* Closing lots at the next open, with their trade records.                *)
(***************************************************************************)
ClosedTrade(b, id, bar) ==
  LET lot == b.lots[id]
  IN [id |-> id, direction |-> lot.position.direction, closed |-> TRUE,
      entryTime |-> live[id], exitTime |-> bar.time,
      commission |-> lot.entryCommission + CommissionFor(lot.position.size),
      swap |-> b.swaps[id], pnl |-> ClosePnl(lot, bar)]

ClosedTrades(b, ids, bar) ==
  InOrder([id \in ids |-> ClosedTrade(b, id, bar)])

\* Faulty variant: the flattened trades stay among the live ones.
HaltKeepingLiveTrades(b, switch) ==
  /\ phase' = "final"
  /\ haltedAt' = t
  /\ killSwitch' = switch
  /\ broker' = CloseLots(b, DOMAIN b.lots, NextBar)
  /\ trades' = trades \o ClosedTrades(b, DOMAIN b.lots, NextBar)
  /\ UNCHANGED live

\* _flatten_all and leaving the loop, from broker b and with the switch given.
\* Signals not looked at are dropped.
HaltAndFlatten(b, switch) ==
  LET ids == DOMAIN b.lots
  IN /\ phase' = "final"
     /\ haltedAt' = t
     /\ killSwitch' = switch
     /\ broker' = CloseLots(b, ids, NextBar)
     /\ trades' = trades \o ClosedTrades(b, ids, NextBar)
     /\ live' = Minus(live, ids)

-----------------------------------------------------------------------------
(***************************************************************************)
(* The start of a bar.                                                     *)
(***************************************************************************)
\* The broker once the day is rolled and the bar marked.  (The actions below
\* bind it with \E b \in {MarkedBroker}, so that it is computed only once.)
MarkedBroker == MarkToMarket(MaybeRollDay(broker, Current), Current)

\* Faulty variant: the limits are only enforced by the risk gate.
NoDefensiveCheck(acc) == killSwitch

\* The defensive check on the losses of positions held.
AfterDefensiveCheck(acc) ==
  IF LossAtLeast(acc.peak, acc.equity, MaxDrawdownPct) THEN Tripped("drawdown")
  ELSE IF LossAtLeast(acc.dayStart, acc.equity, DailyLossLimitPct)
       THEN Tripped("daily_loss")
       ELSE killSwitch

\* The new mark may raise; the old one, which maybe_roll_day computes again,
\* did not when it was made.
StartBarRaises ==
  /\ phase = "bar"
  /\ MarkRaises(MarkedBroker)
  /\ Raise

StartBar ==
  \E b \in {MarkedBroker} : \E acc \in {Snapshot(b)} :
  LET switch == AfterDefensiveCheck(acc)
  IN /\ phase = "bar"
     /\ ~MarkRaises(b)
     /\ curve' = Append(curve, Sample(t, b))
     /\ account' = acc
     /\ UNCHANGED <<bars, t, tradeSeq>>
     /\ \/ /\ switch # Clear
           /\ ~CloseRaises(b, DOMAIN b.lots, NextBar)
           /\ HaltAndFlatten(b, switch)
           /\ UNCHANGED <<signals, counts>>
        \/ /\ switch = Clear
           /\ \E list \in Proposals :
                /\ signals' = list
                /\ counts' = [counts EXCEPT !.proposed = @ + Len(list)]
           /\ phase' = "signals"
           /\ broker' = b
           /\ UNCHANGED <<killSwitch, live, trades, haltedAt>>

\* decide() raised: the run is flattened and halted, the switch stays clear.
StrategyRaises ==
  \E b \in {MarkedBroker} :
     /\ phase = "bar"
     /\ ~MarkRaises(b)
     /\ AfterDefensiveCheck(Snapshot(b)) = Clear
     /\ ~CloseRaises(b, DOMAIN b.lots, NextBar)
     /\ curve' = Append(curve, Sample(t, b))
     /\ account' = Snapshot(b)
     /\ HaltAndFlatten(b, killSwitch)
     /\ UNCHANGED <<bars, t, signals, tradeSeq, counts>>

\* The flatten of a bar that halts, for the switch or for a strategy that raised,
\* meets a sell price that is not positive.
FlattenRaises ==
  \E b \in {MarkedBroker} :
     /\ phase = "bar"
     /\ ~MarkRaises(b)
     /\ CloseRaises(b, DOMAIN b.lots, NextBar)
     /\ Raise

-----------------------------------------------------------------------------
(***************************************************************************)
(* One signal.                                                             *)
(***************************************************************************)
Signal == Head(signals)

Facing(b, order) ==
  {id \in DOMAIN b.lots : b.lots[id].position.pair = order.pair}
Opposed(b, order) ==
  {id \in Facing(b, order) :
     b.lots[id].position.direction # order.direction}
SameSide(b, order) ==
  {id \in Facing(b, order) :
     b.lots[id].position.direction = order.direction}

\* The rules whose rejection carries RejectionReason.KILL_SWITCH.
HaltingRules == {"kill_switch", "drawdown", "daily_loss"}

Count(field) == counts' = [counts EXCEPT ![field] = @ + 1]

\* Faulty variant: a signal for another pair is looked at again and again.
RetryForeignPair ==
  /\ phase = "signals" /\ signals # << >>
  /\ Signal.pair # Pair
  /\ UNCHANGED vars

RejectForeignPair ==
  /\ phase = "signals" /\ signals # << >>
  /\ Signal.pair # Pair
  /\ Count("rejected")
  /\ signals' = Tail(signals)
  /\ UNCHANGED <<killSwitch, bars, t, phase, broker, account, live, trades,
                 tradeSeq, haltedAt, curve>>

Reject ==
  /\ phase = "signals" /\ signals # << >>
  /\ Signal.pair = Pair
  /\ ~Accepts(Signal, account)
  /\ LimitingRule(Signal, account) \notin HaltingRules
  /\ Count("rejected")
  /\ signals' = Tail(signals)
  /\ UNCHANGED <<killSwitch, bars, t, phase, broker, account, live, trades,
                 tradeSeq, haltedAt, curve>>

\* evaluate() tripped the switch.
RejectAndHalt ==
  /\ phase = "signals" /\ signals # << >>
  /\ Signal.pair = Pair
  /\ ~Accepts(Signal, account)
  /\ LimitingRule(Signal, account) \in HaltingRules
  /\ IF CloseRaises(broker, DOMAIN broker.lots, NextBar)
     THEN Raise
     ELSE /\ HaltAndFlatten(broker, AfterEvaluate(Signal, account))
          /\ Count("rejected")
          /\ signals' = Tail(signals)
          /\ UNCHANGED <<bars, t, account, tradeSeq, curve>>

\* The risk manager accepts the next signal.
Accepted ==
  /\ phase = "signals" /\ signals # << >>
  /\ Signal.pair = Pair
  /\ Accepts(Signal, account)

\* The broker once the lots facing order are closed, and once order is filled.
Closed(order) == CloseLots(broker, Opposed(broker, order), NextBar)
Opened(order) == OpenAtNextOpen(Closed(order), order, NextBar, tradeSeq)

\* Closing what faces it, opening it or marking its lot raises.
FillRaises(order) ==
  \/ CloseRaises(broker, Opposed(broker, order), NextBar)
  \/ /\ SameSide(broker, order) = {}
     /\ \/ EntryRaises(order.direction, NextBar.open)
        \/ MarkRaises(Opened(order))

\* Faulty variant: the account is not read again after an order is filled.
AcceptWithoutResnapshot ==
  /\ Accepted
  /\ \E order \in {Sized(Signal, account)} :
       /\ ~FillRaises(order)
       /\ SameSide(broker, order) = {}
       /\ trades' = trades \o ClosedTrades(broker, Opposed(broker, order), NextBar)
       /\ broker' = Opened(order)
       /\ live' = Plus(Minus(live, Opposed(broker, order)), tradeSeq, NextBar.time)
  /\ tradeSeq' = tradeSeq + 1
  /\ Count("accepted")
  /\ signals' = Tail(signals)
  /\ UNCHANGED <<killSwitch, bars, t, phase, account, haltedAt, curve>>

\* Faulty variant: a lot on the other side stays open.
AcceptWithoutClosing ==
  /\ Accepted
  /\ \E order \in {Sized(Signal, account)} :
     \E opened \in {OpenAtNextOpen(broker, order, NextBar, tradeSeq)} :
       /\ ~FillRaises(order) /\ ~MarkRaises(opened)
       /\ SameSide(broker, order) = {}
       /\ broker' = opened
       /\ account' = Snapshot(opened)
       /\ live' = Plus(live, tradeSeq, NextBar.time)
  /\ tradeSeq' = tradeSeq + 1
  /\ Count("accepted")
  /\ signals' = Tail(signals)
  /\ UNCHANGED <<killSwitch, bars, t, phase, trades, haltedAt, curve>>

\* Accepted: close what faces it, and open unless a lot of its side is open.
Accept ==
  /\ Accepted
  /\ \E order \in {Sized(Signal, account)} :
     \E opposed \in {Opposed(broker, order)} :
     \E closed \in {Closed(order)} :
     LET opened == OpenAtNextOpen(closed, order, NextBar, tradeSeq) IN
       /\ ~FillRaises(order)
       /\ trades' = trades \o ClosedTrades(broker, opposed, NextBar)
       /\ IF SameSide(broker, order) # {}
          THEN /\ broker' = closed
               /\ live' = Minus(live, opposed)
               /\ UNCHANGED <<account, tradeSeq>>
          ELSE /\ broker' = opened
               /\ live' = Plus(Minus(live, opposed), tradeSeq, NextBar.time)
               /\ account' = Snapshot(opened)
               /\ tradeSeq' = tradeSeq + 1
  /\ Count("accepted")
  /\ signals' = Tail(signals)
  /\ UNCHANGED <<killSwitch, bars, t, phase, haltedAt, curve>>

AcceptRaises ==
  /\ Accepted
  /\ FillRaises(Sized(Signal, account))
  /\ Raise

-----------------------------------------------------------------------------
(***************************************************************************)
(* The end of a bar, and of the run.                                       *)
(***************************************************************************)
EndBar ==
  /\ phase = "signals" /\ signals = << >>
  /\ broker' = ApplySwapIfRollover(broker, Current, NextBar)
  /\ t' = t + 1
  /\ phase' = IF t + 1 = Len(bars) THEN "final" ELSE "bar"
  /\ UNCHANGED <<killSwitch, bars, account, signals, live, trades, tradeSeq,
                 counts, haltedAt, curve>>

\* The record of a trade that is still open: its swap is known, its exit not.
OpenTrade(id) ==
  [id |-> id, direction |-> broker.lots[id].position.direction, closed |-> FALSE,
   entryTime |-> live[id], exitTime |-> None,
   commission |-> broker.lots[id].entryCommission,
   swap |-> broker.swaps[id], pnl |-> 0]

LastBroker == MarkToMarket(broker, Current)

\* The exponent that annualises the return: 252 days over the mean hours
\* between two samples, divided by the number of returns.
WholeExponent(samples) ==
  LET n == Len(samples)
      hours == bars[samples[n].bar].time - bars[samples[1].bar].time
      returns == Cardinality({i \in 1 .. n - 1 : samples[i].equity > 0})
  IN IF hours <= 0 THEN 252 % returns = 0
     ELSE (252 * HoursPerDay * (n - 1)) % (hours * returns) = 0

\* compute_metrics raises the growth factor to that exponent.  A negative
\* factor to a fractional power is complex and no Decimal; a factor above one
\* may overflow a float, depending on digits that are not modelled.
MetricsFail(samples)     == samples[Len(samples)].equity < 0 /\ ~WholeExponent(samples)
MetricsOverflow(samples) == samples[Len(samples)].equity > Head(samples).equity

LastSamples == Append(curve, Sample(t, LastBroker))

FinishRaises ==
  /\ phase = "final"
  /\ \/ MarkRaises(LastBroker)
     \/ MetricsFail(LastSamples)
     \/ MetricsOverflow(LastSamples)
  /\ Raise

Finish ==
  /\ phase = "final"
  /\ ~MarkRaises(LastBroker)
  /\ ~MetricsFail(LastSamples)
  /\ broker' = [LastBroker EXCEPT !.swaps = Minus(@, DOMAIN live)]
  /\ curve' = LastSamples
  /\ trades' = trades \o InOrder([id \in DOMAIN live |-> OpenTrade(id)])
  /\ account' = Snapshot(LastBroker)
  /\ phase' = "done"
  /\ UNCHANGED <<killSwitch, bars, t, signals, live, tradeSeq, counts, haltedAt>>

-----------------------------------------------------------------------------
Step ==
  \/ StartBar
  \/ StartBarRaises
  \/ StrategyRaises
  \/ FlattenRaises
  \/ RejectForeignPair
  \/ Reject
  \/ RejectAndHalt
  \/ Accept
  \/ AcceptRaises
  \/ EndBar
  \/ Finish
  \/ FinishRaises

Next == Step

Spec == Init /\ [][Next]_vars

\* run() is a plain call: as long as it can take a step it takes it.
FairSpec == Spec /\ WF_vars(Step)
-----------------------------------------------------------------------------
(***************************************************************************)
(* Properties.                                                             *)
(***************************************************************************)
\* Every variable ranges over what the run can hold, and a sum of signals
\* looked at never exceeds the signals proposed (engine.py, run).
TypeOK ==
  /\ KillSwitchTypeOK
  /\ bars \in Histories /\ t \in 1 .. Len(bars)
  /\ phase \in Phases
  /\ phase \in {"bar", "signals"} => t < Len(bars)
  /\ broker.peak >= StartingBalance /\ broker.dayStart > 0
  /\ \A id \in DOMAIN broker.lots : broker.lots[id].position \in Position
  /\ account = None \/ account \in AccountState
  /\ tradeSeq \in Nat
  /\ counts.accepted + counts.rejected + Len(signals) <= counts.proposed
  /\ haltedAt \in 1 .. Len(bars) - 1 \union {None}

\* Every trade id handed out is either the id of an open lot or of exactly one
\* record of the trade log, and the run's live_trades, the broker's lots and its
\* swap accumulators are kept in step (open_at_next_open, _close_opposite,
\* _flatten_all and the open trades appended at the end of run).  A run that
\* halted holds nothing and reports no trade as still open.
EveryTradeRecorded ==
  LET recorded == {trades[i].id : i \in DOMAIN trades}
      open == IF phase = "done" THEN {} ELSE DOMAIN broker.lots
  IN /\ DOMAIN live = DOMAIN broker.lots
     /\ DOMAIN broker.swaps = open
     /\ Len(trades) = Cardinality(recorded)
     /\ recorded \union open = 0 .. tradeSeq - 1
     /\ recorded \intersect open = {}
     /\ haltedAt # None =>
          DOMAIN broker.lots = {} /\ \A i \in DOMAIN trades : trades[i].closed

\* What a record of the trade log says the trade brought, and what an open lot
\* has brought so far.
Brought(trade)  == trade.pnl + trade.swap - trade.commission
BroughtOpen(id) == broker.swaps[id] - broker.lots[id].entryCommission

StillOpen == IF phase = "done" THEN {} ELSE DOMAIN broker.lots

\* The cash of the account is its starting balance and what the trade log
\* explains, and the cost breakdown is the sum of the costs of the trades: three
\* ledgers written by different methods never drift apart.
Reconciles ==
  /\ broker.cash =
       StartingBalance + Total([i \in DOMAIN trades |-> Brought(trades[i])])
                       + Total([id \in StillOpen |-> BroughtOpen(id)])
  /\ broker.costs.commission =
       Total([i \in DOMAIN trades |-> trades[i].commission])
         + Total([id \in StillOpen |-> broker.lots[id].entryCommission])
  /\ broker.costs.swap =
       Total([i \in DOMAIN trades |-> trades[i].swap])
         + Total([id \in StillOpen |-> broker.swaps[id]])

\* The highs of the account up to a sample; it starts at its balance.
HighsUpTo(i) == {StartingBalance} \union {curve[k].equity : k \in 1 .. i}

\* A sample of the equity curve whose drawdown from any high before it reaches
\* the cap belongs to the last bar that is processed: the run never goes on
\* trading past a breach that only the marking of held positions reveals (the
\* defensive check of run).
BreachEndsRun ==
  \A i, j \in DOMAIN curve :
    /\ i < j
    /\ \E high \in HighsUpTo(i) : LossAtLeast(high, curve[i].equity, MaxDrawdownPct)
    => curve[j].bar = curve[i].bar

WithinLossLimits(b) ==
  /\ ~LossAtLeast(b.peak, Equity(b), MaxDrawdownPct)
  /\ ~LossAtLeast(b.dayStart, Equity(b), DailyLossLimitPct)

\* A lot is only opened when no halt is latched and the account its signal is
\* judged by, which counts every fill of the earlier signals of the bar, is
\* within both loss limits.  The account that opens the lot is within them too,
\* except in a reversal: its closing fill, at the next open, is booked after the
\* judgement and before the lot is opened, and is judged only with the next
\* signal or bar (evaluate, _close_opposite and the new snapshot of run).
OpensWithinLimits ==
  [][tradeSeq' # tradeSeq =>
       LET order == Sized(Signal, account) IN
         /\ ~Engaged
         /\ WithinLossLimits(broker)
         /\ \/ WithinLossLimits(Closed(order))
            \/ Opposed(broker, order) # {}]_vars

\* run() returns or raises, whatever the strategy answers.
Terminates == <>(phase \in Over)

\* The backtest takes at most one position at a time, under the same promise as
\* the fast loop.
Book == INSTANCE GuardedBook
  WITH Limit <- 1, halted <- Engaged, size <- Cardinality(DOMAIN broker.lots)

ImplementsGuardedBook == Book!Spec
=============================================================================
