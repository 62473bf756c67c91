----------------------- MODULE ExecutionEngine_proofs -----------------------
(***************************************************************************)
(* The safety of the fast loop, for every market, every set of orders,     *)
(* every configuration the validators admit, and any number of             *)
(* submissions.                                                            *)
(***************************************************************************)
EXTENDS ExecutionEngine, Totals_proofs, SequenceTheorems

-----------------------------------------------------------------------------
(***************************************************************************)
(* Lemmas about the operators of the models, the broker and the gate.      *)
(***************************************************************************)
LEMMA CapsType ==
  /\ MaxRiskPerTradePct \in Nat /\ MaxPortfolioRiskPct \in Nat
  /\ DailyLossLimitPct \in Nat /\ MaxDrawdownPct \in Nat
  /\ MaxExposurePerPairPct \in Nat /\ MaxCorrelatedExposurePct \in Nat
  /\ MaxConcurrentPositions \in Nat /\ MaxConcurrentPositions > 0
PROOF
  <1>1. \A c \in {MaxRiskPerTradePct, MaxPortfolioRiskPct, DailyLossLimitPct,
                  MaxDrawdownPct} : c \in 1 .. 100
    BY RiskConfigAssumption
  <1>2. \A c \in {MaxExposurePerPairPct, MaxCorrelatedExposurePct,
                  MaxConcurrentPositions} : c \in Nat \ {0}
    BY RiskConfigAssumption
  <1>3. QED
    BY <1>1, <1>2

LEMMA OrderArithmetic ==
  ASSUME NEW o \in OrderRequest
  PROVE  /\ o.size \in Nat /\ o.size > 0
         /\ o.entry \in Nat /\ o.entry > 0
         /\ o.stop \in Nat /\ o.pair \in Pairs /\ o.direction \in Directions
         /\ StopDistance(o) \in Nat
         /\ RiskAtStop(o) \in Nat
         /\ Notional(o) \in Nat
PROOF
  <1>1. /\ o.size \in Nat /\ o.size > 0
        /\ o.entry \in Nat /\ o.entry > 0
        /\ o.stop \in Nat /\ o.pair \in Pairs /\ o.direction \in Directions
    BY DEF OrderRequest
  <1>2. StopDistance(o) \in Nat
    BY <1>1 DEF StopDistance, Abs
  <1>3. o.size * StopDistance(o) \in Nat
    <2>1. \A a, b \in Nat : a * b \in Nat
      OBVIOUS
    <2>2. QED
      BY <1>1, <1>2, <2>1
  <1>4. o.size * o.entry \in Nat
    BY <1>1
  <1>5. QED
    BY <1>1, <1>2, <1>3, <1>4 DEF RiskAtStop, Notional

\* The sums the portfolio gates compare are integers.
LEMMA BookSumsType ==
  ASSUME NEW book \in Seq(Position), NEW pairs
  PROVE  /\ NotionalIn(book, pairs) \in Int
         /\ OpenRisk(book) \in Int
PROOF
  <1>1. Len(book) \in Nat /\ DOMAIN book = 1 .. Len(book)
    BY LenProperties
  <1>2. \A i \in 1 .. Len(book) :
          RiskAtStop(book[i]) \in Int /\ Notional(book[i]) \in Int
    BY OrderArithmetic DEF Position
  <1>3. [i \in DOMAIN book |-> RiskAtStop(book[i])] \in [1 .. Len(book) -> Int]
    BY <1>1, <1>2
  <1>4. [i \in DOMAIN book |->
           IF book[i].pair \in pairs THEN Notional(book[i]) ELSE 0]
          \in [1 .. Len(book) -> Int]
    BY <1>1, <1>2
  <1>5. QED
    BY <1>1, <1>3, <1>4, TotalType DEF NotionalIn, OpenRisk

LEMMA UnrealizedType ==
  ASSUME NEW book \in Seq(Position), NEW marks \in Marks(Len(book)),
         AllQuoted(marks)
  PROVE  Unrealized(book, marks) \in Int
PROOF
  <1>1. Len(book) \in Nat /\ DOMAIN book = 1 .. Len(book)
    BY LenProperties
  <1>2. \A i \in 1 .. Len(book) : marks[i] \in Quote
    BY <1>1, EngineAssumption DEF Marks, AllQuoted
  <1>3. \A i \in 1 .. Len(book) : Marked(book[i], marks[i]) \in Int
    <2>1. SUFFICES ASSUME NEW p \in Position, NEW q \in Quote
                   PROVE  Marked(p, q) \in Int
      BY <1>1, <1>2
    <2>2. /\ p.size \in Nat /\ p.entry \in Nat
          /\ q.bid \in Nat /\ q.ask \in Nat
      BY DEF Position, OrderRequest, Quote
    <2>3. QED
      BY <2>2, SMTT(30) DEF Marked
  <1>4. [i \in DOMAIN book |-> Marked(book[i], marks[i])]
          \in [1 .. Len(book) -> Int]
    BY <1>1, <1>3
  <1>5. QED
    BY <1>1, <1>4, TotalType DEF Unrealized

LEMMA RemoveAtProperties ==
  ASSUME NEW S, NEW s \in Seq(S), NEW i \in 1 .. Len(s)
  PROVE  /\ RemoveAt(s, i) \in Seq(S)
         /\ Len(RemoveAt(s, i)) = Len(s) - 1
PROOF
  <1>1. Len(s) \in Nat /\ \A k \in 1 .. Len(s) : s[k] \in S
    BY LenProperties
  <1>2. /\ SubSeq(s, 1, i - 1) \in Seq(S)
        /\ Len(SubSeq(s, 1, i - 1)) = i - 1
    BY <1>1, SubSeqProperties
  <1>3. /\ SubSeq(s, i + 1, Len(s)) \in Seq(S)
        /\ Len(SubSeq(s, i + 1, Len(s))) = Len(s) - i
    BY <1>1, SubSeqProperties
  <1>4. QED
    BY <1>1, <1>2, <1>3, ConcatProperties DEF RemoveAt

(***************************************************************************)
(* Gate soundness: what evaluate lets through is never larger than what    *)
(* was asked for and respects every cap, the one that resizes included.    *)
(***************************************************************************)
LEMMA ResizeSound ==
  ASSUME NEW o \in OrderRequest, NEW a \in AccountState,
         a.equity > 0, StopDistance(o) > 0
  PROVE  LET s == Sized(o, a)
         IN /\ s = [o EXCEPT !.size = s.size]
            /\ s.size \in Nat
            /\ s.size <= o.size
            /\ 200 * (s.size * StopDistance(o)) <=
                 2 * (MaxRiskPerTradePct * a.equity)
                   + (IF ExceedsPerTrade(o, a) THEN 100 * StopDistance(o) ELSE 0)
PROOF
  <1> DEFINE D == StopDistance(o)
             E == a.equity
             M == MaxRiskPerTradePct
  <1>1. D \in Nat /\ D > 0 /\ o.size \in Nat
    BY OrderArithmetic
  <1>2. E \in Int /\ E > 0 /\ M \in Nat
    BY CapsType DEF AccountState
  <1>3. /\ o = [o EXCEPT !.size = o.size]
        /\ DOMAIN o = {"pair", "direction", "size", "entry", "stop"}
    BY DEF OrderRequest
  <1>4. CASE ExceedsPerTrade(o, a)
    <2> DEFINE x == M * E
               y == 100 * D
               c == RoundedQuotient(x, y)
    <2>1. 100 * (o.size * D) > x
      BY <1>4 DEF ExceedsPerTrade, RiskAtStop
    <2>2. Sized(o, a) = [o EXCEPT !.size = c]
      BY <1>1, <1>4 DEF Sized, CappedSize
    <2> HIDE DEF D, E, M
    <2>3. x \in Nat
      BY <1>2
    <2>4. y \in Nat /\ y > 0 /\ o.size * y = 100 * (o.size * D)
      BY <1>1
    <2> HIDE DEF x
    <2>5. /\ c \in Nat
          /\ 2 * (c * y) <= 2 * x + y
          /\ c <= o.size
      BY <1>1, <2>1, <2>3, <2>4, RoundedQuotientBounds
    <2> HIDE DEF c
    <2>6. 2 * (c * y) = 200 * (c * D)
      BY <1>1, <2>5
    <2>7. Sized(o, a).size = c
      BY <2>2, <1>3
    <2>8. QED
      BY <1>1, <1>3, <1>4, <2>2, <2>3, <2>5, <2>6, <2>7 DEF D, E, M, x, y
  <1>5. CASE ~ExceedsPerTrade(o, a)
    <2>1. Sized(o, a) = o
      BY <1>5 DEF Sized
    <2>2. ~(100 * RiskAtStop(o) > M * E)
      BY <1>5 DEF ExceedsPerTrade
    <2>3. RiskAtStop(o) \in Nat /\ M * E \in Int
      BY <1>2, OrderArithmetic
    <2>4. QED
      BY <1>1, <1>3, <1>5, <2>1, <2>2, <2>3 DEF RiskAtStop
  <1>6. QED
    BY <1>4, <1>5

\* What the gates promise of the order s that the engine places for o.
WithinGates(o, a, s) ==
  /\ s \in OrderRequest
  /\ s = [o EXCEPT !.size = s.size]
  /\ s.size \in 1 .. o.size
  /\ StopDistance(s) > 0
  /\ ~Engaged
  /\ a.equity > 0
  /\ Len(a.open) < MaxConcurrentPositions
  /\ 200 * RiskAtStop(s) <=
       2 * (MaxRiskPerTradePct * a.equity)
         + (IF ExceedsPerTrade(o, a) THEN 100 * StopDistance(s) ELSE 0)
  /\ 100 * (OpenRisk(a.open) + RiskAtStop(s))
       <= MaxPortfolioRiskPct * a.equity
  /\ 100 * (NotionalIn(a.open, {s.pair}) + Notional(s))
       <= MaxExposurePerPairPct * a.equity
  /\ \A g \in CorrelationGroups : s.pair \in g =>
       100 * (NotionalIn(a.open, g) + Notional(s))
         <= MaxCorrelatedExposurePct * a.equity
  /\ ~LossAtLeast(a.peak, a.equity, MaxDrawdownPct)
  /\ ~LossAtLeast(a.dayStart, a.equity, DailyLossLimitPct)

LEMMA GateSound ==
  ASSUME NEW o \in OrderRequest, NEW a \in AccountState, Accepts(o, a)
  PROVE  WithinGates(o, a, Sized(o, a))
PROOF
  <1> DEFINE s == Sized(o, a)
  <1>1. \A gate \in {"kill_switch", "stop_distance", "equity", "drawdown",
                     "daily_loss", "max_concurrent", "per_trade", "per_pair",
                     "correlated", "portfolio"} : ~Fails(gate, o, a)
    <2>1. \A i \in 1 .. 10 : ~Fails(Gates[i], o, a)
      BY DEF Accepts, Gates
    <2>2. /\ Gates[1] = "kill_switch" /\ Gates[2] = "stop_distance"
          /\ Gates[3] = "equity" /\ Gates[4] = "drawdown"
          /\ Gates[5] = "daily_loss" /\ Gates[6] = "max_concurrent"
          /\ Gates[7] = "per_trade" /\ Gates[8] = "per_pair"
          /\ Gates[9] = "correlated" /\ Gates[10] = "portfolio"
      BY DEF Gates
    <2>3. QED
      BY <2>1, <2>2
  <1>2. /\ ~Engaged
        /\ ~(StopDistance(o) <= 0)
        /\ ~(a.equity <= 0)
        /\ ~LossAtLeast(a.peak, a.equity, MaxDrawdownPct)
        /\ ~LossAtLeast(a.dayStart, a.equity, DailyLossLimitPct)
        /\ ~BookFull(a)
        /\ ~(s.size <= 0)
    BY <1>1 DEF Fails
  <1>3. /\ ~OverCap(NotionalIn(a.open, {o.pair}) + Notional(s),
                    MaxExposurePerPairPct, a)
        /\ \A g \in CorrelationGroups : o.pair \in g =>
             ~OverCap(NotionalIn(a.open, g) + Notional(s),
                      MaxCorrelatedExposurePct, a)
        /\ ~OverCap(OpenRisk(a.open) + RiskAtStop(s), MaxPortfolioRiskPct, a)
    BY <1>1 DEF Fails
  <1>4. /\ a.equity \in Int /\ a.open \in Seq(Position)
        /\ Len(a.open) \in Nat
    BY LenProperties DEF AccountState
  <1>5. StopDistance(o) > 0 /\ a.equity > 0
    BY <1>2, <1>4, OrderArithmetic
  <1>6. /\ s = [o EXCEPT !.size = s.size]
        /\ s.size \in Nat
        /\ s.size <= o.size
        /\ 200 * (s.size * StopDistance(o)) <=
             2 * (MaxRiskPerTradePct * a.equity)
               + (IF ExceedsPerTrade(o, a) THEN 100 * StopDistance(o) ELSE 0)
    BY <1>5, ResizeSound
  <1> HIDE DEF s
  <1>7. s.size > 0
    BY <1>2, <1>6
  <1>8. /\ s \in OrderRequest /\ s.pair = o.pair
        /\ s.entry = o.entry /\ s.stop = o.stop
    BY <1>6, <1>7 DEF OrderRequest
  <1>9. StopDistance(s) = StopDistance(o) /\ RiskAtStop(s) \in Nat
        /\ Notional(s) \in Nat /\ s.size \in 1 .. o.size
    BY <1>6, <1>7, <1>8, OrderArithmetic DEF StopDistance
  <1>10. 200 * RiskAtStop(s) <=
           2 * (MaxRiskPerTradePct * a.equity)
             + (IF ExceedsPerTrade(o, a) THEN 100 * StopDistance(s) ELSE 0)
    BY <1>6, <1>9 DEF RiskAtStop
  <1>11. Len(a.open) < MaxConcurrentPositions
    BY <1>2, <1>4, CapsType DEF BookFull
  <1>12. ASSUME NEW x \in Int, NEW pct \in Nat, ~OverCap(x, pct, a)
         PROVE  100 * x <= pct * a.equity
    <2>1. pct * a.equity \in Int
      BY <1>4
    <2>2. QED
      BY <1>12, <2>1 DEF OverCap
  <1>13. /\ OpenRisk(a.open) + RiskAtStop(s) \in Int
         /\ \A pairs : NotionalIn(a.open, pairs) + Notional(s) \in Int
    BY <1>4, <1>9, BookSumsType
  <1>14. /\ MaxExposurePerPairPct \in Nat /\ MaxCorrelatedExposurePct \in Nat
         /\ MaxPortfolioRiskPct \in Nat
    BY CapsType
  <1>15. /\ 100 * (OpenRisk(a.open) + RiskAtStop(s))
              <= MaxPortfolioRiskPct * a.equity
         /\ 100 * (NotionalIn(a.open, {s.pair}) + Notional(s))
              <= MaxExposurePerPairPct * a.equity
         /\ \A g \in CorrelationGroups : s.pair \in g =>
              100 * (NotionalIn(a.open, g) + Notional(s))
                <= MaxCorrelatedExposurePct * a.equity
    BY <1>3, <1>8, <1>12, <1>13, <1>14
  <1>16. WithinGates(o, a, s)
    BY <1>2, <1>5, <1>6, <1>8, <1>9, <1>10, <1>11, <1>15 DEF WithinGates
  <1>17. QED
    BY <1>16 DEF s

-----------------------------------------------------------------------------
(***************************************************************************)
(* The broker's operations keep its state well typed.                      *)
(***************************************************************************)
LEMMA PeakType ==
  ASSUME NEW e \in Int, NEW p \in Nat \ {0}
  PROVE  Larger(e, p) \in Nat \ {0} /\ Larger(e, p) >= e
PROOF
  BY DEF Larger

LEMMA SnapshotType ==
  ASSUME BrokerTypeOK, NEW marks \in Marks(Len(open)), AllQuoted(marks)
  PROVE  /\ Snapshot(marks) \in AccountState
         /\ Snapshot(marks).peak = Larger(Equity(marks), peak)
         /\ Snapshot(marks).equity <= Larger(Equity(marks), peak)
         /\ Larger(Equity(marks), peak) \in Nat \ {0}
PROOF
  <1>1. Equity(marks) \in Int
    BY UnrealizedType DEF BrokerTypeOK, Equity
  <1>2. /\ Larger(Equity(marks), peak) \in Nat \ {0}
        /\ Larger(Equity(marks), peak) >= Equity(marks)
    BY <1>1, PeakType DEF BrokerTypeOK
  <1>3. QED
    BY <1>1, <1>2, PaperBrokerConfigAssumption
       DEF Snapshot, AccountState, BrokerTypeOK

LEMMA BumpedPeakType ==
  ASSUME peak \in Nat \ {0}, NEW c \in Int, NEW book \in Seq(Position),
         NEW marks \in Marks(Len(book))
  PROVE  BumpedPeak(c, book, marks) \in Nat \ {0}
PROOF
  <1>1. AllQuoted(marks) => c + Unrealized(book, marks) \in Int
    BY UnrealizedType
  <1>2. QED
    BY <1>1, PeakType DEF BumpedPeak

LEMMA FillPriceType ==
  ASSUME NEW d, NEW q \in Quote
  PROVE  FillPrice(d, q) \in Int
PROOF
  BY PaperBrokerConfigAssumption DEF FillPrice, Quote

LEMMA CommissionType ==
  ASSUME NEW n \in Nat
  PROVE  Commission(n) \in Nat
PROOF
  <1>1. \A a, b \in Nat : a * b \in Nat
    OBVIOUS
  <1>2. QED
    BY <1>1, PaperBrokerConfigAssumption DEF Commission

LEMMA PlaceBooksType ==
  ASSUME BrokerTypeOK, NEW o \in OrderRequest, NEW q \in Quotes \union {None},
         NEW marks \in Marks(Len(open) + 1), PlaceBooks(o, q, marks)
  PROVE  BrokerTypeOK' /\ Len(open') = Len(open) + 1
PROOF
  <1> DEFINE filled == [o EXCEPT !.entry = FillPrice(o.direction, q)]
  <1>1. q \in Quote
    BY EngineAssumption DEF PlaceBooks
  <1>2. FillPrice(o.direction, q) \in Nat \ {0}
    BY <1>1, FillPriceType DEF PlaceBooks
  <1>3. filled \in Position
    BY <1>2 DEF OrderRequest, Position
  <1>4. cash' \in Int
    BY OrderArithmetic, CommissionType DEF PlaceBooks, BrokerTypeOK
  <1>5. open' = Append(open, filled)
    BY DEF PlaceBooks
  <1>6. open' \in Seq(Position) /\ Len(open') = Len(open) + 1
    BY <1>3, <1>5, AppendProperties DEF BrokerTypeOK
  <1>7. peak' \in Nat \ {0}
    BY <1>4, <1>6, BumpedPeakType DEF PlaceBooks, BrokerTypeOK
  <1>8. QED
    BY <1>4, <1>6, <1>7 DEF PlaceBooks, BrokerTypeOK

LEMMA CloseBooksType ==
  ASSUME BrokerTypeOK, NEW i \in DOMAIN open, NEW q \in Quotes \union {None},
         NEW marks \in Marks(Len(open) - 1), CloseBooks(i, q, marks)
  PROVE  BrokerTypeOK' /\ Len(open') = Len(open) - 1
PROOF
  <1>1. i \in 1 .. Len(open) /\ open[i] \in Position
    BY LenProperties DEF BrokerTypeOK
  <1>2. q \in Quote
    BY EngineAssumption DEF CloseBooks
  <1>3. ClosePnl(open[i], q) \in Int
    <2>1. FillPrice(Opposite(open[i].direction), q) \in Int
      BY <1>2, FillPriceType
    <2>2. open[i].entry \in Int /\ open[i].size \in Int
      BY <1>1, OrderArithmetic DEF Position
    <2>3. QED
      BY <2>1, <2>2 DEF ClosePnl
  <1>4. Commission(open[i].size) \in Nat
    BY <1>1, OrderArithmetic, CommissionType DEF Position
  <1>5. cash' \in Int /\ realizedToday' \in Int
    BY <1>3, <1>4 DEF CloseBooks, BrokerTypeOK
  <1>6. open' \in Seq(Position) /\ Len(open') = Len(open) - 1
    BY <1>1, RemoveAtProperties DEF CloseBooks, BrokerTypeOK
  <1>7. peak' \in Nat \ {0}
    BY <1>5, <1>6, BumpedPeakType DEF CloseBooks, BrokerTypeOK
  <1>8. QED
    BY <1>5, <1>6, <1>7 DEF BrokerTypeOK

-----------------------------------------------------------------------------
(***************************************************************************)
(* Type correctness.                                                       *)
(***************************************************************************)
LEMMA TrippedType ==
  ASSUME KillSwitchTypeOK, NEW c \in Causes
  PROVE  /\ Tripped(c) \in Causes
         /\ Tripped(c) # Clear
PROOF
  BY DEF Tripped, KillSwitchTypeOK, Engaged, Causes, Clear

LEMMA AfterEvaluateType ==
  ASSUME KillSwitchTypeOK, NEW o, NEW a
  PROVE  AfterEvaluate(o, a) \in Causes \union {Clear}
PROOF
  <1>1. LimitingRule(o, a) \in {"drawdown", "daily_loss"} =>
          LimitingRule(o, a) \in Causes
    BY DEF Causes
  <1>2. QED
    BY <1>1, TrippedType DEF AfterEvaluate, KillSwitchTypeOK

THEOREM Typing == Spec => []TypeOK
PROOF
  <1>1. Init => TypeOK
    <2>1. << >> \in Seq(Position)
      OBVIOUS
    <2>2. QED
      BY <2>1, PaperBrokerConfigAssumption
         DEF Init, TypeOK, KillSwitchInit, KillSwitchTypeOK, BrokerInit,
             BrokerTypeOK, Stages, Results, NoResult, Kinds
  <1>2. TypeOK /\ [Next]_vars => TypeOK'
    <2> SUFFICES ASSUME TypeOK, [Next]_vars
                 PROVE  TypeOK'
      OBVIOUS
    <2> USE DEF TypeOK, KillSwitchTypeOK
    <2>1. /\ Refusal \in Results /\ NoResult \in Results
          /\ \A r \in Results : [r EXCEPT !.placed = TRUE] \in Results
          /\ \A k \in Kinds : [NoResult EXCEPT !.kind = k] \in Results
      BY DEF Results, Refusal, NoResult, Kinds
    <2>2. ASSUME NEW o \in Orders, Submit(o)
          PROVE  TypeOK'
      <3>1. /\ BrokerTypeOK' /\ killSwitch' = killSwitch
            /\ unitsOpened' = unitsOpened /\ phantoms' = phantoms
            /\ submissions' \in Nat
        BY <2>2 DEF Submit, BrokerTypeOK, brokerVars, auxVars
      <3>2. CASE Engaged
        BY <2>1, <2>2, <3>1, <3>2 DEF Submit, Return, Stages
      <3>3. CASE ~Engaged
        BY <2>1, <2>2, <3>1, <3>3, EngineAssumption DEF Submit, Stages
      <3>4. QED
        BY <3>2, <3>3
    <2>3. ASSUME NEW marks \in Marks(Len(open)), ReadAccount(marks)
          PROVE  TypeOK'
      <3>1. AllQuoted(marks)
        BY <2>3 DEF ReadAccount, GetAccountState
      <3>2. Snapshot(marks) \in AccountState /\ peak' \in Nat \ {0}
        BY <2>3, <3>1, SnapshotType DEF ReadAccount, GetAccountState
      <3>3. QED
        BY <2>3, <3>2
           DEF ReadAccount, GetAccountState, BrokerTypeOK, Stages, auxVars
    <2>4. ASSUME NEW marks \in Marks(Len(open)), ReadAccountFails(marks)
          PROVE  TypeOK'
      <3>1. killSwitch' \in Causes
        BY <2>4, TrippedType DEF ReadAccountFails, Causes
      <3>2. QED
        BY <2>1, <2>4, <3>1
           DEF ReadAccountFails, GetAccountStateRaises, Return, BrokerTypeOK,
               brokerVars, Stages, auxVars
    <2>5. ASSUME GateRejects
          PROVE  TypeOK'
      BY <2>1, <2>5, AfterEvaluateType
         DEF GateRejects, Return, BrokerTypeOK, brokerVars, Stages, auxVars
    <2>6. ASSUME GateAccepts
          PROVE  TypeOK'
      <3>1. order \in OrderRequest /\ account \in AccountState
        BY <2>6 DEF GateAccepts
      <3>2. order' \in OrderRequest
        BY <2>6, <3>1, GateSound DEF GateAccepts, WithinGates
      <3>3. result' \in Results
        BY <2>1, <2>6 DEF GateAccepts, Kinds
      <3>4. QED
        BY <2>6, <3>2, <3>3
           DEF GateAccepts, BrokerTypeOK, brokerVars, Stages, auxVars
    <2>7. ASSUME NEW q \in Quotes \union {None},
                 NEW marks \in Marks(Len(open) + 1), PlaceOrder(q, marks)
          PROVE  TypeOK'
      <3>1. order \in OrderRequest /\ order.size \in Nat
        BY <2>7, OrderArithmetic DEF PlaceOrder
      <3>2. BrokerTypeOK'
        BY <2>7, <3>1, PlaceBooksType DEF PlaceOrder
      <3>3. unitsOpened' \in Nat /\ stage' = "idle"
        BY <2>7, <3>1 DEF PlaceOrder, Return
      <3>4. result' \in Results
        <4>1. [result EXCEPT !.placed = TRUE, !.filled = TRUE] \in Results
          BY DEF Results
        <4>2. QED
          BY <2>7, <4>1 DEF PlaceOrder, Return
      <3>5. QED
        BY <2>7, <3>2, <3>3, <3>4 DEF PlaceOrder, Return, Stages
    <2>8. ASSUME NEW q \in Quotes \union {None},
                 NEW marks \in Marks(Len(open) + 1), PlaceOrderFails(q, marks)
          PROVE  TypeOK'
      <3>1. order \in OrderRequest /\ order.size \in Nat
        BY <2>8, OrderArithmetic DEF PlaceOrderFails
      <3>2. BrokerTypeOK' /\ unitsOpened' \in Nat /\ phantoms' \in Nat
        <4>1. CASE PlaceRaises(order, q) /\ UNCHANGED auxVars
          BY <4>1 DEF PlaceRaises, brokerVars, BrokerTypeOK, auxVars
        <4>2. CASE /\ PlaceBooks(order, q, marks)
                   /\ unitsOpened' = unitsOpened + order.size
                   /\ phantoms' = phantoms + 1
          <5>1. BrokerTypeOK'
            BY <3>1, <4>2, PlaceBooksType
          <5>2. unitsOpened' \in Nat /\ phantoms' \in Nat
            BY <3>1, <4>2
          <5>3. QED
            BY <5>1, <5>2
        <4>3. QED
          BY <2>8, <4>1, <4>2 DEF PlaceOrderFails
      <3>3. killSwitch' \in Causes
        BY <2>8, TrippedType DEF PlaceOrderFails, Causes
      <3>4. QED
        BY <2>1, <2>8, <3>2, <3>3 DEF PlaceOrderFails, Return, Stages
    <2>9. ASSUME OperatorTrips
          PROVE  TypeOK'
      <3>1. killSwitch' \in Causes
        BY <2>9, TrippedType DEF OperatorTrips, ManualTrip, Causes
      <3>2. QED
        BY <2>9, <3>1
           DEF OperatorTrips, BrokerTypeOK, brokerVars, engineVars, auxVars
    <2>10. ASSUME NEW c, OperatorResets(c)
           PROVE  TypeOK'
      BY <2>10
         DEF OperatorResets, Reset, BrokerTypeOK, brokerVars, engineVars
    <2>11. ASSUME NEW i \in DOMAIN open, NEW q \in Quotes \union {None},
                  NEW marks \in Marks(Len(open) - 1),
                  ClosePosition(i, q, marks)
           PROVE  TypeOK'
      <3>1. BrokerTypeOK'
        BY <2>11, CloseBooksType
           DEF ClosePosition, CloseRaises, brokerVars, BrokerTypeOK
      <3>2. QED
        BY <2>11, <3>1 DEF ClosePosition, engineVars, auxVars
    <2>12. CASE UNCHANGED vars
      BY <2>12 DEF vars, BrokerTypeOK, brokerVars, engineVars, auxVars
    <2>13. QED
      BY <2>2, <2>3, <2>4, <2>5, <2>6, <2>7, <2>8, <2>9, <2>10, <2>11, <2>12
         DEF Next, EngineStep
  <1>3. QED
    BY <1>1, <1>2, PTL DEF Spec

-----------------------------------------------------------------------------
(***************************************************************************)
(* Safety.  The five invariants are inductive together, over well-typed    *)
(* states: the caps hold when an order is placed because the gate judged   *)
(* the very book it joins (SnapshotFresh), and they are what bounds the    *)
(* book (ConcurrencyCap).                                                  *)
(***************************************************************************)
SafetyInv ==
  /\ SnapshotFresh
  /\ PlacedWithinCaps
  /\ ConcurrencyCap
  /\ LedgerBalanced
  /\ PhantomHalts

LEMMA LedgerAlgebra ==
  ASSUME NEW c \in Nat, NEW u \in Nat, NEW n \in Nat
  PROVE  c * (u + n) = c * u + n * c
PROOF
  OBVIOUS

\* Placing an order keeps the ledger balanced, whether or not it is reported.
LEMMA PlaceKeepsLedger ==
  ASSUME TypeOK, LedgerBalanced, order \in OrderRequest,
         NEW q, NEW marks, PlaceBooks(order, q, marks),
         unitsOpened' = unitsOpened + order.size
  PROVE  LedgerBalanced'
PROOF
  <1>1. /\ cash \in Int /\ realizedToday \in Int /\ unitsOpened \in Nat
        /\ order.size \in Nat
    BY OrderArithmetic DEF TypeOK, BrokerTypeOK
  <1>2. CommissionPerUnit \in Nat /\ StartingBalance \in Nat
    BY PaperBrokerConfigAssumption
  <1>3. /\ cash' = cash - order.size * CommissionPerUnit
        /\ realizedToday' = realizedToday
    BY DEF PlaceBooks, Commission
  <1>4. CommissionPerUnit * unitsOpened' =
          CommissionPerUnit * unitsOpened + order.size * CommissionPerUnit
    BY <1>1, <1>2, LedgerAlgebra
  <1>5. /\ CommissionPerUnit * unitsOpened \in Int
        /\ order.size * CommissionPerUnit \in Int
    <2>1. \A a, b \in Nat : a * b \in Int
      OBVIOUS
    <2>2. QED
      BY <1>1, <1>2, <2>1
  <1>6. cash = StartingBalance + realizedToday - CommissionPerUnit * unitsOpened
    BY DEF LedgerBalanced
  <1>7. cash' = StartingBalance + realizedToday' - CommissionPerUnit * unitsOpened'
    BY <1>1, <1>2, <1>3, <1>4, <1>5, <1>6
  <1>8. QED
    BY <1>7 DEF LedgerBalanced

\* So does closing a position: the net result goes to both accounts.
LEMMA CloseKeepsLedger ==
  ASSUME TypeOK, LedgerBalanced, NEW i \in DOMAIN open,
         NEW q \in Quotes \union {None}, NEW marks, CloseBooks(i, q, marks),
         unitsOpened' = unitsOpened
  PROVE  LedgerBalanced'
PROOF
  <1> DEFINE net == ClosePnl(open[i], q) - Commission(open[i].size)
             opening == CommissionPerUnit * unitsOpened
  <1>1. open[i] \in Position /\ q \in Quote
    BY LenProperties, EngineAssumption DEF TypeOK, BrokerTypeOK, CloseBooks
  <1>2. net \in Int
    <2>1. FillPrice(Opposite(open[i].direction), q) \in Int
      BY <1>1, FillPriceType
    <2>2. open[i].entry \in Int /\ open[i].size \in Nat
      BY <1>1, OrderArithmetic DEF Position
    <2>3. ClosePnl(open[i], q) \in Int
      BY <2>1, <2>2 DEF ClosePnl
    <2>4. QED
      BY <2>2, <2>3, CommissionType
  <1>3. opening \in Int
    <2>1. \A a, b \in Nat : a * b \in Int
      OBVIOUS
    <2>2. QED
      BY <2>1, PaperBrokerConfigAssumption DEF TypeOK
  <1>4. /\ cash' = cash + net
        /\ realizedToday' = realizedToday + net
        /\ CommissionPerUnit * unitsOpened' = opening
    BY DEF CloseBooks
  <1>5. cash = StartingBalance + realizedToday - opening
    BY DEF LedgerBalanced
  <1>6. cash \in Int /\ realizedToday \in Int /\ StartingBalance \in Int
    BY PaperBrokerConfigAssumption DEF TypeOK, BrokerTypeOK
  <1> HIDE DEF net, opening
  <1>7. cash' = StartingBalance + realizedToday' - opening
    BY <1>2, <1>3, <1>4, <1>5, <1>6
  <1>8. QED
    BY <1>4, <1>7 DEF LedgerBalanced

LEMMA SafetyInit == Init => SafetyInv
PROOF
  <1> SUFFICES ASSUME Init
               PROVE  SafetyInv
    OBVIOUS
  <1>1. stage = "idle" /\ open = << >> /\ phantoms = 0
    BY DEF Init, BrokerInit
  <1>2. SnapshotFresh /\ PlacedWithinCaps /\ PhantomHalts
    BY <1>1 DEF SnapshotFresh, PlacedWithinCaps, PhantomHalts
  <1>3. ConcurrencyCap
    BY <1>1, CapsType DEF ConcurrencyCap
  <1>4. LedgerBalanced
    BY PaperBrokerConfigAssumption DEF Init, BrokerInit, LedgerBalanced
  <1>5. QED
    BY <1>2, <1>3, <1>4 DEF SafetyInv

LEMMA SafetyStep == TypeOK /\ SafetyInv /\ [Next]_vars => SafetyInv'
PROOF
  <1> SUFFICES ASSUME TypeOK, SafetyInv, [Next]_vars
               PROVE  SafetyInv'
    OBVIOUS
  <1>1. /\ SnapshotFresh /\ PlacedWithinCaps /\ ConcurrencyCap
        /\ LedgerBalanced /\ PhantomHalts
    BY DEF SafetyInv
  <1>2. ASSUME UNCHANGED <<cash, open, realizedToday, unitsOpened>>
        PROVE  ConcurrencyCap' /\ LedgerBalanced'
    BY <1>1, <1>2 DEF ConcurrencyCap, LedgerBalanced
  <1>3. ASSUME stage' = "idle"
        PROVE  SnapshotFresh' /\ PlacedWithinCaps'
    BY <1>3 DEF SnapshotFresh, PlacedWithinCaps
  <1>4. ASSUME NEW o \in Orders, Submit(o)
        PROVE  SafetyInv'
    <2>1. UNCHANGED <<cash, open, realizedToday, unitsOpened, phantoms, killSwitch>>
      BY <1>4 DEF Submit, brokerVars, auxVars
    <2>2. ConcurrencyCap' /\ LedgerBalanced' /\ PhantomHalts'
      BY <1>1, <1>2, <2>1 DEF PhantomHalts, Engaged
    <2>3. CASE Engaged
      BY <1>3, <1>4, <2>2, <2>3 DEF Submit, Return, SafetyInv
    <2>4. CASE ~Engaged
      <3>1. /\ stage' = "account" /\ order' = o /\ requested' = o
            /\ ~Engaged'
        BY <1>4, <2>1, <2>4 DEF Submit, Engaged
      <3>2. SnapshotFresh' /\ PlacedWithinCaps'
        BY <3>1 DEF SnapshotFresh, PlacedWithinCaps
      <3>3. QED
        BY <2>2, <3>2 DEF SafetyInv
    <2>5. QED
      BY <2>3, <2>4
  <1>5. ASSUME NEW marks \in Marks(Len(open)), ReadAccount(marks)
        PROVE  SafetyInv'
    <2>1. UNCHANGED <<cash, open, realizedToday, unitsOpened, phantoms,
                      killSwitch, order, requested>>
      BY <1>5 DEF ReadAccount, GetAccountState, auxVars
    <2>2. ConcurrencyCap' /\ LedgerBalanced' /\ PhantomHalts'
      BY <1>1, <1>2, <2>1 DEF PhantomHalts, Engaged
    <2>3. /\ stage = "account" /\ stage' = "gate" /\ ~Engaged'
          /\ order' = requested'
      BY <1>1, <1>5, <2>1 DEF ReadAccount, SnapshotFresh, Engaged
    <2>4. /\ account'.open = open' /\ account'.peak = peak'
          /\ account'.dayStart = DayStartEquity /\ account'.equity <= peak'
      <3>1. AllQuoted(marks)
        BY <1>5 DEF ReadAccount, GetAccountState
      <3>2. account' = Snapshot(marks) /\ peak' = Larger(Equity(marks), peak)
        BY <1>5 DEF ReadAccount, GetAccountState
      <3>3. QED
        BY <2>1, <3>1, <3>2, SnapshotType DEF Snapshot, TypeOK
    <2>5. SnapshotFresh' /\ PlacedWithinCaps'
      BY <2>3, <2>4 DEF SnapshotFresh, PlacedWithinCaps
    <2>6. QED
      BY <2>2, <2>5 DEF SafetyInv
  <1>6. ASSUME NEW marks \in Marks(Len(open)), ReadAccountFails(marks)
        PROVE  SafetyInv'
    <2>1. UNCHANGED <<cash, open, realizedToday, unitsOpened>> /\ stage' = "idle"
      BY <1>6 DEF ReadAccountFails, GetAccountStateRaises, brokerVars, auxVars,
                  Return
    <2>2. Engaged'
      BY <1>6, TrippedType
         DEF ReadAccountFails, TypeOK, Causes, Engaged
    <2>3. QED
      BY <1>2, <1>3, <2>1, <2>2 DEF PhantomHalts, SafetyInv
  <1>7. ASSUME GateRejects
        PROVE  SafetyInv'
    <2>1. UNCHANGED <<cash, open, realizedToday, unitsOpened, phantoms>>
          /\ stage' = "idle" /\ stage = "gate"
      BY <1>7 DEF GateRejects, brokerVars, auxVars, Return
    <2>2. ~(phantoms > 0)
      BY <1>1, <2>1 DEF SnapshotFresh, PhantomHalts
    <2>3. QED
      BY <1>2, <1>3, <2>1, <2>2 DEF PhantomHalts, SafetyInv
  <1>8. ASSUME GateAccepts
        PROVE  SafetyInv'
    <2>1. /\ UNCHANGED <<cash, open, realizedToday, unitsOpened, phantoms,
                         killSwitch, peak, account, requested>>
          /\ stage = "gate" /\ stage' = "place"
      BY <1>8 DEF GateAccepts, brokerVars, auxVars
    <2>2. ConcurrencyCap' /\ LedgerBalanced' /\ PhantomHalts'
      BY <1>1, <1>2, <2>1 DEF PhantomHalts, Engaged
    <2>3. SnapshotFresh'
      BY <1>1, <2>1 DEF SnapshotFresh, Engaged
    <2>4. PlacedWithinCaps'
      <3>1. order \in OrderRequest /\ account \in AccountState
        BY <2>1 DEF TypeOK
      <3>2. /\ Accepts(order, account) /\ order' = Sized(order, account)
            /\ result'.kind = "resize" <=> ExceedsPerTrade(order, account)
        BY <1>8 DEF GateAccepts, NoResult
      <3>3. /\ account' = account /\ account.open = open' /\ account.peak = peak'
            /\ account.dayStart = DayStartEquity /\ requested' = order
        BY <1>1, <2>1 DEF SnapshotFresh
      <3> DEFINE s == Sized(order, account)
      <3>4. /\ s = [order EXCEPT !.size = s.size]
            /\ s.size \in 1 .. order.size
            /\ StopDistance(s) > 0
            /\ account.equity > 0
            /\ Len(account.open) < MaxConcurrentPositions
            /\ 200 * RiskAtStop(s) <=
                 2 * (MaxRiskPerTradePct * account.equity)
                   + (IF ExceedsPerTrade(order, account)
                      THEN 100 * StopDistance(s) ELSE 0)
            /\ 100 * (OpenRisk(account.open) + RiskAtStop(s))
                 <= MaxPortfolioRiskPct * account.equity
            /\ 100 * (NotionalIn(account.open, {s.pair}) + Notional(s))
                 <= MaxExposurePerPairPct * account.equity
            /\ \A g \in CorrelationGroups : s.pair \in g =>
                 100 * (NotionalIn(account.open, g) + Notional(s))
                   <= MaxCorrelatedExposurePct * account.equity
            /\ ~LossAtLeast(account.peak, account.equity, MaxDrawdownPct)
            /\ ~LossAtLeast(account.dayStart, account.equity, DailyLossLimitPct)
        <4>1. WithinGates(order, account, s)
          BY <3>1, <3>2, GateSound
        <4> HIDE DEF s
        <4>2. QED
          BY <4>1 DEF WithinGates
      <3> HIDE DEF s
      <3>5. order' = s
        BY <3>2 DEF s
      <3>6. (IF result'.kind = "resize" THEN 100 * StopDistance(order') ELSE 0) =
              (IF ExceedsPerTrade(order, account)
               THEN 100 * StopDistance(s) ELSE 0)
        BY <3>2, <3>5
      <3>7. QED
        BY <3>3, <3>4, <3>5, <3>6 DEF PlacedWithinCaps
    <2>5. QED
      BY <2>2, <2>3, <2>4 DEF SafetyInv
  <1>9. ASSUME NEW q \in Quotes \union {None}, NEW marks \in Marks(Len(open) + 1),
               order \in OrderRequest, stage = "place", PlaceBooks(order, q, marks),
               unitsOpened' = unitsOpened + order.size
        PROVE  ConcurrencyCap' /\ LedgerBalanced'
    <2>1. Len(open') = Len(open) + 1 /\ Len(open) \in Nat
      BY <1>9, PlaceBooksType, LenProperties DEF TypeOK, BrokerTypeOK
    <2>2. Len(open) < MaxConcurrentPositions
      BY <1>1, <1>9 DEF PlacedWithinCaps
    <2>3. ConcurrencyCap'
      BY <2>1, <2>2, CapsType DEF ConcurrencyCap
    <2>4. QED
      BY <1>1, <1>9, <2>3, PlaceKeepsLedger
  <1>10. ASSUME NEW q \in Quotes \union {None},
                NEW marks \in Marks(Len(open) + 1), PlaceOrder(q, marks)
         PROVE  SafetyInv'
    <2>1. /\ stage = "place" /\ stage' = "idle" /\ order \in OrderRequest
          /\ UNCHANGED <<phantoms, killSwitch>>
      BY <1>10 DEF PlaceOrder, Return, TypeOK
    <2>2. ConcurrencyCap' /\ LedgerBalanced'
      BY <1>9, <1>10, <2>1 DEF PlaceOrder
    <2>3. PhantomHalts'
      BY <1>1, <2>1 DEF PhantomHalts, Engaged
    <2>4. QED
      BY <1>3, <2>1, <2>2, <2>3 DEF SafetyInv
  <1>11. ASSUME NEW q \in Quotes \union {None},
                NEW marks \in Marks(Len(open) + 1), PlaceOrderFails(q, marks)
         PROVE  SafetyInv'
    <2>1. stage = "place" /\ stage' = "idle" /\ order \in OrderRequest
      BY <1>11 DEF PlaceOrderFails, Return, TypeOK
    <2>2. Engaged'
      BY <1>11, TrippedType DEF PlaceOrderFails, TypeOK, Causes, Engaged
    <2>3. ConcurrencyCap' /\ LedgerBalanced'
      <3>1. CASE PlaceRaises(order, q) /\ UNCHANGED auxVars
        BY <1>2, <3>1 DEF PlaceRaises, brokerVars, auxVars
      <3>2. CASE /\ PlaceBooks(order, q, marks)
                 /\ unitsOpened' = unitsOpened + order.size
        BY <1>9, <2>1, <3>2
      <3>3. QED
        BY <1>11, <3>1, <3>2 DEF PlaceOrderFails
    <2>4. QED
      BY <1>3, <2>1, <2>2, <2>3 DEF PhantomHalts, SafetyInv
  <1>12. ASSUME OperatorTrips
         PROVE  SafetyInv'
    <2>1. /\ UNCHANGED <<cash, open, realizedToday, unitsOpened, phantoms>>
          /\ stage' = "idle"
      BY <1>12 DEF OperatorTrips, brokerVars, engineVars, auxVars
    <2>2. Engaged'
      BY <1>12, TrippedType
         DEF OperatorTrips, ManualTrip, TypeOK, Causes, Engaged
    <2>3. QED
      BY <1>2, <1>3, <2>1, <2>2 DEF PhantomHalts, SafetyInv
  <1>13. ASSUME NEW c, OperatorResets(c)
         PROVE  SafetyInv'
    <2>1. /\ UNCHANGED <<cash, open, realizedToday, unitsOpened>>
          /\ stage' = "idle"
      BY <1>13 DEF OperatorResets, brokerVars, engineVars
    <2>2. PhantomHalts'
      BY <1>1, <1>13 DEF OperatorResets, Reset, PhantomHalts, Engaged
    <2>3. QED
      BY <1>2, <1>3, <2>1, <2>2 DEF SafetyInv
  <1>14. ASSUME NEW i \in DOMAIN open, NEW q \in Quotes \union {None},
                NEW marks \in Marks(Len(open) - 1), ClosePosition(i, q, marks)
         PROVE  SafetyInv'
    <2>1. /\ stage' = "idle"
          /\ UNCHANGED <<phantoms, killSwitch, unitsOpened>>
      BY <1>14 DEF ClosePosition, engineVars, auxVars
    <2>2. PhantomHalts'
      BY <1>1, <2>1 DEF PhantomHalts, Engaged
    <2>3. CASE CloseBooks(i, q, marks)
      <3>1. Len(open') = Len(open) - 1 /\ Len(open) \in Nat
        BY <2>3, CloseBooksType, LenProperties DEF TypeOK, BrokerTypeOK
      <3>2. ConcurrencyCap'
        BY <1>1, <3>1, CapsType DEF ConcurrencyCap
      <3>3. LedgerBalanced'
        BY <1>1, <2>1, <2>3, CloseKeepsLedger
      <3>4. QED
        BY <1>3, <2>1, <2>2, <3>2, <3>3 DEF SafetyInv
    <2>4. CASE CloseRaises(i, q)
      BY <1>2, <1>3, <2>1, <2>2, <2>4 DEF CloseRaises, brokerVars, SafetyInv
    <2>5. QED
      BY <1>14, <2>3, <2>4 DEF ClosePosition
  <1>15. CASE UNCHANGED vars
    BY <1>1, <1>15
       DEF vars, brokerVars, engineVars, auxVars, SafetyInv, SnapshotFresh,
           PlacedWithinCaps, ConcurrencyCap, LedgerBalanced, PhantomHalts,
           Engaged
  <1>16. QED
    BY <1>4, <1>5, <1>6, <1>7, <1>8, <1>10, <1>11, <1>12, <1>13, <1>14, <1>15
       DEF Next, EngineStep

\* The inductive invariant, and with it each invariant it is made of.
THEOREM Safety == Spec => []SafetyInv
PROOF
  BY Typing, SafetyInit, SafetyStep, PTL DEF Spec

\* From the snapshot to the order, submit() decides on the book and the switch it
\* acts on.
THEOREM SnapshotAlwaysFresh == Spec => []SnapshotFresh
PROOF
  <1>1. SafetyInv => SnapshotFresh
    BY DEF SafetyInv
  <1>2. QED
    BY <1>1, Safety, PTL

\* Every order about to be sent respects every cap of RiskConfig, jointly with
\* the positions the broker really holds.
THEOREM CapsRespected == Spec => []PlacedWithinCaps
PROOF
  <1>1. SafetyInv => PlacedWithinCaps
    BY DEF SafetyInv
  <1>2. QED
    BY <1>1, Safety, PTL

\* The broker never holds more positions than allowed.
THEOREM BookBounded == Spec => []ConcurrencyCap
PROOF
  <1>1. SafetyInv => ConcurrencyCap
    BY DEF SafetyInv
  <1>2. QED
    BY <1>1, Safety, PTL

\* Cash and the realized result never drift apart, on any failure path.
THEOREM LedgerAlwaysBalanced == Spec => []LedgerBalanced
PROOF
  <1>1. SafetyInv => LedgerBalanced
    BY DEF SafetyInv
  <1>2. QED
    BY <1>1, Safety, PTL

\* A position booked without a fill keeps trading halted.
THEOREM PhantomAlwaysHalts == Spec => []PhantomHalts
PROOF
  <1>1. SafetyInv => PhantomHalts
    BY DEF SafetyInv
  <1>2. QED
    BY <1>1, Safety, PTL

-----------------------------------------------------------------------------
(***************************************************************************)
(* What a step may not do.                                                 *)
(***************************************************************************)
\* The first cause on record is never replaced by a later one.
THEOREM FirstCauseAlwaysKept == Spec => FirstCauseKept
PROOF
  <1>1. [Next]_vars => [Engaged => killSwitch' \in {killSwitch, Clear}]_vars
    <2> SUFFICES ASSUME Next, Engaged
                 PROVE  killSwitch' \in {killSwitch, Clear}
      OBVIOUS
    <2>1. \A c : Tripped(c) = killSwitch
      BY DEF Tripped
    <2>2. \A o, a : AfterEvaluate(o, a) = killSwitch
      BY <2>1 DEF AfterEvaluate
    <2>3. CASE \E o \in Orders : Submit(o)
      BY <2>3 DEF Submit
    <2>4. CASE EngineStep
      BY <2>1, <2>2, <2>4
         DEF EngineStep, ReadAccount, ReadAccountFails, GateRejects,
             GateAccepts, PlaceOrder, PlaceOrderFails
    <2>5. CASE OperatorTrips
      BY <2>1, <2>5 DEF OperatorTrips, ManualTrip
    <2>6. CASE \E c \in {ResetToken, "other"} : OperatorResets(c)
      BY <2>6 DEF OperatorResets, Reset
    <2>7. CASE \E i \in DOMAIN open, q \in Quotes \union {None},
                  marks \in Marks(Len(open) - 1) : ClosePosition(i, q, marks)
      BY <2>7 DEF ClosePosition
    <2>8. QED
      BY <2>3, <2>4, <2>5, <2>6, <2>7 DEF Next
  <1>2. QED
    BY <1>1, PTL DEF Spec, FirstCauseKept

\* Nothing is opened while the switch is engaged, and a submission is refused
\* without touching the broker.
THEOREM HaltAlwaysFreezes == Spec => HaltFreezesExposure
PROOF
  <1>1. TypeOK /\ SafetyInv /\ [Next]_vars
          => [Engaged => /\ Len(open') <= Len(open)
                         /\ submissions' # submissions =>
                              UNCHANGED brokerVars /\ result' = Refusal]_vars
    <2> SUFFICES ASSUME TypeOK, SafetyInv, Next, Engaged
                 PROVE  /\ Len(open') <= Len(open)
                        /\ submissions' # submissions =>
                             UNCHANGED brokerVars /\ result' = Refusal
      OBVIOUS
    <2>1. stage = "idle"
      BY DEF SafetyInv, SnapshotFresh
    <2>2. Len(open) \in Nat
      BY LenProperties DEF TypeOK, BrokerTypeOK
    <2>3. CASE \E o \in Orders : Submit(o)
      BY <2>2, <2>3 DEF Submit, Return, brokerVars
    <2>4. CASE EngineStep
      BY <2>1, <2>4
         DEF EngineStep, ReadAccount, ReadAccountFails, GateRejects,
             GateAccepts, PlaceOrder, PlaceOrderFails
    <2>5. CASE OperatorTrips
      BY <2>2, <2>5 DEF OperatorTrips, brokerVars, engineVars
    <2>6. CASE \E c \in {ResetToken, "other"} : OperatorResets(c)
      BY <2>2, <2>6 DEF OperatorResets, brokerVars, engineVars
    <2>7. ASSUME NEW i \in DOMAIN open, NEW q \in Quotes \union {None},
                 NEW marks \in Marks(Len(open) - 1), ClosePosition(i, q, marks)
          PROVE  Len(open') <= Len(open) /\ submissions' = submissions
      <3>1. Len(open') <= Len(open)
        BY <2>2, <2>7, CloseBooksType
           DEF ClosePosition, CloseRaises, brokerVars, TypeOK
      <3>2. QED
        BY <2>7, <3>1 DEF ClosePosition, engineVars
    <2>8. QED
      BY <2>3, <2>4, <2>5, <2>6, <2>7 DEF Next
  <1>2. QED
    BY <1>1, Typing, Safety, PTL DEF Spec, HaltFreezesExposure

-----------------------------------------------------------------------------
(***************************************************************************)
(* Refinement: the fast loop implements the guarded book.                  *)
(***************************************************************************)
LEMMA BookOpens ==
  ASSUME TypeOK, SafetyInv, stage = "place", order \in OrderRequest,
         NEW q \in Quotes \union {None}, NEW marks \in Marks(Len(open) + 1),
         PlaceBooks(order, q, marks)
  PROVE  Book!Open
PROOF
  <1>1. ~Engaged /\ Len(open) < MaxConcurrentPositions
    BY DEF SafetyInv, SnapshotFresh, PlacedWithinCaps
  <1>2. Len(open') = Len(open) + 1
    BY PlaceBooksType DEF TypeOK
  <1>3. Engaged' \in BOOLEAN
    BY DEF Engaged
  <1>4. QED
    BY <1>1, <1>2, <1>3 DEF Book!Open

THEOREM Implementation == Spec => ImplementsGuardedBook
PROOF
  <1>1. Init => Book!Init
    BY DEF Init, KillSwitchInit, BrokerInit, Engaged, Book!Init
  <1>2. TypeOK /\ SafetyInv /\ [Next]_vars => [Book!Next]_Book!book
    <2> SUFFICES ASSUME TypeOK, SafetyInv, [Next]_vars
                 PROVE  [Book!Next]_Book!book
      OBVIOUS
    <2>1. ASSUME open' = open
          PROVE  [Book!Next]_Book!book
      <3>1. CASE Engaged'
        BY <2>1, <3>1 DEF Book!Next, Book!Halt, Engaged
      <3>2. CASE ~Engaged'
        BY <2>1, <3>2 DEF Book!Next, Book!Lift, Engaged
      <3>3. QED
        BY <3>1, <3>2
    <2>2. CASE \E o \in Orders : Submit(o)
      BY <2>1, <2>2 DEF Submit, brokerVars
    <2>3. ASSUME NEW marks \in Marks(Len(open)),
                 ReadAccount(marks) \/ ReadAccountFails(marks)
          PROVE  [Book!Next]_Book!book
      BY <2>1, <2>3 DEF ReadAccount, GetAccountState, ReadAccountFails,
                        GetAccountStateRaises, brokerVars
    <2>4. CASE GateRejects \/ GateAccepts
      BY <2>1, <2>4 DEF GateRejects, GateAccepts, brokerVars
    <2>5. ASSUME NEW q \in Quotes \union {None},
                 NEW marks \in Marks(Len(open) + 1),
                 PlaceOrder(q, marks) \/ PlaceOrderFails(q, marks)
          PROVE  [Book!Next]_Book!book
      <3>1. stage = "place" /\ order \in OrderRequest
        BY <2>5 DEF PlaceOrder, PlaceOrderFails, TypeOK
      <3>2. CASE PlaceBooks(order, q, marks)
        BY <3>1, <3>2, BookOpens DEF Book!Next
      <3>3. CASE PlaceRaises(order, q)
        BY <2>1, <3>3 DEF PlaceRaises, brokerVars
      <3>4. QED
        BY <2>5, <3>2, <3>3 DEF PlaceOrder, PlaceOrderFails
    <2>6. CASE OperatorTrips
      BY <2>1, <2>6 DEF OperatorTrips, brokerVars
    <2>7. CASE \E c \in {ResetToken, "other"} : OperatorResets(c)
      BY <2>1, <2>7 DEF OperatorResets, brokerVars
    <2>8. ASSUME NEW i \in DOMAIN open, NEW q \in Quotes \union {None},
                 NEW marks \in Marks(Len(open) - 1), ClosePosition(i, q, marks)
          PROVE  [Book!Next]_Book!book
      <3>1. CASE CloseBooks(i, q, marks)
        <4>1. Len(open) \in Nat /\ Len(open) > 0
          BY LenProperties DEF TypeOK, BrokerTypeOK
        <4>2. Len(open') = Len(open) - 1
          BY <3>1, CloseBooksType DEF TypeOK
        <4>3. Engaged' = Engaged
          BY <2>8 DEF ClosePosition, Engaged
        <4>4. Book!Close
          BY <4>1, <4>2, <4>3 DEF Book!Close, Engaged
        <4>5. QED
          BY <4>4 DEF Book!Next
      <3>2. CASE CloseRaises(i, q)
        BY <2>1, <3>2 DEF CloseRaises, brokerVars
      <3>3. QED
        BY <2>8, <3>1, <3>2 DEF ClosePosition
    <2>9. CASE UNCHANGED vars
      BY <2>1, <2>9 DEF vars, brokerVars
    <2>10. QED
      BY <2>2, <2>3, <2>4, <2>5, <2>6, <2>7, <2>8, <2>9 DEF Next, EngineStep
  <1>3. QED
    BY <1>1, <1>2, Typing, Safety, PTL DEF Spec, ImplementsGuardedBook, Book!Spec

-----------------------------------------------------------------------------
(***************************************************************************)
(* A submission comes to its end: what is left of it is the number of      *)
(* calls submit() has still to make.                                       *)
(***************************************************************************)
CallsLeft == CASE stage = "account" -> 3
               [] stage = "gate"    -> 2
               [] stage = "place"   -> 1
               [] OTHER             -> 0

\* Once submit() has begun every step, whether a call returns or raises, is one
\* of its own and leaves less to do: it returns after three at the most, and no
\* failure, resize or refusal sends it back (SubmissionReturns without its
\* scheduling; execution.py, submit).
THEOREM SubmissionCountsDown ==
  Spec => /\ [](CallsLeft \in 0 .. 3)
          /\ [][stage # "idle" => CallsLeft' < CallsLeft]_vars
PROOF
  <1>1. CallsLeft \in 0 .. 3
    BY DEF CallsLeft
  <1>2. [Next]_vars => [stage # "idle" => CallsLeft' < CallsLeft]_vars
    <2> SUFFICES ASSUME Next, stage # "idle"
                 PROVE  CallsLeft' < CallsLeft
      OBVIOUS
    <2>1. EngineStep
      BY DEF Next, Submit, OperatorTrips, OperatorResets, ClosePosition
    <2>2. CASE \E marks \in Marks(Len(open)) : ReadAccount(marks) \/ ReadAccountFails(marks)
      BY <2>2 DEF ReadAccount, ReadAccountFails, Return, CallsLeft
    <2>3. CASE GateRejects \/ GateAccepts
      BY <2>3 DEF GateRejects, GateAccepts, Return, CallsLeft
    <2>4. CASE \E quote \in Quotes \union {None}, marks \in Marks(Len(open) + 1) :
                 PlaceOrder(quote, marks) \/ PlaceOrderFails(quote, marks)
      BY <2>4 DEF PlaceOrder, PlaceOrderFails, Return, CallsLeft
    <2> QED BY <2>1, <2>2, <2>3, <2>4 DEF EngineStep
  <1> QED BY <1>1, <1>2, PTL DEF Spec

\* The fairness of FairSpec, with a submission that is under way for ENABLED:
\* the calls submit() makes to the broker return or raise in the end.
CallsEnd == []<>(stage = "idle") \/ []<><<EngineStep>>_vars

\* A submission returns, if the calls it makes end (SubmissionReturns;
\* execution.py, submit).
THEOREM SubmissionReturnsIfCallsEnd == Spec /\ CallsEnd => SubmissionReturns
PROOF
  <1>1. stage = "account" /\ [Next]_vars => (stage = "account" \/ stage = "gate" \/ stage = "idle")'
    BY DEF Next, Submit, OperatorTrips, OperatorResets, ClosePosition, EngineStep, vars,
           engineVars, ReadAccount, ReadAccountFails, GateRejects, GateAccepts, PlaceOrder,
           PlaceOrderFails, Return
  <1>2. stage = "account" /\ <<EngineStep>>_vars => (stage = "gate" \/ stage = "idle")'
    BY DEF EngineStep, ReadAccount, ReadAccountFails, GateRejects, GateAccepts, PlaceOrder,
           PlaceOrderFails, Return
  <1>3. stage = "gate" /\ [Next]_vars => (stage = "gate" \/ stage = "place" \/ stage = "idle")'
    BY DEF Next, Submit, OperatorTrips, OperatorResets, ClosePosition, EngineStep, vars,
           engineVars, ReadAccount, ReadAccountFails, GateRejects, GateAccepts, PlaceOrder,
           PlaceOrderFails, Return
  <1>4. stage = "gate" /\ <<EngineStep>>_vars => (stage = "place" \/ stage = "idle")'
    BY DEF EngineStep, ReadAccount, ReadAccountFails, GateRejects, GateAccepts, PlaceOrder,
           PlaceOrderFails, Return
  <1>5. stage = "place" /\ [Next]_vars => (stage = "place" \/ stage = "idle")'
    BY DEF Next, Submit, OperatorTrips, OperatorResets, ClosePosition, EngineStep, vars,
           engineVars, ReadAccount, ReadAccountFails, GateRejects, GateAccepts, PlaceOrder,
           PlaceOrderFails, Return
  <1>6. stage = "place" /\ <<EngineStep>>_vars => (stage = "idle")'
    BY DEF EngineStep, ReadAccount, ReadAccountFails, GateRejects, GateAccepts, PlaceOrder,
           PlaceOrderFails, Return
  <1>7. TypeOK => \/ stage = "account" \/ stage = "gate" \/ stage = "place" \/ stage = "idle"
    BY DEF TypeOK, Stages
  <1>8. stage # "idle" <=> ~(stage = "idle")
    OBVIOUS
  <1> QED BY <1>1, <1>2, <1>3, <1>4, <1>5, <1>6, <1>7, <1>8, Typing, PTL DEF Spec, SubmissionReturns, CallsEnd
=============================================================================
