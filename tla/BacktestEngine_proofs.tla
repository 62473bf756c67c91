----------------------- MODULE BacktestEngine_proofs -----------------------
(***************************************************************************)
(* The books of a backtest are right for every history of bars, every      *)
(* strategy, every configuration of risks and costs, and any length of the *)
(* run; and what its economic read says of a loser.                        *)
(*                                                                         *)
(* The engine holds one lot at most, so the lots of a broker are no lot or *)
(* one, and a sum over them is nothing or its only term.                   *)
(***************************************************************************)
EXTENDS Economics, Totals_proofs, SequenceTheorems

AtMostOne == {{}} \union {{id} : id \in Nat}

Breakdown == [spread: Nat, slippage: Nat, commission: Nat, swap: Int]

Broker ==
  [cash: Int, lots: UNION {[S -> Lot] : S \in AtMostOne}, realized: Int,
   peak: Nat \ {0}, dayStart: Nat \ {0}, mid: (Nat \ {0}) \union {None},
   day: Int \union {None}, swaps: UNION {[S -> Int] : S \in AtMostOne},
   costs: Breakdown]

Trade ==
  [id: Nat, direction: Directions, closed: BOOLEAN, entryTime: Nat,
   exitTime: Nat \union {None}, commission: Nat, swap: Int, pnl: Int]

-----------------------------------------------------------------------------
(* Lots, marks and equity *)

LEMMA LotFields ==
  ASSUME NEW lot \in Lot
  PROVE  /\ lot.position \in Position
         /\ lot.position.direction \in Directions /\ lot.position.pair \in Pairs
         /\ lot.position.size \in Nat \ {0} /\ lot.position.entry \in Nat \ {0}
         /\ lot.entryCommission \in Nat
<1>1. lot.position \in Position /\ lot.entryCommission \in Nat
  BY DEF Lot
<1> QED BY <1>1 DEF Position, OrderRequest

\* The fields of a broker, and the lot it holds if it holds one.
LEMMA BrokerFields ==
  ASSUME NEW b \in Broker
  PROVE  /\ b.cash \in Int /\ b.realized \in Int
         /\ b.peak \in Nat \ {0} /\ b.dayStart \in Nat \ {0}
         /\ b.mid = None \/ b.mid \in Nat \ {0}
         /\ b.costs \in Breakdown
         /\ \/ DOMAIN b.lots = {}
            \/ \E id \in Nat : DOMAIN b.lots = {id} /\ b.lots[id] \in Lot
         /\ \A id \in DOMAIN b.lots : b.lots[id] \in Lot
         /\ \A id \in DOMAIN b.swaps : b.swaps[id] \in Int
         /\ b.lots \in [DOMAIN b.lots -> Lot] /\ b.swaps \in [DOMAIN b.swaps -> Int]
         /\ DOMAIN b.lots \in AtMostOne /\ DOMAIN b.swaps \in AtMostOne
<1>1. PICK S \in AtMostOne : b.lots \in [S -> Lot]
  BY DEF Broker
<1>2. PICK T \in AtMostOne : b.swaps \in [T -> Int]
  BY DEF Broker
<1>3. \/ S = {}
      \/ \E id \in Nat : S = {id}
  BY DEF AtMostOne
<1>4. /\ b.cash \in Int /\ b.realized \in Int
      /\ b.peak \in Nat \ {0} /\ b.dayStart \in Nat \ {0}
      /\ b.mid = None \/ b.mid \in Nat \ {0}
      /\ b.costs \in Breakdown
  BY DEF Broker
<1> QED BY <1>1, <1>2, <1>3, <1>4

\* A broker with other lots, or without.
LEMMA LotsAndSwaps ==
  ASSUME NEW S \in AtMostOne, NEW lots \in [S -> Lot], NEW swaps \in [S -> Int]
  PROVE  /\ lots \in UNION {[R -> Lot] : R \in AtMostOne}
         /\ swaps \in UNION {[R -> Int] : R \in AtMostOne}
OBVIOUS

LEMMA PricesType ==
  ASSUME NEW d \in Directions, NEW mid \in Nat \ {0}
  PROVE  /\ ExitPrice(d, mid) \in Int /\ EntryPrice(d, mid) \in Int
         /\ ~EntryRaises(d, mid) => EntryPrice(d, mid) \in Nat \ {0}
<1>1. HalfSpread \in Nat /\ SlippagePerUnit \in Nat
  BY CostModelAssumption
<1> QED BY <1>1 DEF Directions, ExitPrice, EntryPrice, BuyFillPrice, SellFillPrice,
                    EntryRaises, SellRaises

LEMMA ProductType == \A x, y \in Int : x * y \in Int
OBVIOUS

LEMMA MarkedType ==
  ASSUME NEW lot \in Lot, NEW mid \in Nat \ {0}
  PROVE  Marked(lot, mid) \in Int
<1> DEFINE p == lot.position
           price == ExitPrice(p.direction, mid)
<1>1. price \in Int /\ p.entry \in Int /\ p.size \in Int
  BY LotFields, PricesType
<1>2. price - p.entry \in Int /\ p.entry - price \in Int
  BY <1>1
<1>3. (price - p.entry) * p.size \in Int /\ (p.entry - price) * p.size \in Int
  BY <1>1, <1>2, ProductType
<1> QED BY <1>3 DEF Marked

LEMMA CommissionType ==
  ASSUME NEW n \in Nat
  PROVE  CommissionFor(n) \in Nat
<1>1. \A x, y \in Nat : x * y \in Nat
  OBVIOUS
<1> QED BY <1>1, CostModelAssumption DEF CommissionFor

\* A sum over the lots: nothing, or that of the one lot.
LEMMA LotTotal ==
  ASSUME NEW S \in AtMostOne, NEW f \in [S -> Int]
  PROVE  /\ Total(f) \in Int
         /\ S = {} => Total(f) = 0
         /\ \A id : S = {id} => Total(f) = f[id]
<1>1. CASE S = {}
  BY <1>1, TotalEmpty
<1>2. CASE S # {}
  <2>1. PICK id \in Nat : S = {id}
    BY <1>2 DEF AtMostOne
  <2>2. DOMAIN f = {id} /\ f[id] \in Int
    BY <2>1
  <2>3. Total(f) = f[id]
    BY <2>2, TotalOne
  <2> QED BY <2>1, <2>2, <2>3
<1> QED BY <1>1, <1>2

LEMMA EquityType ==
  ASSUME NEW b \in Broker
  PROVE  Unrealized(b) \in Int /\ Equity(b) \in Int
<1>1. CASE b.mid = None
  BY <1>1, BrokerFields DEF Unrealized, Equity
<1>2. CASE b.mid # None
  <2> DEFINE marks == [id \in DOMAIN b.lots |-> Marked(b.lots[id], b.mid)]
  <2>1. DOMAIN b.lots \in AtMostOne /\ marks \in [DOMAIN b.lots -> Int]
    BY <1>2, BrokerFields, MarkedType
  <2>2. Total(marks) \in Int
    BY <2>1, LotTotal
  <2> QED BY <1>2, <2>2, BrokerFields DEF Unrealized, Equity
<1> QED BY <1>1, <1>2

\* What is the same in two brokers that differ by their marks and days only.
SameBooks(b, c) ==
  c.cash = b.cash /\ c.lots = b.lots /\ c.swaps = b.swaps /\ c.costs = b.costs

LEMMA RollType ==
  ASSUME NEW b \in Broker, NEW bar \in Bar
  PROVE  /\ MaybeRollDay(b, bar) \in Broker
         /\ SameBooks(b, MaybeRollDay(b, bar))
         /\ MaybeRollDay(b, bar).peak = b.peak
<1>1. BarDay(bar.time) \in Int
  BY CostModelAssumption DEF BarDay, Bar, HoursPerDay
<1>2. Larger(Equity(b), 1) \in Nat \ {0}
  BY EquityType DEF Larger
<1> DEFINE day  == BarDay(bar.time)
           high == Larger(Equity(b), 1)
           next == [b EXCEPT !.dayStart = high, !.realized = 0, !.day = day]
           dated == [b EXCEPT !.day = day]
<1>3. MaybeRollDay(b, bar) \in {dated, b, next}
  BY DEF MaybeRollDay
<1>4. day \in Int /\ high \in Nat \ {0}
  BY <1>1, <1>2
<1> HIDE DEF day, high
<1>5. dated \in Broker /\ SameBooks(b, dated) /\ dated.peak = b.peak
  BY <1>4 DEF Broker, SameBooks
<1>6. next \in Broker /\ SameBooks(b, next) /\ next.peak = b.peak
  <2> DEFINE n1 == [b EXCEPT !.dayStart = high]
             n2 == [n1 EXCEPT !.realized = 0]
  <2>1. n1 \in Broker /\ SameBooks(b, n1) /\ n1.peak = b.peak
    BY <1>4 DEF Broker, SameBooks
  <2>2. n2 \in Broker /\ SameBooks(n1, n2) /\ n2.peak = n1.peak
    <3> HIDE DEF n1
    <3> QED BY <2>1 DEF Broker, SameBooks
  <2>3. next = [n2 EXCEPT !.day = day]
    OBVIOUS
  <2>4. next \in Broker /\ SameBooks(n2, next) /\ next.peak = n2.peak
    <3> HIDE DEF n1, n2, next
    <3> QED BY <1>4, <2>2, <2>3 DEF Broker, SameBooks
  <2> HIDE DEF n1, n2, next
  <2> QED BY <2>1, <2>2, <2>4 DEF SameBooks
<1>7. SameBooks(b, b)
  BY DEF SameBooks
<1> HIDE DEF dated, next
<1> QED BY <1>3, <1>5, <1>6, <1>7

LEMMA MarkType ==
  ASSUME NEW b \in Broker, NEW bar \in Bar
  PROVE  LET m == MarkToMarket(b, bar)
         IN  /\ m \in Broker /\ SameBooks(b, m)
             /\ m.peak = Larger(Equity(m), b.peak) /\ m.dayStart = b.dayStart
<1> DEFINE marked == [b EXCEPT !.mid = bar.close]
           m == MarkToMarket(b, bar)
<1>1. marked \in Broker
  BY DEF Broker, Bar
<1>2. Equity(marked) \in Int /\ b.peak \in Nat \ {0}
  BY <1>1, EquityType, BrokerFields
<1>3. Larger(Equity(marked), b.peak) \in Nat \ {0}
  BY <1>2 DEF Larger
<1>4. m = [marked EXCEPT !.peak = Larger(Equity(marked), b.peak)]
  BY DEF MarkToMarket
<1>5. /\ m \in Broker /\ m.peak = Larger(Equity(marked), b.peak)
      /\ m.cash = marked.cash /\ m.lots = marked.lots /\ m.mid = marked.mid
      /\ m.swaps = marked.swaps /\ m.costs = marked.costs /\ m.dayStart = marked.dayStart
  <2> HIDE DEF marked, m
  <2> QED BY <1>1, <1>3, <1>4 DEF Broker
<1>6. Equity(m) = Equity(marked)
  BY <1>5 DEF Equity, Unrealized
<1>7. /\ marked.cash = b.cash /\ marked.lots = b.lots /\ marked.swaps = b.swaps
      /\ marked.costs = b.costs /\ marked.dayStart = b.dayStart
  BY DEF Broker
<1> QED BY <1>5, <1>6, <1>7 DEF SameBooks

\* The values of a function by the order of its keys: none, or the one.
LEMMA InOrderOfOne ==
  ASSUME NEW f
  PROVE  /\ DOMAIN f = {} => InOrder(f) = << >>
         /\ \A id \in Int : DOMAIN f = {id} => InOrder(f) = <<f[id]>>
<1>1. CASE DOMAIN f = {}
  <2>1. Cardinality(DOMAIN f) = 0 /\ 1 .. 0 = {}
    BY <1>1, FS_EmptySet
  <2> QED BY <1>1, <2>1 DEF InOrder
<1>2. ASSUME NEW id \in Int, DOMAIN f = {id}
      PROVE  InOrder(f) = <<f[id]>>
  <2> DEFINE rank(k) == Cardinality({j \in DOMAIN f : j < k}) + 1
  <2>1. Cardinality(DOMAIN f) = 1 /\ 1 .. 1 = {1}
    BY <1>2, FS_Singleton
  <2>2. {j \in DOMAIN f : j < id} = {}
    BY <1>2
  <2>3. rank(id) = 1
    BY <2>2, FS_EmptySet
  <2>4. (CHOOSE k \in DOMAIN f : rank(k) = 1) = id
    <3> HIDE DEF rank
    <3> QED BY <1>2, <2>3
  <2>5. InOrder(f) = [i \in 1 .. Cardinality(DOMAIN f) |->
                        f[CHOOSE k \in DOMAIN f : rank(k) = i]]
    BY DEF InOrder
  <2> HIDE DEF rank
  <2>6. InOrder(f) = [i \in {1} |-> f[CHOOSE k \in DOMAIN f : rank(k) = i]]
    BY <2>1, <2>5
  <2>7. \A i \in {1} : (CHOOSE k \in DOMAIN f : rank(k) = i) = id
    BY <2>4
  <2>8. InOrder(f) = [i \in {1} |-> f[id]]
    BY <2>6, <2>7
  <2> QED BY <2>8
<1> QED BY <1>1, <1>2

-----------------------------------------------------------------------------
(* The trade log and the ledgers *)

Recorded(tr) == {tr[i].id : i \in DOMAIN tr}

\* Every id handed out is that of an open lot or of exactly one record.
Log(tr, open, n) ==
  /\ tr \in Seq(Trade) /\ n \in Nat
  /\ Len(tr) = Cardinality(Recorded(tr))
  /\ Recorded(tr) \union open = 0 .. n - 1
  /\ Recorded(tr) \intersect open = {}

BroughtBy(tr)     == Total([i \in DOMAIN tr |-> Brought(tr[i])])
CommissionsOf(tr) == Total([i \in DOMAIN tr |-> tr[i].commission])
SwapsOf(tr)       == Total([i \in DOMAIN tr |-> tr[i].swap])

\* The ledgers of b are those of the trade log and of the lot held.
Ledgers(b, tr) ==
  /\ DOMAIN b.lots = {} =>
       /\ b.cash = StartingBalance + BroughtBy(tr)
       /\ b.costs.commission = CommissionsOf(tr)
       /\ b.costs.swap = SwapsOf(tr)
  /\ \A id \in Nat : DOMAIN b.lots = {id} =>
       /\ b.cash = StartingBalance + BroughtBy(tr)
                     + (b.swaps[id] - b.lots[id].entryCommission)
       /\ b.costs.commission = CommissionsOf(tr) + b.lots[id].entryCommission
       /\ b.costs.swap = SwapsOf(tr) + b.swaps[id]

\* The books of a run that has broker b, trade log tr, entry times lv and has
\* handed out n ids.
BookOK(b, tr, lv, n) ==
  /\ b \in Broker
  /\ Log(tr, DOMAIN b.lots, n)
  /\ lv \in [DOMAIN b.lots -> Nat]
  /\ DOMAIN b.swaps = DOMAIN b.lots
  /\ \A id \in DOMAIN b.lots : b.lots[id].position.pair = Pair
  /\ Ledgers(b, tr)

LEMMA BroughtType ==
  ASSUME NEW r \in Trade
  PROVE  Brought(r) \in Int /\ r.commission \in Int /\ r.swap \in Int /\ r.id \in Nat
<1>1. r.pnl \in Int /\ r.swap \in Int /\ r.commission \in Nat /\ r.id \in Nat
  BY DEF Trade
<1> QED BY <1>1 DEF Brought

LEMMA LogSums ==
  ASSUME NEW tr \in Seq(Trade)
  PROVE  BroughtBy(tr) \in Int /\ CommissionsOf(tr) \in Int /\ SwapsOf(tr) \in Int
<1> DEFINE n == Len(tr)
<1>1. n \in Nat /\ DOMAIN tr = 1 .. n /\ \A i \in 1 .. n : tr[i] \in Trade
  BY LenProperties, ElementOfSeq
<1> HIDE DEF n
<1>2. /\ [i \in DOMAIN tr |-> Brought(tr[i])] \in [1 .. n -> Int]
      /\ [i \in DOMAIN tr |-> tr[i].commission] \in [1 .. n -> Int]
      /\ [i \in DOMAIN tr |-> tr[i].swap] \in [1 .. n -> Int]
  BY <1>1, BroughtType
<1> QED BY <1>1, <1>2, TotalType DEF BroughtBy, CommissionsOf, SwapsOf

\* Recording one more trade.
LEMMA TradeRecorded ==
  ASSUME NEW tr \in Seq(Trade), NEW r \in Trade, r.id \notin Recorded(tr),
         Len(tr) = Cardinality(Recorded(tr))
  PROVE  LET u == tr \o <<r>>
         IN  /\ u \in Seq(Trade) /\ Len(u) = Len(tr) + 1
             /\ Len(u) = Cardinality(Recorded(u))
             /\ Recorded(u) = Recorded(tr) \union {r.id}
             /\ BroughtBy(u) = BroughtBy(tr) + Brought(r)
             /\ CommissionsOf(u) = CommissionsOf(tr) + r.commission
             /\ SwapsOf(u) = SwapsOf(tr) + r.swap
             /\ \A i \in DOMAIN tr : u[i] = tr[i]
             /\ u[Len(u)] = r
<1> DEFINE u == tr \o <<r>>
           n == Len(tr)
<1>1. n \in Nat /\ DOMAIN tr = 1 .. n /\ \A i \in 1 .. n : tr[i] \in Trade
  BY LenProperties, ElementOfSeq
<1>2. <<r>> \in Seq(Trade) /\ Len(<<r>>) = 1 /\ <<r>>[1] = r
  OBVIOUS
<1>3. /\ u \in Seq(Trade) /\ Len(u) = n + 1
      /\ \A i \in 1 .. n + 1 : u[i] = IF i <= n THEN tr[i] ELSE <<r>>[i - n]
  BY <1>2, ConcatProperties
<1>4. DOMAIN u = 1 .. n + 1 /\ \A i \in 1 .. n + 1 : u[i] \in Trade
  BY <1>1, <1>3, LenProperties, ElementOfSeq
<1> HIDE DEF u, n
<1>5. (\A i \in 1 .. n : u[i] = tr[i]) /\ u[n + 1] = r
  BY <1>1, <1>2, <1>3
<1>6. 1 .. n + 1 = (1 .. n) \union {n + 1}
  BY <1>1
<1>7. Recorded(u) = Recorded(tr) \union {r.id}
  <2>1. /\ Recorded(u) = {u[i].id : i \in (1 .. n) \union {n + 1}}
        /\ Recorded(tr) = {tr[i].id : i \in 1 .. n}
    BY <1>1, <1>4, <1>6 DEF Recorded
  <2>2. Recorded(u) = {u[i].id : i \in 1 .. n} \union {u[n + 1].id}
    BY <2>1
  <2>3. {u[i].id : i \in 1 .. n} = {tr[i].id : i \in 1 .. n}
    BY <1>5
  <2> QED BY <1>5, <2>1, <2>2, <2>3
<1>8. Len(u) = Cardinality(Recorded(u))
  <2>1. Recorded(tr) = {tr[i].id : i \in 1 .. n}
    BY <1>1 DEF Recorded
  <2>2. IsFiniteSet(Recorded(tr))
    <3>1. IsFiniteSet(1 .. n)
      BY <1>1, FS_Interval
    <3>2. [i \in 1 .. n |-> tr[i].id] \in Surjection(1 .. n, Recorded(tr))
      BY <2>1 DEF Surjection
    <3> QED BY <3>1, <3>2, FS_Surjection
  <2>3. Cardinality(Recorded(tr) \union {r.id}) = Cardinality(Recorded(tr)) + 1
    BY <2>2, FS_AddElement
  <2> QED BY <1>3, <1>7, <2>3 DEF n
<1>9. BroughtBy(u) = BroughtBy(tr) + Brought(r)
  <2> DEFINE f == [i \in DOMAIN tr |-> Brought(tr[i])]
             g == [i \in DOMAIN u |-> Brought(u[i])]
  <2>1. f \in [1 .. n -> Int] /\ g \in [1 .. n + 1 -> Int]
    BY <1>1, <1>4, BroughtType
  <2>2. (\A i \in 1 .. n : g[i] = f[i]) /\ g[n + 1] = Brought(r)
    BY <1>1, <1>4, <1>5, <1>6
  <2> HIDE DEF f, g
  <2>3. Total(g) = Total(f) + g[n + 1]
    BY <1>1, <2>1, <2>2, TotalAppend
  <2> QED BY <2>2, <2>3 DEF BroughtBy, f, g
<1>10. CommissionsOf(u) = CommissionsOf(tr) + r.commission
  <2> DEFINE f == [i \in DOMAIN tr |-> tr[i].commission]
             g == [i \in DOMAIN u |-> u[i].commission]
  <2>1. f \in [1 .. n -> Int] /\ g \in [1 .. n + 1 -> Int]
    BY <1>1, <1>4, BroughtType
  <2>2. (\A i \in 1 .. n : g[i] = f[i]) /\ g[n + 1] = r.commission
    BY <1>1, <1>4, <1>5, <1>6
  <2> HIDE DEF f, g
  <2>3. Total(g) = Total(f) + g[n + 1]
    BY <1>1, <2>1, <2>2, TotalAppend
  <2> QED BY <2>2, <2>3 DEF CommissionsOf, f, g
<1>11. SwapsOf(u) = SwapsOf(tr) + r.swap
  <2> DEFINE f == [i \in DOMAIN tr |-> tr[i].swap]
             g == [i \in DOMAIN u |-> u[i].swap]
  <2>1. f \in [1 .. n -> Int] /\ g \in [1 .. n + 1 -> Int]
    BY <1>1, <1>4, BroughtType
  <2>2. (\A i \in 1 .. n : g[i] = f[i]) /\ g[n + 1] = r.swap
    BY <1>1, <1>4, <1>5, <1>6
  <2> HIDE DEF f, g
  <2>3. Total(g) = Total(f) + g[n + 1]
    BY <1>1, <2>1, <2>2, TotalAppend
  <2> QED BY <2>2, <2>3 DEF SwapsOf, f, g
<1> QED BY <1>1, <1>3, <1>5, <1>7, <1>8, <1>9, <1>10, <1>11 DEF u, n

-----------------------------------------------------------------------------
(* What the methods of the broker leave behind *)

LEMMA MinusAll ==
  ASSUME NEW f, NEW S, f = [k \in S |-> f[k]]
  PROVE  /\ Minus(f, {}) = f
         /\ DOMAIN Minus(f, S) = {}
BY DEF Minus

LEMMA FillCosts ==
  ASSUME NEW costs \in Breakdown,
         NEW size
  PROVE  CostsOfFill(costs, size) =
           [spread     |-> costs.spread + size * HalfSpread,
            slippage   |-> costs.slippage + size * SlippagePerUnit,
            commission |-> costs.commission + CommissionFor(size),
            swap       |-> costs.swap]
<1> DEFINE x == size * HalfSpread
           y == size * SlippagePerUnit
           z == CommissionFor(size)
           c1 == [costs EXCEPT !.spread = costs.spread + x]
           c2 == [c1 EXCEPT !.slippage = c1.slippage + y]
           c3 == [c2 EXCEPT !.commission = c2.commission + z]
<1>1. CostsOfFill(costs, size) = c3
  BY DEF CostsOfFill
<1> HIDE DEF x, y, z
<1>2. c1 = [spread |-> costs.spread + x, slippage |-> costs.slippage,
            commission |-> costs.commission, swap |-> costs.swap]
  BY DEF Breakdown
<1> HIDE DEF c1
<1>3. c2 = [spread |-> costs.spread + x, slippage |-> costs.slippage + y,
            commission |-> costs.commission, swap |-> costs.swap]
  BY <1>2
<1> HIDE DEF c2
<1>4. c3 = [spread |-> costs.spread + x, slippage |-> costs.slippage + y,
            commission |-> costs.commission + z, swap |-> costs.swap]
  BY <1>3
<1> QED BY <1>1, <1>4 DEF x, y, z

LEMMA FillCostsType ==
  ASSUME NEW costs \in Breakdown,
         NEW size \in Nat
  PROVE  LET c == CostsOfFill(costs, size)
         IN  /\ c \in Breakdown
             /\ c.commission = costs.commission + CommissionFor(size)
             /\ c.swap = costs.swap
<1>1. CommissionFor(size) \in Nat
  BY CommissionType
<1>2. \A x, y \in Nat : x * y \in Nat
  OBVIOUS
<1>3. size * HalfSpread \in Nat /\ size * SlippagePerUnit \in Nat
  BY <1>2, CostModelAssumption
<1>4. /\ costs.spread \in Nat /\ costs.slippage \in Nat /\ costs.commission \in Nat
      /\ costs.swap \in Int
  BY DEF Breakdown
<1>5. /\ costs.spread + size * HalfSpread \in Nat
      /\ costs.slippage + size * SlippagePerUnit \in Nat
      /\ costs.commission + CommissionFor(size) \in Nat
  BY <1>1, <1>3, <1>4
<1> QED BY <1>4, <1>5, FillCosts DEF Breakdown

\* A broker from the fields that a method writes.
Rewritten(b, cash, realized, costs, lots, swaps) ==
  [b EXCEPT !.cash = cash, !.realized = realized, !.costs = costs,
            !.lots = lots, !.swaps = swaps]

LEMMA BrokerOf ==
  ASSUME NEW b \in Broker, NEW cash \in Int, NEW realized \in Int,
         NEW costs \in Breakdown,
         NEW lots, NEW swaps, DOMAIN lots \in AtMostOne,
         lots \in [DOMAIN lots -> Lot], swaps \in [DOMAIN lots -> Int]
  PROVE  LET c == Rewritten(b, cash, realized, costs, lots, swaps)
         IN  /\ c \in Broker
             /\ c.cash = cash /\ c.costs = costs /\ c.lots = lots /\ c.swaps = swaps
             /\ c.peak = b.peak /\ c.dayStart = b.dayStart /\ c.mid = b.mid
<1>1. /\ lots \in UNION {[R -> Lot] : R \in AtMostOne}
      /\ swaps \in UNION {[R -> Int] : R \in AtMostOne}
  BY LotsAndSwaps
<1> DEFINE b1 == [b EXCEPT !.cash = cash]
           b2 == [b1 EXCEPT !.realized = realized]
           b3 == [b2 EXCEPT !.costs = costs]
           b4 == [b3 EXCEPT !.lots = lots]
           b5 == [b4 EXCEPT !.swaps = swaps]
<1>2. /\ b1 \in Broker /\ b1.cash = cash
      /\ b1.peak = b.peak /\ b1.dayStart = b.dayStart /\ b1.mid = b.mid
  BY DEF Broker
<1> HIDE DEF b1
<1>3. /\ b2 \in Broker /\ b2.cash = cash
      /\ b2.peak = b.peak /\ b2.dayStart = b.dayStart /\ b2.mid = b.mid
  BY <1>2 DEF Broker
<1> HIDE DEF b2
<1>4. /\ b3 \in Broker /\ b3.cash = cash /\ b3.costs = costs
      /\ b3.peak = b.peak /\ b3.dayStart = b.dayStart /\ b3.mid = b.mid
  BY <1>3 DEF Broker
<1> HIDE DEF b3
<1>5. /\ b4 \in Broker /\ b4.cash = cash /\ b4.costs = costs /\ b4.lots = lots
      /\ b4.peak = b.peak /\ b4.dayStart = b.dayStart /\ b4.mid = b.mid
  BY <1>1, <1>4 DEF Broker
<1> HIDE DEF b4
<1>6. /\ b5 \in Broker /\ b5.cash = cash /\ b5.costs = costs /\ b5.lots = lots
      /\ b5.swaps = swaps
      /\ b5.peak = b.peak /\ b5.dayStart = b.dayStart /\ b5.mid = b.mid
  BY <1>1, <1>5 DEF Broker
<1>7. b5 = Rewritten(b, cash, realized, costs, lots, swaps)
  BY DEF b1, b2, b3, b4, Rewritten
<1> QED BY <1>6, <1>7

\* Closing nothing changes nothing the books are made of.
LEMMA CloseNone ==
  ASSUME NEW b \in Broker, DOMAIN b.swaps = DOMAIN b.lots, NEW bar \in Bar
  PROVE  LET c == CloseLots(b, {}, bar)
         IN  /\ c \in Broker /\ SameBooks(b, c) /\ c.peak = b.peak
             /\ Snapshot(c) = Snapshot(b)
<1> DEFINE net  == Total([id \in {} |-> CloseNet(b.lots[id], bar)])
           size == Total([id \in {} |-> b.lots[id].position.size])
           costs == CostsOfFill(b.costs, size)
<1>1. net = 0 /\ size = 0
  BY TotalEmpty
<1>2. CostsOfFill(b.costs, 0) = b.costs
  <2>1. b.costs \in Breakdown
    BY BrokerFields
  <2>2. 0 * HalfSpread = 0 /\ 0 * SlippagePerUnit = 0 /\ 0 * CommissionPerUnit = 0
    BY CostModelAssumption
  <2>3. b.costs = [spread |-> b.costs.spread, slippage |-> b.costs.slippage,
                   commission |-> b.costs.commission, swap |-> b.costs.swap]
    BY <2>1 DEF Breakdown
  <2>4. /\ b.costs.spread + 0 = b.costs.spread
        /\ b.costs.slippage + 0 = b.costs.slippage
        /\ b.costs.commission + 0 = b.costs.commission
    BY <2>1 DEF Breakdown
  <2> QED BY <2>1, <2>2, <2>3, <2>4, FillCosts DEF CommissionFor
<1>3. Minus(b.lots, {}) = b.lots /\ Minus(b.swaps, {}) = b.swaps
  BY BrokerFields, MinusAll
<1>4. CloseLots(b, {}, bar) =
        Rewritten(b, b.cash, b.realized, b.costs, b.lots, b.swaps)
  <2> HIDE DEF net, size
  <2>1. CloseLots(b, {}, bar) =
          [b EXCEPT !.cash = b.cash + net, !.realized = b.realized + net,
                    !.costs = costs, !.lots = Minus(b.lots, {}),
                    !.swaps = Minus(b.swaps, {})]
    BY DEF CloseLots, Broker, net, size
  <2>2. costs = b.costs
    BY <1>1, <1>2
  <2>3. b.cash + net = b.cash /\ b.realized + net = b.realized
    BY <1>1, BrokerFields DEF net
  <2> HIDE DEF costs
  <2> QED BY <1>3, <2>1, <2>2, <2>3 DEF Rewritten
<1>5. /\ b.cash \in Int /\ b.realized \in Int
      /\ b.costs \in Breakdown
      /\ DOMAIN b.lots \in AtMostOne /\ b.lots \in [DOMAIN b.lots -> Lot]
      /\ b.swaps \in [DOMAIN b.lots -> Int]
  BY BrokerFields
<1> DEFINE c == Rewritten(b, b.cash, b.realized, b.costs, b.lots, b.swaps)
<1>6. /\ c \in Broker
      /\ c.cash = b.cash /\ c.costs = b.costs /\ c.lots = b.lots /\ c.swaps = b.swaps
      /\ c.peak = b.peak /\ c.dayStart = b.dayStart /\ c.mid = b.mid
  <2> HIDE DEF net, size, costs
  <2> QED BY <1>5, BrokerOf
<1>7. c = CloseLots(b, {}, bar)
  BY <1>4
<1> HIDE DEF c
<1>8. Snapshot(c) = Snapshot(b)
  BY <1>6 DEF Snapshot, Equity, Unrealized
<1> QED BY <1>6, <1>7, <1>8 DEF SameBooks

\* Closing the lot held, id: cash pays the commission and takes the result.
LEMMA CloseOne ==
  ASSUME NEW b \in Broker, DOMAIN b.swaps = DOMAIN b.lots, NEW bar \in Bar,
         NEW id \in Nat, DOMAIN b.lots = {id}
  PROVE  LET c == CloseLots(b, DOMAIN b.lots, bar)
             fee == CommissionFor(b.lots[id].position.size)
         IN  /\ c \in Broker /\ DOMAIN c.lots = {} /\ DOMAIN c.swaps = {}
             /\ c.cash = b.cash + ClosePnl(b.lots[id], bar) - fee
             /\ c.costs.commission = b.costs.commission + fee
             /\ c.costs.swap = b.costs.swap
             /\ c.peak = b.peak
             /\ fee \in Nat /\ ClosePnl(b.lots[id], bar) \in Int
<1> DEFINE lot  == b.lots[id]
           fee  == CommissionFor(lot.position.size)
           pnl  == ClosePnl(lot, bar)
           size == lot.position.size
           c    == CloseLots(b, {id}, bar)
           none == Minus(b.lots, {id})
           idle == Minus(b.swaps, {id})
<1>1. lot \in Lot /\ size \in Nat /\ fee \in Nat
  BY BrokerFields, LotFields, CommissionType
<1>2. pnl \in Int
  BY <1>1, MarkedType DEF ClosePnl, Bar
<1>3. Total([i \in {id} |-> CloseNet(b.lots[i], bar)]) = pnl - fee
  <2> DEFINE f == [i \in {id} |-> CloseNet(b.lots[i], bar)]
  <2>1. DOMAIN f = {id} /\ f[id] = pnl - fee
    BY DEF CloseNet
  <2> HIDE DEF f, pnl, fee
  <2>2. pnl - fee \in Int
    BY <1>1, <1>2
  <2>3. Total(f) = pnl - fee
    BY <2>1, <2>2, TotalOne
  <2> QED BY <2>3 DEF f
<1>4. Total([i \in {id} |-> b.lots[i].position.size]) = size
  <2> DEFINE f == [i \in {id} |-> b.lots[i].position.size]
  <2>1. DOMAIN f = {id} /\ f[id] = size
    OBVIOUS
  <2> HIDE DEF f, size
  <2>2. Total(f) = size
    BY <1>1, <2>1, TotalOne
  <2> QED BY <2>2 DEF f
<1>5. /\ DOMAIN none = {} /\ DOMAIN idle = {}
      /\ none \in [DOMAIN none -> Lot] /\ idle \in [DOMAIN none -> Int]
  BY DEF Minus
<1>6. c = Rewritten(b, b.cash + (pnl - fee), b.realized + (pnl - fee),
                    CostsOfFill(b.costs, size), none, idle)
  <2> HIDE DEF pnl, fee, size
  <2> QED BY <1>3, <1>4 DEF CloseLots, Broker, Rewritten
<1>7. b.cash \in Int /\ b.realized \in Int /\ b.costs \in Breakdown /\ {} \in AtMostOne
  BY BrokerFields DEF AtMostOne
<1>8. /\ CostsOfFill(b.costs, size) \in Breakdown
      /\ CostsOfFill(b.costs, size).commission = b.costs.commission + fee
      /\ CostsOfFill(b.costs, size).swap = b.costs.swap
  BY <1>1, <1>7, FillCostsType
<1> HIDE DEF pnl, fee, size, none, idle, lot, c
<1>9. b.cash + (pnl - fee) \in Int /\ b.realized + (pnl - fee) \in Int
  BY <1>1, <1>2, <1>7
<1>10. /\ c \in Broker
       /\ c.cash = b.cash + (pnl - fee) /\ c.costs = CostsOfFill(b.costs, size)
       /\ c.lots = none /\ c.swaps = idle /\ c.peak = b.peak
  <2>1. DOMAIN none \in AtMostOne
    BY <1>5, <1>7
  <2> DEFINE cash  == b.cash + (pnl - fee)
             today == b.realized + (pnl - fee)
             costs == CostsOfFill(b.costs, size)
  <2>2. /\ cash \in Int /\ today \in Int /\ costs \in Breakdown
        /\ c = Rewritten(b, cash, today, costs, none, idle)
    BY <1>6, <1>8, <1>9
  <2>3. none \in [DOMAIN none -> Lot] /\ idle \in [DOMAIN none -> Int]
    BY <1>5
  <2> HIDE DEF cash, today, costs
  <2>4. /\ c \in Broker /\ c.cash = cash /\ c.costs = costs
        /\ c.lots = none /\ c.swaps = idle /\ c.peak = b.peak
    BY <2>1, <2>2, <2>3, BrokerOf
  <2> QED BY <2>4 DEF cash, costs
<1>11. c = CloseLots(b, DOMAIN b.lots, bar)
  BY DEF c
<1> QED BY <1>1, <1>2, <1>5, <1>7, <1>8, <1>10, <1>11 DEF fee, lot, size, pnl

\* Opening a lot, of which there is none yet.
LEMMA OpenOne ==
  ASSUME NEW b \in Broker, DOMAIN b.lots = {}, DOMAIN b.swaps = {},
         NEW order \in OrderRequest, NEW bar \in Bar, NEW id \in Nat,
         ~EntryRaises(order.direction, bar.open)
  PROVE  LET c == OpenAtNextOpen(b, order, bar, id)
             fee == CommissionFor(order.size)
         IN  /\ c \in Broker /\ DOMAIN c.lots = {id} /\ DOMAIN c.swaps = {id}
             /\ c.cash = b.cash - fee
             /\ c.costs.commission = b.costs.commission + fee
             /\ c.costs.swap = b.costs.swap
             /\ c.lots[id].entryCommission = fee /\ c.swaps[id] = 0
             /\ c.lots[id].position.pair = order.pair
             /\ c.peak = b.peak
             /\ fee \in Nat
<1> DEFINE position == [order EXCEPT !.entry = EntryPrice(order.direction, bar.open)]
           fee  == CommissionFor(order.size)
           lot  == [position |-> position, entryCommission |-> fee]
           c    == OpenAtNextOpen(b, order, bar, id)
           lots == Plus(b.lots, id, lot)
           idle == Plus(b.swaps, id, 0)
<1>1. /\ order.size \in Nat /\ order.direction \in Directions
      /\ bar.open \in Nat \ {0}
  BY DEF OrderRequest, Bar
<1>2. EntryPrice(order.direction, bar.open) \in Nat \ {0}
  BY <1>1, PricesType
<1>3. position \in Position /\ position.pair = order.pair
  <2> HIDE DEF EntryPrice
  <2> QED BY <1>2 DEF Position, OrderRequest
<1>4. fee \in Nat
  BY <1>1, CommissionType
<1>5. lot \in Lot /\ lot.position = position /\ lot.entryCommission = fee
  <2> HIDE DEF position, fee
  <2> QED BY <1>3, <1>4 DEF Lot
<1>6. /\ DOMAIN lots = {id} /\ DOMAIN idle = {id} /\ lots[id] = lot /\ idle[id] = 0
      /\ lots \in [DOMAIN lots -> Lot] /\ idle \in [DOMAIN lots -> Int]
  <2> HIDE DEF lot
  <2> QED BY <1>5 DEF Plus
<1>7. c = Rewritten(b, b.cash - fee, b.realized, CostsOfFill(b.costs, order.size),
                    lots, idle)
  <2> HIDE DEF fee, lots, idle
  <2>1. c = [b EXCEPT !.cash = b.cash - fee, !.costs = CostsOfFill(b.costs, order.size),
                      !.lots = lots, !.swaps = idle]
    BY DEF OpenAtNextOpen, Broker, fee, lots, idle
  <2> DEFINE costs == CostsOfFill(b.costs, order.size)
             cash  == b.cash - fee
  <2> HIDE DEF c, costs, cash
  <2>2. c = [b EXCEPT !.cash = cash, !.costs = costs, !.lots = lots, !.swaps = idle]
    BY <2>1 DEF costs, cash
  <2>3. c = [b EXCEPT !.cash = cash, !.realized = b.realized, !.costs = costs,
                      !.lots = lots, !.swaps = idle]
    BY <2>2 DEF Broker
  <2> QED BY <2>3 DEF Rewritten, costs, cash
<1>8. b.cash \in Int /\ b.realized \in Int /\ b.costs \in Breakdown /\ {id} \in AtMostOne
  BY BrokerFields DEF AtMostOne
<1>9. /\ CostsOfFill(b.costs, order.size) \in Breakdown
      /\ CostsOfFill(b.costs, order.size).commission = b.costs.commission + fee
      /\ CostsOfFill(b.costs, order.size).swap = b.costs.swap
  BY <1>1, <1>8, FillCostsType
<1> HIDE DEF position, fee, lots, idle, lot, c
<1>10. b.cash - fee \in Int
  BY <1>4, <1>8
<1>11. /\ c \in Broker
       /\ c.cash = b.cash - fee /\ c.costs = CostsOfFill(b.costs, order.size)
       /\ c.lots = lots /\ c.swaps = idle /\ c.peak = b.peak
  BY <1>6, <1>7, <1>8, <1>9, <1>10, BrokerOf
<1> QED BY <1>3, <1>4, <1>5, <1>6, <1>9, <1>11 DEF c, fee

\* The swap of a night: cash, the accumulator of the lot and the breakdown move
\* by the same amount.
LEMMA SwapOne ==
  ASSUME NEW b \in Broker, DOMAIN b.swaps = DOMAIN b.lots,
         NEW current \in Bar, NEW next \in Bar
  PROVE  LET c == ApplySwapIfRollover(b, current, next)
         IN  /\ c \in Broker /\ c.lots = b.lots /\ DOMAIN c.swaps = DOMAIN b.lots
             /\ c.peak = b.peak
             /\ DOMAIN b.lots = {} =>
                  c.cash = b.cash /\ c.costs = b.costs
             /\ \A id \in Nat : DOMAIN b.lots = {id} =>
                  /\ \E q \in Int : /\ c.cash = b.cash + q
                                    /\ c.swaps[id] = b.swaps[id] + q
                                    /\ c.costs.swap = b.costs.swap + q
                  /\ c.costs.commission = b.costs.commission
<1> DEFINE c == ApplySwapIfRollover(b, current, next)
           charge(id) == SwapCharge(b.lots[id].position, current.time, next.time)
           total == Total([id \in DOMAIN b.lots |-> charge(id)])
           idle == [id \in DOMAIN b.swaps |->
                      IF id \in DOMAIN b.lots THEN b.swaps[id] + charge(id) ELSE b.swaps[id]]
<1>1. \A id \in DOMAIN b.lots : charge(id) \in Int
  <2>1. SUFFICES ASSUME NEW id \in DOMAIN b.lots
                 PROVE  charge(id) \in Int
    OBVIOUS
  <2> DEFINE p == b.lots[id].position
             nights == RolloversBetween(current.time, next.time)
  <2>2. p.size \in Int /\ p.direction \in Directions
    BY <2>1, BrokerFields, LotFields
  <2>3. SwapPerDay(p.direction) \in Int
    BY CostModelAssumption DEF SwapPerDay
  <2>4. Cardinality(nights) \in Int
    <3>1. /\ current.time \div HoursPerDay \in Int /\ next.time \div HoursPerDay \in Int
      BY DEF Bar, HoursPerDay
    <3>2. IsFiniteSet(current.time \div HoursPerDay .. next.time \div HoursPerDay)
      BY <3>1, FS_Interval
    <3>3. nights \in SUBSET (current.time \div HoursPerDay .. next.time \div HoursPerDay)
      BY DEF RolloversBetween
    <3>4. IsFiniteSet(nights)
      BY <3>2, <3>3, FS_Subset
    <3> HIDE DEF nights
    <3> QED BY <3>4, FS_CardinalityType
  <2>5. WeekendFactor(current.time, next.time) \in Int
    BY CostModelAssumption DEF WeekendFactor
  <2> DEFINE w == WeekendFactor(current.time, next.time)
             n == Cardinality(nights)
             d == SwapPerDay(p.direction)
             k == p.size
  <2>6. charge(id) = k * d * n * w
    BY DEF SwapCharge
  <2> HIDE DEF w, n, d, k, charge
  <2>7. k \in Int /\ d \in Int /\ n \in Int /\ w \in Int
    BY <2>2, <2>3, <2>4, <2>5 DEF w, n, d, k
  <2>8. k * d \in Int
    BY <2>7, ProductType
  <2>9. k * d * n \in Int
    BY <2>7, <2>8, ProductType
  <2> QED BY <2>6, <2>7, <2>9, ProductType
<1> HIDE DEF charge
<1>2. CASE c = b
  <2>1. /\ b.cash + 0 = b.cash /\ b.costs.swap + 0 = b.costs.swap
        /\ \A id \in DOMAIN b.lots : b.swaps[id] + 0 = b.swaps[id]
    BY BrokerFields DEF Breakdown
  <2>2. \A id \in Nat : DOMAIN b.lots = {id} =>
          \E q \in Int : /\ b.cash = b.cash + q /\ b.swaps[id] = b.swaps[id] + q
                         /\ b.costs.swap = b.costs.swap + q
    BY <2>1
  <2> HIDE DEF c
  <2> QED BY <1>2, <2>2 DEF c
<1>3. CASE c # b
  <2>1. PICK id \in Nat : DOMAIN b.lots = {id}
    BY <1>3, BrokerFields DEF ApplySwapIfRollover
  <2>2. charge(id) \in Int
    BY <1>1, <2>1
  <2>3. total = charge(id)
    <3> DEFINE f == [i \in DOMAIN b.lots |-> charge(i)]
    <3>1. DOMAIN f = {id} /\ f[id] = charge(id)
      BY <2>1
    <3> HIDE DEF f
    <3>2. Total(f) = charge(id)
      BY <2>2, <3>1, TotalOne
    <3> QED BY <3>2 DEF f
  <2>4. /\ DOMAIN idle = {id} /\ idle[id] = b.swaps[id] + charge(id)
        /\ idle \in [DOMAIN b.lots -> Int]
    BY <1>1, <2>1, BrokerFields
  <2>5. b.costs \in Breakdown /\ b.costs.swap \in Int /\ b.cash \in Int /\ b.realized \in Int
    BY BrokerFields DEF Breakdown
  <2> DEFINE costs == [b.costs EXCEPT !.swap = b.costs.swap + total]
             cash == b.cash + total
  <2>6. total \in Int
    BY <2>2, <2>3
  <2>7. /\ costs \in Breakdown /\ costs.swap = b.costs.swap + total
        /\ costs.commission = b.costs.commission
    <3> HIDE DEF total
    <3> QED BY <2>5, <2>6 DEF Breakdown
  <2>8. c = Rewritten(b, cash, b.realized, costs, b.lots, idle)
    <3>1. c = [b EXCEPT !.cash = cash, !.swaps = idle, !.costs.swap = @ + total]
      BY <1>3 DEF ApplySwapIfRollover, Broker, charge
    <3> HIDE DEF c, cash, idle, total
    <3>2. c = [b EXCEPT !.cash = cash, !.swaps = idle, !.costs = costs]
      BY <3>1 DEF Broker
    <3> HIDE DEF costs
    <3>3. c = [b EXCEPT !.cash = cash, !.realized = b.realized, !.costs = costs,
                        !.lots = b.lots, !.swaps = idle]
      BY <3>2 DEF Broker
    <3> QED BY <3>3 DEF Rewritten
  <2>9. cash \in Int
    BY <2>5, <2>6
  <2>10. DOMAIN b.lots \in AtMostOne /\ b.lots \in [DOMAIN b.lots -> Lot]
    BY BrokerFields
  <2> HIDE DEF c, cash, costs, idle, total
  <2>11. /\ c \in Broker /\ c.cash = cash /\ c.costs = costs /\ c.lots = b.lots
         /\ c.swaps = idle /\ c.peak = b.peak
    BY <2>4, <2>5, <2>7, <2>8, <2>9, <2>10, BrokerOf
  <2>12. /\ c.cash = b.cash + total /\ c.swaps[id] = b.swaps[id] + total
         /\ c.costs.swap = b.costs.swap + total
    BY <2>3, <2>4, <2>7, <2>11 DEF cash
  <2> QED BY <2>1, <2>4, <2>6, <2>7, <2>11, <2>12 DEF c
<1> QED BY <1>2, <1>3

-----------------------------------------------------------------------------
(* Every method keeps the books *)

AllClosed(tr) == \A i \in DOMAIN tr : tr[i].closed

LEMMA SameBooksOK ==
  ASSUME NEW b, NEW c \in Broker, NEW tr, NEW lv, NEW n,
         BookOK(b, tr, lv, n), SameBooks(b, c)
  PROVE  BookOK(c, tr, lv, n)
BY DEF BookOK, SameBooks, Ledgers

\* Marking a bar, after rolling its day.
LEMMA MarkBook ==
  ASSUME NEW b, NEW bar \in Bar, NEW tr, NEW lv, NEW n, BookOK(b, tr, lv, n)
  PROVE  LET m == MarkToMarket(b, bar)
             d == MarkToMarket(MaybeRollDay(b, bar), bar)
         IN  /\ BookOK(m, tr, lv, n) /\ SameBooks(b, m)
             /\ m.peak = Larger(Equity(m), b.peak)
             /\ BookOK(d, tr, lv, n) /\ SameBooks(b, d)
             /\ d.peak = Larger(Equity(d), b.peak)
<1> DEFINE r == MaybeRollDay(b, bar)
           m == MarkToMarket(b, bar)
           d == MarkToMarket(r, bar)
<1>1. b \in Broker
  BY DEF BookOK
<1>2. r \in Broker /\ SameBooks(b, r) /\ r.peak = b.peak
  BY <1>1, RollType
<1> HIDE DEF r, m, d
<1>3. m \in Broker /\ SameBooks(b, m) /\ m.peak = Larger(Equity(m), b.peak)
  BY <1>1, MarkType DEF m
<1>4. d \in Broker /\ SameBooks(r, d) /\ d.peak = Larger(Equity(d), r.peak)
  BY <1>2, MarkType DEF d
<1>5. SameBooks(b, d)
  BY <1>2, <1>4 DEF SameBooks
<1>6. BookOK(m, tr, lv, n) /\ BookOK(d, tr, lv, n)
  BY <1>3, <1>4, <1>5, SameBooksOK
<1> QED BY <1>2, <1>3, <1>4, <1>5, <1>6 DEF m, d, r

\* Closing all lots, or none.
LEMMA CloseBook ==
  ASSUME NEW b, NEW tr, NEW n, BookOK(b, tr, live, n), NEW bar \in Bar,
         NEW ids \in {{}, DOMAIN b.lots}
  PROVE  LET c == CloseLots(b, ids, bar)
             u == tr \o ClosedTrades(b, ids, bar)
         IN  /\ BookOK(c, u, Minus(live, ids), n)
             /\ DOMAIN c.lots = DOMAIN b.lots \ ids
             /\ c.peak = b.peak
             /\ AllClosed(tr) => AllClosed(u)
<1> DEFINE c == CloseLots(b, ids, bar)
           u == tr \o ClosedTrades(b, ids, bar)
<1>1. /\ b \in Broker /\ DOMAIN b.swaps = DOMAIN b.lots
      /\ Log(tr, DOMAIN b.lots, n) /\ tr \in Seq(Trade)
      /\ live \in [DOMAIN b.lots -> Nat]
      /\ \A id \in DOMAIN b.lots : b.lots[id].position.pair = Pair
      /\ Ledgers(b, tr)
  BY DEF BookOK, Log
<1>2. CASE ids = {}
  <2>1. ClosedTrades(b, ids, bar) = << >>
    <3>1. DOMAIN [id \in ids |-> ClosedTrade(b, id, bar)] = {}
      BY <1>2
    <3> HIDE DEF ClosedTrade
    <3> QED BY <3>1, InOrderOfOne DEF ClosedTrades
  <2>2. u = tr
    BY <1>1, <2>1, ConcatEmptySeq
  <2>3. Minus(live, ids) = live
    BY <1>1, <1>2, MinusAll
  <2>4. c \in Broker /\ SameBooks(b, c) /\ c.peak = b.peak
    BY <1>1, <1>2, CloseNone
  <2> HIDE DEF c, u
  <2>5. BookOK(c, tr, live, n)
    BY <2>4, SameBooksOK
  <2>6. DOMAIN c.lots = DOMAIN b.lots \ ids
    BY <1>2, <2>4 DEF SameBooks
  <2> QED BY <2>2, <2>3, <2>4, <2>5, <2>6 DEF c, u
<1>3. CASE ids # {}
  <2>1. PICK id \in Nat : DOMAIN b.lots = {id} /\ ids = {id}
    BY <1>1, <1>3, BrokerFields
  <2> DEFINE lot == b.lots[id]
             r   == ClosedTrade(b, id, bar)
             fee == CommissionFor(lot.position.size)
             pnl == ClosePnl(lot, bar)
  <2>2. /\ c \in Broker /\ DOMAIN c.lots = {} /\ DOMAIN c.swaps = {}
        /\ c.cash = b.cash + pnl - fee
        /\ c.costs.commission = b.costs.commission + fee
        /\ c.costs.swap = b.costs.swap /\ c.peak = b.peak
        /\ fee \in Nat /\ pnl \in Int
    <3>1. ids = DOMAIN b.lots
      BY <1>3
    <3>2. b \in Broker /\ DOMAIN b.swaps = DOMAIN b.lots /\ id \in Nat /\ DOMAIN b.lots = {id}
      BY <1>1, <2>1
    <3> DEFINE d == CloseLots(b, DOMAIN b.lots, bar)
    <3>3. d \in Broker /\ DOMAIN d.lots = {} /\ DOMAIN d.swaps = {} /\ d.peak = b.peak
      BY <3>2, CloseOne
    <3>4. d.cash = b.cash + pnl - fee
      BY <3>2, CloseOne
    <3>5. d.costs.commission = b.costs.commission + fee /\ d.costs.swap = b.costs.swap
      BY <3>2, CloseOne
    <3>6. fee \in Nat /\ pnl \in Int
      BY <3>2, CloseOne
    <3>7. c = d
      BY <3>1
    <3> HIDE DEF c, d, pnl, fee
    <3> QED BY <3>3, <3>4, <3>5, <3>6, <3>7
  <2>3. ClosedTrades(b, ids, bar) = <<r>>
    <3> DEFINE f == [i \in ids |-> ClosedTrade(b, i, bar)]
    <3>1. DOMAIN f = {id} /\ f[id] = r
      BY <2>1
    <3> HIDE DEF f, r
    <3>2. InOrder(f) = <<r>>
      BY <3>1, InOrderOfOne
    <3> QED BY <3>2 DEF f, ClosedTrades
  <2>4. /\ lot \in Lot /\ lot.position.direction \in Directions
        /\ lot.entryCommission \in Nat /\ b.swaps[id] \in Int /\ live[id] \in Nat
        /\ bar.time \in Nat
    BY <1>1, <2>1, BrokerFields, LotFields DEF Bar
  <2>5. /\ r = [id |-> id, direction |-> lot.position.direction, closed |-> TRUE,
                entryTime |-> live[id], exitTime |-> bar.time,
                commission |-> lot.entryCommission + fee,
                swap |-> b.swaps[id], pnl |-> pnl]
    BY DEF ClosedTrade
  <2> HIDE DEF r, lot, fee, pnl
  <2>6. lot.entryCommission + fee \in Nat
    BY <2>2, <2>4
  <2>7. r \in Trade
    BY <2>2, <2>4, <2>5, <2>6 DEF Trade
  <2>8. /\ r.id = id /\ r.closed = TRUE /\ r.commission = lot.entryCommission + fee
        /\ r.swap = b.swaps[id] /\ Brought(r) = pnl + b.swaps[id] - (lot.entryCommission + fee)
    BY <2>5 DEF Brought
  <2>9. /\ r.id \notin Recorded(tr) /\ Len(tr) = Cardinality(Recorded(tr))
        /\ Recorded(tr) \union {id} = 0 .. n - 1 /\ n \in Nat
    BY <1>1, <2>1, <2>8 DEF Log
  <2>10. u = tr \o <<r>>
    BY <2>3
  <2> HIDE DEF c, u
  <2>11. /\ u \in Seq(Trade) /\ Len(u) = Cardinality(Recorded(u))
         /\ Recorded(u) = Recorded(tr) \union {r.id}
         /\ BroughtBy(u) = BroughtBy(tr) + Brought(r)
         /\ CommissionsOf(u) = CommissionsOf(tr) + r.commission
         /\ SwapsOf(u) = SwapsOf(tr) + r.swap
         /\ Len(u) = Len(tr) + 1
         /\ \A i \in DOMAIN tr : u[i] = tr[i]
         /\ u[Len(u)] = r
    BY <1>1, <2>7, <2>9, <2>10, TradeRecorded
  <2>12. Log(u, DOMAIN c.lots, n)
    BY <2>2, <2>8, <2>9, <2>11 DEF Log
  <2>13. Ledgers(c, u)
    <3>1. /\ BroughtBy(tr) \in Int /\ CommissionsOf(tr) \in Int /\ SwapsOf(tr) \in Int
          /\ StartingBalance \in Int
      BY <1>1, LogSums, StartingBalanceAssumption
    <3>2. /\ b.cash = StartingBalance + BroughtBy(tr) + (b.swaps[id] - lot.entryCommission)
          /\ b.costs.commission = CommissionsOf(tr) + lot.entryCommission
          /\ b.costs.swap = SwapsOf(tr) + b.swaps[id]
      BY <1>1, <2>1 DEF Ledgers, lot
    <3>3. c.cash = StartingBalance + BroughtBy(u)
      <4>1. /\ c.cash = StartingBalance + BroughtBy(tr)
                          + (b.swaps[id] - lot.entryCommission) + pnl - fee
            /\ BroughtBy(u) = BroughtBy(tr)
                                + (pnl + b.swaps[id] - (lot.entryCommission + fee))
        BY <2>2, <2>8, <2>11, <3>2
      <4> QED BY <2>2, <2>4, <3>1, <4>1
    <3>4. c.costs.commission = CommissionsOf(u) /\ c.costs.swap = SwapsOf(u)
      BY <2>2, <2>4, <2>8, <2>11, <3>1, <3>2
    <3> QED BY <2>2, <3>3, <3>4 DEF Ledgers
  <2>14. Minus(live, ids) \in [DOMAIN c.lots -> Nat]
    BY <1>1, <2>1, <2>2 DEF Minus
  <2>15. BookOK(c, u, Minus(live, ids), n)
    BY <2>2, <2>12, <2>13, <2>14 DEF BookOK
  <2>16. AllClosed(tr) => AllClosed(u)
    <3>1. /\ DOMAIN tr = 1 .. Len(tr) /\ DOMAIN u = 1 .. Len(u) /\ Len(tr) \in Nat
      BY <1>1, <2>11, LenProperties
    <3>2. SUFFICES ASSUME AllClosed(tr), NEW i \in 1 .. Len(tr) + 1
                   PROVE  u[i].closed
      BY <2>11, <3>1 DEF AllClosed
    <3>3. CASE i \in 1 .. Len(tr)
      BY <2>11, <3>1, <3>2, <3>3 DEF AllClosed
    <3>4. CASE i = Len(u)
      BY <2>8, <2>11, <3>4
    <3> QED BY <2>11, <3>1, <3>3, <3>4
  <2> QED BY <2>1, <2>2, <2>15, <2>16 DEF c, u
<1> QED BY <1>2, <1>3

\* Opening a lot of the pair, of which there is none yet.
LEMMA OpenBook ==
  ASSUME NEW b, NEW tr, NEW lv, NEW n, BookOK(b, tr, lv, n), DOMAIN b.lots = {},
         NEW order \in OrderRequest, order.pair = Pair, NEW bar \in Bar,
         ~EntryRaises(order.direction, bar.open)
  PROVE  LET c == OpenAtNextOpen(b, order, bar, n)
         IN  /\ BookOK(c, tr, Plus(lv, n, bar.time), n + 1)
             /\ DOMAIN c.lots = {n} /\ c.peak = b.peak
<1> DEFINE c == OpenAtNextOpen(b, order, bar, n)
           fee == CommissionFor(order.size)
<1>1. /\ b \in Broker /\ DOMAIN b.swaps = {} /\ n \in Nat /\ tr \in Seq(Trade)
      /\ lv \in [{} -> Nat] /\ bar.time \in Nat
      /\ Len(tr) = Cardinality(Recorded(tr)) /\ Recorded(tr) = 0 .. n - 1
  BY DEF BookOK, Log, Bar
<1>2. /\ c \in Broker /\ DOMAIN c.lots = {n} /\ DOMAIN c.swaps = {n}
      /\ c.cash = b.cash - fee
      /\ c.costs.commission = b.costs.commission + fee
      /\ c.costs.swap = b.costs.swap
      /\ c.lots[n].entryCommission = fee /\ c.swaps[n] = 0
      /\ c.lots[n].position.pair = order.pair
      /\ c.peak = b.peak /\ fee \in Nat
  BY <1>1, OpenOne
<1> HIDE DEF c, fee
<1>3. Log(tr, DOMAIN c.lots, n + 1)
  <2>1. (0 .. n - 1) \union {n} = 0 .. (n + 1) - 1 /\ (0 .. n - 1) \intersect {n} = {}
    BY <1>1
  <2> QED BY <1>1, <1>2, <2>1 DEF Log
<1>4. Ledgers(c, tr)
  <2>1. /\ b.cash = StartingBalance + BroughtBy(tr)
        /\ b.costs.commission = CommissionsOf(tr) /\ b.costs.swap = SwapsOf(tr)
    BY DEF BookOK, Ledgers
  <2>2. /\ BroughtBy(tr) \in Int /\ SwapsOf(tr) \in Int /\ StartingBalance \in Int
    BY <1>1, LogSums, StartingBalanceAssumption
  <2>3. /\ c.cash = StartingBalance + BroughtBy(tr) + (c.swaps[n] - c.lots[n].entryCommission)
        /\ c.costs.commission = CommissionsOf(tr) + c.lots[n].entryCommission
        /\ c.costs.swap = SwapsOf(tr) + c.swaps[n]
    BY <1>2, <2>1, <2>2
  <2> QED BY <1>2, <2>3 DEF Ledgers
<1>5. Plus(lv, n, bar.time) \in [DOMAIN c.lots -> Nat]
  BY <1>1, <1>2 DEF Plus
<1>6. BookOK(c, tr, Plus(lv, n, bar.time), n + 1)
  BY <1>2, <1>3, <1>4, <1>5 DEF BookOK
<1> QED BY <1>2, <1>6 DEF c

\* Charging the swap of a night.
LEMMA SwapBook ==
  ASSUME NEW b, NEW tr, NEW lv, NEW n, BookOK(b, tr, lv, n),
         NEW current \in Bar, NEW next \in Bar
  PROVE  LET c == ApplySwapIfRollover(b, current, next)
         IN  BookOK(c, tr, lv, n) /\ c.lots = b.lots /\ c.peak = b.peak
<1> DEFINE c == ApplySwapIfRollover(b, current, next)
<1>1. b \in Broker /\ DOMAIN b.swaps = DOMAIN b.lots /\ Ledgers(b, tr) /\ tr \in Seq(Trade)
  BY DEF BookOK, Log
<1>2. /\ c \in Broker /\ c.lots = b.lots /\ DOMAIN c.swaps = DOMAIN b.lots
      /\ c.peak = b.peak
      /\ DOMAIN b.lots = {} => c.cash = b.cash /\ c.costs = b.costs
      /\ \A id \in Nat : DOMAIN b.lots = {id} =>
           /\ \E q \in Int : /\ c.cash = b.cash + q
                             /\ c.swaps[id] = b.swaps[id] + q
                             /\ c.costs.swap = b.costs.swap + q
           /\ c.costs.commission = b.costs.commission
  BY <1>1, SwapOne
<1> HIDE DEF c
<1>3. Ledgers(c, tr)
  <2>1. CASE DOMAIN b.lots = {}
    BY <1>1, <1>2, <2>1 DEF Ledgers
  <2>2. CASE DOMAIN b.lots # {}
    <3>1. PICK id \in Nat : DOMAIN b.lots = {id} /\ b.lots[id] \in Lot
      BY <1>1, <2>2, BrokerFields
    <3>2. PICK q \in Int : /\ c.cash = b.cash + q
                           /\ c.swaps[id] = b.swaps[id] + q
                           /\ c.costs.swap = b.costs.swap + q
      BY <1>2, <3>1
    <3>3. /\ b.swaps[id] \in Int /\ b.lots[id].entryCommission \in Int
          /\ BroughtBy(tr) \in Int /\ SwapsOf(tr) \in Int /\ StartingBalance \in Int
      BY <1>1, <3>1, BrokerFields, LotFields, LogSums, StartingBalanceAssumption
    <3>4. /\ b.cash = StartingBalance + BroughtBy(tr)
                        + (b.swaps[id] - b.lots[id].entryCommission)
          /\ b.costs.commission = CommissionsOf(tr) + b.lots[id].entryCommission
          /\ b.costs.swap = SwapsOf(tr) + b.swaps[id]
      BY <1>1, <3>1 DEF Ledgers
    <3>5. /\ c.cash = StartingBalance + BroughtBy(tr)
                        + (c.swaps[id] - c.lots[id].entryCommission)
          /\ c.costs.commission = CommissionsOf(tr) + c.lots[id].entryCommission
          /\ c.costs.swap = SwapsOf(tr) + c.swaps[id]
      BY <1>2, <3>1, <3>2, <3>3, <3>4
    <3> QED BY <1>2, <3>1, <3>5 DEF Ledgers
  <2> QED BY <2>1, <2>2
<1>4. BookOK(c, tr, lv, n)
  BY <1>2, <1>3 DEF BookOK
<1> QED BY <1>2, <1>4 DEF c

-----------------------------------------------------------------------------
(* Limits, snapshots and the gate *)

LEMMA LimitsType ==
  /\ MaxDrawdownPct \in 1 .. 100 /\ DailyLossLimitPct \in 1 .. 100
  /\ MaxRiskPerTradePct \in 1 .. 100
BY RiskConfigAssumption

\* A loss that reaches a cap since a high reaches it since any higher one.
LEMMA LossGrows ==
  ASSUME NEW low \in Int, NEW high \in Int, low <= high, NEW equity \in Int,
         NEW pct \in 1 .. 100, LossAtLeast(low, equity, pct)
  PROVE  LossAtLeast(high, equity, pct)
<1>1. equity < low /\ (equity <= 0 \/ 100 * (low - equity) >= pct * low)
  BY DEF LossAtLeast
<1>2. CASE equity <= 0
  BY <1>1, <1>2 DEF LossAtLeast
<1>3. CASE 100 * (low - equity) >= pct * low
  <2> DEFINE more == high - low
  <2>1. more \in Nat /\ high = low + more
    OBVIOUS
  <2> HIDE DEF more
  <2>2. pct * more <= 100 * more /\ pct * (low + more) = pct * low + pct * more
    BY <2>1
  <2>3. pct * low \in Int /\ pct * more \in Int
    BY <2>1
  <2>4. 100 * (high - equity) >= pct * high
    BY <1>3, <2>1, <2>2, <2>3
  <2> QED BY <1>1, <2>4 DEF LossAtLeast
<1> QED BY <1>1, <1>2, <1>3

\* The snapshot of a broker is an account the gates can judge.
LEMMA SnapshotType ==
  ASSUME NEW b \in Broker
  PROVE  /\ Snapshot(b) \in AccountState
         /\ Snapshot(b).equity = Equity(b)
         /\ Snapshot(b).peak = b.peak /\ Snapshot(b).dayStart = b.dayStart
<1> DEFINE held == [id \in DOMAIN b.lots |-> b.lots[id].position]
<1>1. InOrder(held) \in Seq(Position)
  <2>1. CASE DOMAIN b.lots = {}
    <3>1. DOMAIN held = {}
      BY <2>1
    <3> HIDE DEF held
    <3>2. InOrder(held) = << >>
      BY <3>1, InOrderOfOne
    <3> QED BY <3>2
  <2>2. CASE DOMAIN b.lots # {}
    <3>1. PICK id \in Nat : DOMAIN b.lots = {id} /\ b.lots[id] \in Lot
      BY <2>2, BrokerFields
    <3>2. DOMAIN held = {id} /\ held[id] \in Position
      BY <3>1, LotFields
    <3> HIDE DEF held
    <3>3. InOrder(held) = <<held[id]>>
      BY <3>2, InOrderOfOne
    <3> HIDE DEF Position
    <3> QED BY <3>2, <3>3
  <2> QED BY <2>1, <2>2
<1>2. Equity(b) \in Int /\ b.peak \in Nat \ {0} /\ b.dayStart \in Nat \ {0}
  BY EquityType, BrokerFields
<1> HIDE DEF held
<1>3. Snapshot(b) = [equity |-> Equity(b), open |-> InOrder(held),
                     peak |-> b.peak, dayStart |-> b.dayStart]
  BY DEF Snapshot, held
<1> HIDE DEF Position
<1> QED BY <1>1, <1>2, <1>3 DEF AccountState

\* An order that the gates let through keeps its pair and its sides, has a size,
\* and finds the account within both loss limits.
LEMMA AcceptedOrder ==
  ASSUME NEW o \in OrderRequest, NEW a \in AccountState, Accepts(o, a)
  PROVE  /\ Sized(o, a) \in OrderRequest /\ Sized(o, a).pair = o.pair
         /\ ~Engaged
         /\ ~LossAtLeast(a.peak, a.equity, MaxDrawdownPct)
         /\ ~LossAtLeast(a.dayStart, a.equity, DailyLossLimitPct)
<1> DEFINE s == Sized(o, a)
<1>1. \A i \in 1 .. 10 : ~Fails(Gates[i], o, a)
  BY DEF Accepts, Gates
<1>2. /\ Gates[1] = "kill_switch" /\ Gates[2] = "stop_distance" /\ Gates[3] = "equity"
      /\ Gates[4] = "drawdown" /\ Gates[5] = "daily_loss" /\ Gates[7] = "per_trade"
  BY DEF Gates
<1>3. /\ ~Fails("kill_switch", o, a) /\ ~Fails("stop_distance", o, a)
      /\ ~Fails("equity", o, a) /\ ~Fails("drawdown", o, a)
      /\ ~Fails("daily_loss", o, a) /\ ~Fails("per_trade", o, a)
  BY <1>1, <1>2
<1>4. /\ ~Engaged /\ ~(a.equity <= 0) /\ ~(s.size <= 0)
      /\ ~(StopDistance(o) <= 0)
      /\ ~LossAtLeast(a.peak, a.equity, MaxDrawdownPct)
      /\ ~LossAtLeast(a.dayStart, a.equity, DailyLossLimitPct)
  BY <1>3 DEF Fails
<1>5. s \in OrderRequest /\ s.pair = o.pair
  <2>1. StopDistance(o) \in Nat
    BY DEF OrderRequest, StopDistance, Abs
  <2>2. a.equity \in Nat /\ a.equity > 0 /\ StopDistance(o) > 0
    BY <1>4, <2>1 DEF AccountState
  <2> DEFINE x == MaxRiskPerTradePct * a.equity
             y == 100 * StopDistance(o)
             c == RoundedQuotient(x, y)
  <2>3. s = o \/ s = [o EXCEPT !.size = c]
    BY DEF Sized, CappedSize
  <2>4. x \in Nat /\ y \in Nat /\ y > 0
    BY <2>1, <2>2, LimitsType
  <2> HIDE DEF x, y
  <2>5. c \in Nat
    BY <2>4, RoundedQuotientBounds
  <2> HIDE DEF c, s
  <2>6. CASE s = o
    BY <2>6
  <2>7. CASE s = [o EXCEPT !.size = c]
    <3>1. s.size = c
      BY <2>7 DEF OrderRequest
    <3>2. c \in Nat \ {0}
      BY <1>4, <2>5, <3>1
    <3> QED BY <2>7, <3>2 DEF OrderRequest
  <2> QED BY <2>3, <2>6, <2>7
<1> QED BY <1>4, <1>5

-----------------------------------------------------------------------------
(***************************************************************************)
(* The inductive invariant.                                                *)
(***************************************************************************)
SampleOf == [bar: Nat, equity: Int, positions: Nat]

\* Sample i of the curve c has lost the drawdown cap since some high before it.
BreachIn(c, i) ==
  \E high \in {StartingBalance} \union {c[k].equity : k \in 1 .. i} :
     LossAtLeast(high, c[i].equity, MaxDrawdownPct)

Breaches(c) == {i \in DOMAIN c : BreachIn(c, i)}

\* The peak of the broker is at or above the starting balance and every sample.
Peaks(c, peak) ==
  StartingBalance <= peak /\ \A i \in DOMAIN c : c[i].equity <= peak

Data ==
  /\ TypeOK
  /\ broker \in Broker
  /\ signals \in Seq(OrderRequest)
  /\ counts \in [proposed: Nat, accepted: Nat, rejected: Nat]
  /\ curve \in Seq(SampleOf)

\* A run that is still trading is not halted, and judges the account it has.
Trading ==
  /\ phase \in {"bar", "signals"} => killSwitch = Clear /\ haltedAt = None
  /\ phase = "signals" => account = Snapshot(broker)
  /\ haltedAt # None => DOMAIN broker.lots = {}

Books ==
  /\ phase # "done" => BookOK(broker, trades, live, tradeSeq) /\ AllClosed(trades)
  /\ phase = "done" => EveryTradeRecorded /\ Reconciles

\* While bars are traded no sample breaches the cap; the one that ends it is the
\* last, of the bar at which the run stops.
Highs ==
  /\ Peaks(curve, broker.peak)
  /\ phase \in {"bar", "signals"} => Breaches(curve) = {}
  /\ phase = "final" =>
       \A i \in Breaches(curve) : i = Len(curve) /\ curve[i].bar = t
  /\ phase = "done" => curve # << >>
  /\ BreachEndsRun

EngineInv == Data /\ Trading /\ Books /\ Highs

-----------------------------------------------------------------------------
(* The equity curve and its highs *)

LEMMA HistoryBars ==
  ASSUME NEW h \in Histories
  PROVE  /\ h \in Seq(Bar) /\ Len(h) \in Nat /\ Len(h) >= 2
         /\ \A i \in 1 .. Len(h) : h[i] \in Bar
BY BacktestAssumption, LenProperties, ElementOfSeq

LEMMA SampleType ==
  ASSUME NEW b \in Broker, NEW i \in Nat
  PROVE  Sample(i, b) \in SampleOf /\ Sample(i, b).bar = i /\ Sample(i, b).equity = Equity(b)
<1>1. Cardinality(DOMAIN b.lots) \in Nat
  <2>1. CASE DOMAIN b.lots = {}
    BY <2>1, FS_EmptySet
  <2>2. CASE DOMAIN b.lots # {}
    <3>1. PICK id \in Nat : DOMAIN b.lots = {id}
      BY <2>2, BrokerFields
    <3>2. Cardinality({id}) = 1
      BY FS_Singleton
    <3> QED BY <3>1, <3>2
  <2> QED BY <2>1, <2>2
<1>2. Equity(b) \in Int
  BY EquityType
<1> QED BY <1>1, <1>2 DEF Sample, SampleOf

\* A breach seen from any high is seen from the peak.
LEMMA PeakSeesBreach ==
  ASSUME NEW c \in Seq(SampleOf), NEW peak \in Int, Peaks(c, peak),
         NEW i \in Breaches(c)
  PROVE  LossAtLeast(peak, c[i].equity, MaxDrawdownPct)
<1>1. /\ i \in DOMAIN c /\ DOMAIN c = 1 .. Len(c) /\ Len(c) \in Nat
      /\ \A k \in DOMAIN c : c[k].equity \in Int
  <2>1. DOMAIN c = 1 .. Len(c) /\ Len(c) \in Nat /\ \A k \in 1 .. Len(c) : c[k] \in SampleOf
    BY LenProperties, ElementOfSeq
  <2> QED BY <2>1 DEF Breaches, SampleOf
<1>2. PICK high \in {StartingBalance} \union {c[k].equity : k \in 1 .. i} :
        LossAtLeast(high, c[i].equity, MaxDrawdownPct)
  BY DEF Breaches, BreachIn
<1>3. StartingBalance \in Int
  BY StartingBalanceAssumption
<1>4. high \in Int /\ high <= peak
  BY <1>1, <1>2, <1>3 DEF Peaks
<1> QED BY <1>1, <1>2, <1>4, LossGrows, LimitsType

\* One more sample, taken of a broker whose peak has seen it.
LEMMA CurveGrows ==
  ASSUME NEW c \in Seq(SampleOf), NEW old \in Int, Peaks(c, old),
         NEW b \in Broker, b.peak = Larger(Equity(b), old), NEW i \in Nat
  PROVE  LET u == Append(c, Sample(i, b))
         IN  /\ u \in Seq(SampleOf) /\ Len(u) = Len(c) + 1
             /\ Peaks(u, b.peak)
             /\ u[Len(u)].bar = i
             /\ \A k \in DOMAIN c : k \in DOMAIN u /\ u[k] = c[k]
             /\ \A k \in Breaches(u) : k = Len(u) \/ k \in Breaches(c)
             /\ ~LossAtLeast(b.peak, Equity(b), MaxDrawdownPct) => Len(u) \notin Breaches(u)
<1> DEFINE s == Sample(i, b)
           u == Append(c, s)
           n == Len(c)
<1>1. s \in SampleOf /\ s.bar = i /\ s.equity = Equity(b) /\ Equity(b) \in Int
  BY SampleType, EquityType
<1>2. n \in Nat /\ DOMAIN c = 1 .. n /\ \A k \in 1 .. n : c[k] \in SampleOf
  BY LenProperties, ElementOfSeq
<1> HIDE DEF s
<1>3. /\ u \in Seq(SampleOf) /\ Len(u) = n + 1 /\ u[n + 1] = s
      /\ \A k \in 1 .. n : u[k] = c[k]
  BY <1>1, AppendProperties
<1> HIDE DEF u, n
<1>4. DOMAIN u = 1 .. n + 1
  BY <1>3, LenProperties
<1>5. Peaks(u, b.peak)
  <2>1. StartingBalance \in Int /\ b.peak \in Int
    BY StartingBalanceAssumption, BrokerFields
  <2>2. b.peak >= old /\ b.peak >= Equity(b)
    BY <1>1 DEF Larger
  <2>3. \A k \in 1 .. n : c[k].equity \in Int /\ c[k].equity <= old
    BY <1>2 DEF Peaks, SampleOf
  <2>4. ASSUME NEW k \in 1 .. n + 1
        PROVE  u[k].equity <= b.peak
    <3>1. CASE k \in 1 .. n
      BY <1>3, <2>1, <2>2, <2>3, <3>1
    <3>2. CASE k = n + 1
      BY <1>1, <1>3, <2>2, <3>2
    <3> QED BY <1>2, <3>1, <3>2
  <2> QED BY <1>4, <2>1, <2>2, <2>4 DEF Peaks
<1>6. ASSUME NEW k \in Breaches(u), k # n + 1
      PROVE  k \in Breaches(c)
  <2>1. k \in 1 .. n /\ BreachIn(u, k)
    BY <1>2, <1>4, <1>6 DEF Breaches
  <2>2. PICK high \in {StartingBalance} \union {u[j].equity : j \in 1 .. k} :
          LossAtLeast(high, u[k].equity, MaxDrawdownPct)
    BY <2>1 DEF BreachIn
  <2>3. \A j \in 1 .. k : u[j] = c[j]
    BY <1>2, <1>3, <2>1
  <2>4. u[k] = c[k] /\ high \in {StartingBalance} \union {c[j].equity : j \in 1 .. k}
    BY <1>3, <2>1, <2>2, <2>3
  <2> QED BY <1>2, <2>1, <2>2, <2>4 DEF Breaches, BreachIn
<1>7. ASSUME n + 1 \in Breaches(u)
      PROVE  LossAtLeast(b.peak, Equity(b), MaxDrawdownPct)
  <2>1. b.peak \in Int
    BY BrokerFields
  <2>2. LossAtLeast(b.peak, u[n + 1].equity, MaxDrawdownPct)
    BY <1>3, <1>5, <1>7, <2>1, PeakSeesBreach
  <2> QED BY <1>1, <1>3, <2>2
<1> QED BY <1>1, <1>2, <1>3, <1>4, <1>5, <1>6, <1>7 DEF u, n, s

-----------------------------------------------------------------------------
(* What the actions share *)

\* The broker of a bar once it is rolled and marked, and the sample taken of it.
LEMMA MarkedFacts ==
  ASSUME EngineInv, phase = "bar"
  PROVE  LET b   == MarkedBroker
             acc == Snapshot(b)
             u   == Append(curve, Sample(t, b))
         IN  /\ Current \in Bar /\ NextBar \in Bar /\ t \in Nat
             /\ BookOK(b, trades, live, tradeSeq) /\ b.lots = broker.lots
             /\ acc \in AccountState
             /\ u \in Seq(SampleOf) /\ Peaks(u, b.peak)
             /\ \A k \in Breaches(u) : k = Len(u) /\ u[k].bar = t
             /\ AfterDefensiveCheck(acc) \in Causes \union {Clear}
             /\ AfterDefensiveCheck(acc) = Clear => Breaches(u) = {}
<1> DEFINE b   == MarkedBroker
           acc == Snapshot(b)
           u   == Append(curve, Sample(t, b))
<1>1. /\ bars \in Histories /\ t \in 1 .. Len(bars) /\ t < Len(bars)
      /\ broker \in Broker /\ curve \in Seq(SampleOf)
      /\ BookOK(broker, trades, live, tradeSeq)
      /\ Peaks(curve, broker.peak) /\ Breaches(curve) = {} /\ killSwitch = Clear
  BY DEF EngineInv, Data, TypeOK, Trading, Books, Highs
<1>2. t \in Nat /\ Current \in Bar /\ NextBar \in Bar
  BY <1>1, HistoryBars DEF Current, NextBar
<1>3. /\ BookOK(b, trades, live, tradeSeq) /\ SameBooks(broker, b)
      /\ b.peak = Larger(Equity(b), broker.peak)
  BY <1>1, <1>2, MarkBook DEF MarkedBroker
<1> HIDE DEF b
<1>4. b \in Broker /\ broker.peak \in Int
  BY <1>1, <1>3, BrokerFields DEF BookOK
<1>5. /\ u \in Seq(SampleOf) /\ Len(u) = Len(curve) + 1 /\ Peaks(u, b.peak)
      /\ u[Len(u)].bar = t
      /\ \A k \in Breaches(u) : k = Len(u) \/ k \in Breaches(curve)
      /\ ~LossAtLeast(b.peak, Equity(b), MaxDrawdownPct) => Len(u) \notin Breaches(u)
  BY <1>1, <1>2, <1>3, <1>4, CurveGrows
<1>6. acc \in AccountState /\ acc.equity = Equity(b) /\ acc.peak = b.peak
  BY <1>4, SnapshotType
<1> HIDE DEF u, acc
<1>7. AfterDefensiveCheck(acc) \in Causes \union {Clear}
  BY <1>1 DEF AfterDefensiveCheck, Tripped, Engaged, Causes
<1>8. AfterDefensiveCheck(acc) = Clear => ~LossAtLeast(b.peak, Equity(b), MaxDrawdownPct)
  BY <1>1, <1>6 DEF AfterDefensiveCheck, Tripped, Engaged, Clear
<1>9. b.lots = broker.lots
  BY <1>3 DEF SameBooks
<1> QED BY <1>1, <1>2, <1>3, <1>5, <1>6, <1>7, <1>8, <1>9 DEF b, acc, u

\* Flattening closes the books of every lot.
LEMMA HaltBook ==
  ASSUME NEW b, NEW switch, BookOK(b, trades, live, tradeSeq), AllClosed(trades),
         NextBar \in Bar, HaltAndFlatten(b, switch)
  PROVE  /\ BookOK(broker', trades', live', tradeSeq) /\ AllClosed(trades')
         /\ DOMAIN broker'.lots = {} /\ broker'.peak = b.peak
         /\ phase' = "final" /\ haltedAt' = t /\ killSwitch' = switch
<1> DEFINE c == CloseLots(b, DOMAIN b.lots, NextBar)
           u == trades \o ClosedTrades(b, DOMAIN b.lots, NextBar)
<1>1. /\ broker' = c /\ trades' = u /\ live' = Minus(live, DOMAIN b.lots)
      /\ phase' = "final" /\ haltedAt' = t /\ killSwitch' = switch
  BY DEF HaltAndFlatten
<1>2. /\ BookOK(c, u, Minus(live, DOMAIN b.lots), tradeSeq)
      /\ DOMAIN c.lots = DOMAIN b.lots \ DOMAIN b.lots
      /\ c.peak = b.peak
      /\ AllClosed(trades) => AllClosed(u)
  <2>1. DOMAIN b.lots \in {{}, DOMAIN b.lots}
    OBVIOUS
  <2> HIDE DEF NextBar
  <2> QED BY <2>1, CloseBook
<1> HIDE DEF c, u
<1>3. BookOK(broker', trades', live', tradeSeq) /\ broker'.peak = b.peak
  BY <1>1, <1>2
<1>4. DOMAIN broker'.lots = {} /\ AllClosed(trades')
  BY <1>1, <1>2
<1> QED BY <1>1, <1>3, <1>4

\* A signal is counted as it is looked at.
LEMMA SignalCounted ==
  ASSUME Data, signals # << >>, signals' = Tail(signals),
         Count("accepted") \/ Count("rejected")
  PROVE  /\ counts' \in [proposed: Nat, accepted: Nat, rejected: Nat]
         /\ signals' \in Seq(OrderRequest)
         /\ counts'.accepted + counts'.rejected + Len(signals') <= counts'.proposed
<1>1. /\ counts \in [proposed: Nat, accepted: Nat, rejected: Nat]
      /\ signals \in Seq(OrderRequest)
      /\ counts.accepted + counts.rejected + Len(signals) <= counts.proposed
  BY DEF Data, TypeOK
<1> HIDE DEF OrderRequest
<1>2. signals' \in Seq(OrderRequest) /\ Len(signals') = Len(signals) - 1
  BY <1>1, HeadTailProperties
<1>3. Len(signals) \in Nat
  BY <1>1, LenProperties
<1>4. /\ counts' \in [proposed: Nat, accepted: Nat, rejected: Nat]
      /\ counts'.proposed = counts.proposed
      /\ counts'.accepted + counts'.rejected = counts.accepted + counts.rejected + 1
  <2>1. CASE Count("accepted")
    BY <1>1, <2>1 DEF Count
  <2>2. CASE Count("rejected")
    BY <1>1, <2>2 DEF Count
  <2> QED BY <2>1, <2>2
<1>5. /\ counts.accepted \in Nat /\ counts.rejected \in Nat /\ counts.proposed \in Nat
      /\ counts'.accepted \in Nat /\ counts'.rejected \in Nat
  BY <1>1, <1>4
<1> QED BY <1>1, <1>2, <1>3, <1>4, <1>5

LEMMA InitStep == Init => EngineInv
<1> SUFFICES ASSUME Init PROVE EngineInv
  OBVIOUS
<1>1. /\ bars \in Histories /\ killSwitch = Clear /\ t = 1 /\ phase = "bar"
      /\ broker = NewBroker /\ account = None /\ signals = << >> /\ live = NoEntries
      /\ trades = << >> /\ tradeSeq = 0
      /\ counts = [proposed |-> 0, accepted |-> 0, rejected |-> 0]
      /\ haltedAt = None /\ curve = << >>
  BY DEF Init
<1>2. StartingBalance \in Nat \ {0} /\ {} \in AtMostOne
  BY StartingBalanceAssumption DEF AtMostOne
<1>3. /\ NewBroker \in Broker
      /\ NewBroker.lots = NoEntries /\ NewBroker.swaps = NoEntries
      /\ NewBroker.cash = StartingBalance /\ NewBroker.peak = StartingBalance
      /\ NewBroker.costs = NoCosts
  <2>1. NoEntries \in [{} -> Lot] /\ NoEntries \in [{} -> Int]
    BY DEF NoEntries
  <2>2. /\ NoEntries \in UNION {[R -> Lot] : R \in AtMostOne}
        /\ NoEntries \in UNION {[R -> Int] : R \in AtMostOne}
    BY <1>2, <2>1
  <2>3. NoCosts \in Breakdown
    BY DEF NoCosts, Breakdown
  <2> HIDE DEF NoEntries, NoCosts
  <2> QED BY <1>2, <2>2, <2>3 DEF NewBroker, Broker
<1>4. DOMAIN NoEntries = {} /\ NoEntries \in [{} -> Nat]
  BY DEF NoEntries
<1>5. Data
  <2>1. t \in 1 .. Len(bars) /\ t < Len(bars)
    BY <1>1, HistoryBars
  <2>2. broker.dayStart > 0
    BY <1>1, <1>2 DEF NewBroker
  <2>3. << >> \in Seq(OrderRequest) /\ << >> \in Seq(SampleOf) /\ Len(<< >>) = 0
    BY EmptySeq
  <2>4. /\ broker \in Broker /\ broker.peak >= StartingBalance
        /\ DOMAIN broker.lots = {}
    BY <1>1, <1>2, <1>3, <1>4
  <2>5. counts.accepted + counts.rejected + Len(signals) <= counts.proposed
    BY <1>1, <2>3
  <2>6. TypeOK
    BY <1>1, <2>1, <2>2, <2>4, <2>5 DEF TypeOK, KillSwitchTypeOK, Phases
  <2> QED BY <1>1, <2>3, <2>4, <2>6 DEF Data
<1>6. Trading
  BY <1>1 DEF Trading
<1>7. Books
  <2>1. Recorded(<< >>) = {} /\ << >> \in Seq(Trade)
    BY EmptySeq DEF Recorded
  <2>2. Log(<< >>, {}, 0)
    <3>1. Cardinality({}) = 0 /\ 0 .. 0 - 1 = {} /\ Len(<< >>) = 0
      BY FS_EmptySet
    <3> QED BY <2>1, <3>1 DEF Log
  <2>3. Ledgers(NewBroker, << >>)
    <3>1. BroughtBy(<< >>) = 0 /\ CommissionsOf(<< >>) = 0 /\ SwapsOf(<< >>) = 0
      BY TotalEmpty DEF BroughtBy, CommissionsOf, SwapsOf
    <3>2. DOMAIN NewBroker.lots = {} /\ NewBroker.costs.commission = 0
          /\ NewBroker.costs.swap = 0
      BY <1>3, <1>4 DEF NoCosts
    <3> QED BY <1>2, <1>3, <3>1, <3>2 DEF Ledgers
  <2>4. BookOK(NewBroker, << >>, NoEntries, 0)
    BY <1>3, <1>4, <2>2, <2>3 DEF BookOK
  <2> QED BY <1>1, <2>4 DEF Books, AllClosed
<1>8. Highs
  <2>1. DOMAIN curve = {} /\ broker.peak = StartingBalance
    BY <1>1, <1>3
  <2> QED BY <1>1, <1>2, <2>1 DEF Highs, Peaks, Breaches, BreachEndsRun
<1> QED BY <1>5, <1>6, <1>7, <1>8 DEF EngineInv

\* A run that raises leaves everything as it was, but for its phase.
LEMMA RaiseStep ==
  ASSUME EngineInv, phase # "done", Raise
  PROVE  EngineInv'
<1>1. /\ phase' = "raised" /\ killSwitch' = killSwitch /\ bars' = bars /\ t' = t
      /\ broker' = broker /\ account' = account /\ signals' = signals /\ live' = live
      /\ trades' = trades /\ tradeSeq' = tradeSeq /\ counts' = counts
      /\ haltedAt' = haltedAt /\ curve' = curve
  BY DEF Raise
<1>2. Data'
  BY <1>1 DEF EngineInv, Data, TypeOK, KillSwitchTypeOK, Phases
<1>3. Trading'
  BY <1>1 DEF EngineInv, Trading
<1>4. Books'
  BY <1>1 DEF EngineInv, Books
<1>5. Highs'
  BY <1>1 DEF EngineInv, Highs, BreachEndsRun, HighsUpTo
<1> QED BY <1>2, <1>3, <1>4, <1>5 DEF EngineInv

LEMMA StutterStep ==
  ASSUME EngineInv, UNCHANGED vars
  PROVE  EngineInv'
<1>1. /\ phase' = phase /\ killSwitch' = killSwitch /\ bars' = bars /\ t' = t
      /\ broker' = broker /\ account' = account /\ signals' = signals /\ live' = live
      /\ trades' = trades /\ tradeSeq' = tradeSeq /\ counts' = counts
      /\ haltedAt' = haltedAt /\ curve' = curve
  BY DEF vars
<1>2. Data'
  BY <1>1 DEF EngineInv, Data, TypeOK, KillSwitchTypeOK
<1>3. Trading'
  BY <1>1 DEF EngineInv, Trading
<1>4. Books'
  <2>1. EveryTradeRecorded => EveryTradeRecorded'
    BY <1>1 DEF EveryTradeRecorded
  <2>2. Reconciles => Reconciles'
    BY <1>1 DEF Reconciles, StillOpen, BroughtOpen
  <2> QED BY <1>1, <2>1, <2>2 DEF EngineInv, Books
<1>5. Highs'
  <2>1. BreachEndsRun'
    BY <1>1 DEF EngineInv, Highs, BreachEndsRun, HighsUpTo
  <2> QED BY <1>1, <2>1 DEF EngineInv, Highs
<1> QED BY <1>2, <1>3, <1>4, <1>5 DEF EngineInv

\* If only the last sample breaches the cap, no sample follows one that does.
LEMMA NothingAfterBreach ==
  ASSUME NEW c \in Seq(SampleOf), \A k \in Breaches(c) : k = Len(c)
  PROVE  \A i, j \in DOMAIN c : i < j => ~BreachIn(c, i)
<1>1. DOMAIN c = 1 .. Len(c) /\ Len(c) \in Nat
  BY LenProperties
<1> QED BY <1>1 DEF Breaches

-----------------------------------------------------------------------------
(* The actions of a bar *)

\* A bar that halts the run, for the switch or for a strategy that raised.
LEMMA BarHalts ==
  ASSUME EngineInv, phase = "bar", NEW switch, switch \in Causes \union {Clear},
         curve' = Append(curve, Sample(t, MarkedBroker)),
         account' = Snapshot(MarkedBroker),
         HaltAndFlatten(MarkedBroker, switch),
         UNCHANGED <<bars, t, signals, tradeSeq, counts>>
  PROVE  EngineInv'
<1> DEFINE b == MarkedBroker
           u == Append(curve, Sample(t, b))
<1>1. /\ NextBar \in Bar /\ t \in Nat /\ BookOK(b, trades, live, tradeSeq)
      /\ Snapshot(b) \in AccountState
      /\ u \in Seq(SampleOf) /\ Peaks(u, b.peak)
      /\ \A k \in Breaches(u) : k = Len(u) /\ u[k].bar = t
  BY MarkedFacts
<1> HIDE DEF u, b
<1>2. AllClosed(trades) /\ t \in 1 .. Len(bars) /\ t < Len(bars) /\ bars \in Histories
  BY DEF EngineInv, Books, Data, TypeOK
<1>3. /\ BookOK(broker', trades', live', tradeSeq) /\ AllClosed(trades')
      /\ DOMAIN broker'.lots = {} /\ broker'.peak = b.peak
      /\ phase' = "final" /\ haltedAt' = t /\ killSwitch' = switch
  BY <1>1, <1>2, HaltBook DEF b
<1>4. curve' = u /\ account' \in AccountState /\ tradeSeq' = tradeSeq /\ t' = t /\ bars' = bars
  BY <1>1 DEF u, b
<1>5. /\ broker' \in Broker /\ broker'.dayStart > 0 /\ broker'.peak >= StartingBalance
      /\ tradeSeq' \in Nat
  BY <1>1, <1>3, <1>4, BrokerFields, StartingBalanceAssumption DEF BookOK, Log, Peaks
<1>6. Data'
  <2>1. haltedAt' \in 1 .. Len(bars') - 1 \union {None}
    BY <1>2, <1>3, <1>4, HistoryBars
  <2>2. counts'.accepted + counts'.rejected + Len(signals') <= counts'.proposed
    BY DEF EngineInv, Data, TypeOK
  <2>3. TypeOK'
    BY <1>2, <1>3, <1>4, <1>5, <2>1, <2>2 DEF TypeOK, KillSwitchTypeOK, Phases
  <2> QED BY <1>1, <1>4, <1>5, <2>3 DEF EngineInv, Data
<1>7. Trading'
  BY <1>3 DEF Trading
<1>8. Books'
  BY <1>3, <1>4 DEF Books
<1>9. Highs'
  <2>1. BreachEndsRun'
    BY <1>1, <1>4, NothingAfterBreach DEF BreachEndsRun, HighsUpTo, BreachIn
  <2> QED BY <1>1, <1>3, <1>4, <2>1 DEF Highs
<1> QED BY <1>6, <1>7, <1>8, <1>9 DEF EngineInv

LEMMA StartBarStep ==
  ASSUME EngineInv, StartBar
  PROVE  EngineInv'
<1> DEFINE b == MarkedBroker
           acc == Snapshot(b)
           switch == AfterDefensiveCheck(acc)
           u == Append(curve, Sample(t, b))
<1>1. /\ phase = "bar" /\ curve' = u /\ account' = acc
      /\ UNCHANGED <<bars, t, tradeSeq>>
      /\ \/ /\ switch # Clear /\ HaltAndFlatten(b, switch)
            /\ UNCHANGED <<signals, counts>>
         \/ /\ switch = Clear
            /\ \E list \in Proposals :
                 /\ signals' = list
                 /\ counts' = [counts EXCEPT !.proposed = @ + Len(list)]
            /\ phase' = "signals" /\ broker' = b
            /\ UNCHANGED <<killSwitch, live, trades, haltedAt>>
  BY DEF StartBar
<1>2. /\ BookOK(b, trades, live, tradeSeq) /\ b.lots = broker.lots
      /\ acc \in AccountState /\ u \in Seq(SampleOf) /\ Peaks(u, b.peak)
      /\ switch \in Causes \union {Clear}
      /\ switch = Clear => Breaches(u) = {}
  BY <1>1, MarkedFacts
<1>3. CASE HaltAndFlatten(b, switch) /\ UNCHANGED <<signals, counts>>
  BY <1>1, <1>2, <1>3, BarHalts
<1>4. CASE ~(HaltAndFlatten(b, switch) /\ UNCHANGED <<signals, counts>>)
  <2> HIDE DEF b, acc, u
  <2>1. PICK list \in Proposals : /\ signals' = list
                                  /\ counts' = [counts EXCEPT !.proposed = @ + Len(list)]
    BY <1>1, <1>4
  <2>2. /\ switch = Clear /\ phase' = "signals" /\ broker' = b /\ curve' = u
        /\ account' = acc /\ bars' = bars /\ t' = t /\ tradeSeq' = tradeSeq
        /\ killSwitch' = killSwitch /\ live' = live /\ trades' = trades
        /\ haltedAt' = haltedAt
    BY <1>1, <1>4
  <2>3. /\ killSwitch = Clear /\ haltedAt = None /\ AllClosed(trades)
        /\ bars \in Histories /\ t \in 1 .. Len(bars) /\ t < Len(bars)
        /\ counts \in [proposed: Nat, accepted: Nat, rejected: Nat]
        /\ signals \in Seq(OrderRequest)
        /\ counts.accepted + counts.rejected + Len(signals) <= counts.proposed
    BY <1>1 DEF EngineInv, Data, TypeOK, Trading, Books
  <2>4. /\ list \in Seq(OrderRequest) /\ Len(list) \in Nat /\ Len(signals) \in Nat
    BY <2>3, BacktestAssumption, LenProperties
  <2>5. /\ counts' \in [proposed: Nat, accepted: Nat, rejected: Nat]
        /\ counts'.accepted + counts'.rejected + Len(signals') <= counts'.proposed
    <3>1. /\ counts'.proposed = counts.proposed + Len(list)
          /\ counts'.accepted = counts.accepted /\ counts'.rejected = counts.rejected
          /\ counts' \in [proposed: Nat, accepted: Nat, rejected: Nat]
      BY <2>1, <2>3, <2>4
    <3>2. /\ counts.proposed \in Nat /\ counts.accepted \in Nat /\ counts.rejected \in Nat
      BY <2>3
    <3> QED BY <2>1, <2>3, <2>4, <3>1, <3>2
  <2>6. /\ b \in Broker /\ b.dayStart > 0 /\ b.peak >= StartingBalance /\ tradeSeq \in Nat
        /\ \A id \in DOMAIN b.lots : b.lots[id].position \in Position
    BY <1>2, BrokerFields, LotFields, StartingBalanceAssumption DEF BookOK, Log, Peaks
  <2>7. Data'
    <3>1. TypeOK'
      BY <1>2, <2>2, <2>3, <2>5, <2>6 DEF TypeOK, KillSwitchTypeOK, Phases
    <3> QED BY <1>2, <2>1, <2>2, <2>4, <2>5, <2>6, <3>1 DEF Data
  <2>8. Trading'
    BY <2>2, <2>3 DEF Trading, acc
  <2>9. Books'
    BY <1>2, <2>2, <2>3 DEF Books
  <2>10. Highs'
    <3>1. BreachEndsRun'
      BY <1>2, <2>2, NothingAfterBreach DEF BreachEndsRun, HighsUpTo, BreachIn
    <3> QED BY <1>2, <2>2, <3>1 DEF Highs
  <2> QED BY <2>7, <2>8, <2>9, <2>10 DEF EngineInv
<1> QED BY <1>3, <1>4

LEMMA StrategyRaisesStep ==
  ASSUME EngineInv, StrategyRaises
  PROVE  EngineInv'
<1>1. /\ phase = "bar" /\ curve' = Append(curve, Sample(t, MarkedBroker))
      /\ account' = Snapshot(MarkedBroker)
      /\ HaltAndFlatten(MarkedBroker, killSwitch)
      /\ UNCHANGED <<bars, t, signals, tradeSeq, counts>>
  BY DEF StrategyRaises
<1>2. killSwitch \in Causes \union {Clear}
  BY DEF EngineInv, Data, TypeOK, KillSwitchTypeOK
<1> QED BY <1>1, <1>2, BarHalts

-----------------------------------------------------------------------------
(* The actions of a signal *)

\* A signal that is turned down changes the counts only.
LEMMA TurnedDown ==
  ASSUME EngineInv, RejectForeignPair \/ Reject
  PROVE  EngineInv'
<1>1. /\ phase = "signals" /\ signals # << >> /\ Count("rejected") /\ signals' = Tail(signals)
      /\ killSwitch' = killSwitch /\ bars' = bars /\ t' = t /\ phase' = phase
      /\ broker' = broker /\ account' = account /\ live' = live /\ trades' = trades
      /\ tradeSeq' = tradeSeq /\ haltedAt' = haltedAt /\ curve' = curve
  BY DEF RejectForeignPair, Reject
<1>2. /\ counts' \in [proposed: Nat, accepted: Nat, rejected: Nat]
      /\ signals' \in Seq(OrderRequest)
      /\ counts'.accepted + counts'.rejected + Len(signals') <= counts'.proposed
  BY <1>1, SignalCounted DEF EngineInv
<1>3. Data'
  <2>1. TypeOK'
    BY <1>1, <1>2 DEF EngineInv, Data, TypeOK, KillSwitchTypeOK
  <2> QED BY <1>1, <1>2, <2>1 DEF EngineInv, Data
<1>4. Trading'
  BY <1>1 DEF EngineInv, Trading
<1>5. Books'
  BY <1>1 DEF EngineInv, Books
<1>6. Highs'
  <2>1. BreachEndsRun'
    BY <1>1 DEF EngineInv, Highs, BreachEndsRun, HighsUpTo
  <2> QED BY <1>1, <2>1 DEF EngineInv, Highs
<1> QED BY <1>3, <1>4, <1>5, <1>6 DEF EngineInv

LEMMA RejectAndHaltStep ==
  ASSUME EngineInv, RejectAndHalt
  PROVE  EngineInv'
<1>1. CASE Raise
  BY <1>1, RaiseStep DEF RejectAndHalt
<1>2. CASE ~Raise
  <2> DEFINE switch == AfterEvaluate(Signal, account)
  <2>1. /\ phase = "signals" /\ signals # << >> /\ HaltAndFlatten(broker, switch)
        /\ Count("rejected") /\ signals' = Tail(signals)
        /\ bars' = bars /\ t' = t /\ account' = account /\ tradeSeq' = tradeSeq
        /\ curve' = curve
    BY <1>2 DEF RejectAndHalt
  <2>2. /\ counts' \in [proposed: Nat, accepted: Nat, rejected: Nat]
        /\ signals' \in Seq(OrderRequest)
        /\ counts'.accepted + counts'.rejected + Len(signals') <= counts'.proposed
    BY <2>1, SignalCounted DEF EngineInv
  <2>3. /\ BookOK(broker, trades, live, tradeSeq) /\ AllClosed(trades)
        /\ bars \in Histories /\ t \in 1 .. Len(bars) /\ t < Len(bars)
        /\ Breaches(curve) = {} /\ Peaks(curve, broker.peak) /\ curve \in Seq(SampleOf)
        /\ account = None \/ account \in AccountState
        /\ killSwitch = Clear
    BY <2>1 DEF EngineInv, Data, TypeOK, Books, Highs, Trading
  <2>4. switch \in Causes \union {Clear}
    BY <2>3 DEF AfterEvaluate, Tripped, Engaged, Causes
  <2>5. NextBar \in Bar
    BY <2>3, HistoryBars DEF NextBar
  <2> HIDE DEF switch
  <2>6. /\ BookOK(broker', trades', live', tradeSeq) /\ AllClosed(trades')
        /\ DOMAIN broker'.lots = {} /\ broker'.peak = broker.peak
        /\ phase' = "final" /\ haltedAt' = t /\ killSwitch' = switch
    BY <2>1, <2>3, <2>5, HaltBook
  <2>7. /\ broker' \in Broker /\ broker'.dayStart > 0 /\ broker'.peak >= StartingBalance
        /\ tradeSeq \in Nat
    BY <2>3, <2>6, BrokerFields, StartingBalanceAssumption DEF BookOK, Log, Peaks
  <2>8. Data'
    <3>1. haltedAt' \in 1 .. Len(bars') - 1 \union {None}
      BY <2>1, <2>3, <2>6, HistoryBars
    <3>2. TypeOK'
      BY <2>1, <2>2, <2>3, <2>4, <2>6, <2>7, <3>1 DEF TypeOK, KillSwitchTypeOK, Phases
    <3> QED BY <2>1, <2>2, <2>3, <2>7, <3>2 DEF Data
  <2>9. Trading'
    BY <2>6 DEF Trading
  <2>10. Books'
    BY <2>1, <2>6 DEF Books
  <2>11. Highs'
    BY <2>1, <2>3, <2>6 DEF EngineInv, Highs, BreachEndsRun, HighsUpTo
  <2> QED BY <2>8, <2>9, <2>10, <2>11 DEF EngineInv
<1> QED BY <1>1, <1>2

\* What faces an order of the pair: nothing, or the one lot, and then all of it
\* unless a lot of its side is open.
LEMMA OpposedLots ==
  ASSUME NEW b \in Broker, \A id \in DOMAIN b.lots : b.lots[id].position.pair = Pair,
         NEW order, order.pair = Pair
  PROVE  /\ Opposed(b, order) \in {{}, DOMAIN b.lots}
         /\ SameSide(b, order) = {} => Opposed(b, order) = DOMAIN b.lots
         /\ SameSide(b, order) # {} => Opposed(b, order) = {}
<1>1. CASE DOMAIN b.lots = {}
  BY <1>1 DEF Opposed, SameSide, Facing
<1>2. CASE DOMAIN b.lots # {}
  <2>1. PICK id \in Nat : DOMAIN b.lots = {id}
    BY <1>2, BrokerFields
  <2>2. Facing(b, order) = {id}
    BY <2>1 DEF Facing
  <2>3. CASE b.lots[id].position.direction = order.direction
    <3>1. Opposed(b, order) = {} /\ SameSide(b, order) = {id}
      BY <2>2, <2>3 DEF Opposed, SameSide
    <3> QED BY <3>1
  <2>4. CASE b.lots[id].position.direction # order.direction
    <3>1. Opposed(b, order) = {id} /\ SameSide(b, order) = {}
      BY <2>2, <2>4 DEF Opposed, SameSide
    <3> QED BY <2>1, <3>1
  <2> QED BY <2>3, <2>4
<1> QED BY <1>1, <1>2

\* What an accepted signal leaves behind.
LEMMA AcceptFacts ==
  ASSUME EngineInv, Accept
  PROVE  /\ BookOK(broker', trades', live', tradeSeq') /\ AllClosed(trades')
         /\ broker'.peak = broker.peak /\ account' = Snapshot(broker')
         /\ ~Engaged
         /\ \/ tradeSeq' = tradeSeq /\ broker'.lots = broker.lots
            \/ /\ tradeSeq' = tradeSeq + 1
               /\ DOMAIN broker'.lots = {tradeSeq}
               /\ ~LossAtLeast(broker.peak, Equity(broker), MaxDrawdownPct)
               /\ ~LossAtLeast(broker.dayStart, Equity(broker), DailyLossLimitPct)
<1> DEFINE order == Sized(Signal, account)
           opposed == Opposed(broker, order)
           closed == Closed(order)
           opened == OpenAtNextOpen(closed, order, NextBar, tradeSeq)
           log == trades \o ClosedTrades(broker, opposed, NextBar)
<1>1. /\ phase = "signals" /\ signals # << >> /\ Signal.pair = Pair
      /\ Accepts(Signal, account) /\ ~FillRaises(order) /\ trades' = log
      /\ \/ /\ SameSide(broker, order) # {}
            /\ broker' = closed /\ live' = Minus(live, opposed)
            /\ account' = account /\ tradeSeq' = tradeSeq
         \/ /\ SameSide(broker, order) = {}
            /\ broker' = opened
            /\ live' = Plus(Minus(live, opposed), tradeSeq, NextBar.time)
            /\ account' = Snapshot(opened) /\ tradeSeq' = tradeSeq + 1
  <2> HIDE DEF log, opened
  <2> QED BY DEF Accept, Accepted, log, opened
<1>2. /\ BookOK(broker, trades, live, tradeSeq) /\ AllClosed(trades)
      /\ bars \in Histories /\ t \in 1 .. Len(bars) /\ t < Len(bars)
      /\ signals \in Seq(OrderRequest) /\ account = Snapshot(broker) /\ broker \in Broker
  BY <1>1 DEF EngineInv, Data, TypeOK, Books, Trading
<1>3. Signal \in OrderRequest
  <2> HIDE DEF OrderRequest
  <2> QED BY <1>1, <1>2, HeadTailProperties DEF Signal
<1>4. /\ account \in AccountState /\ account.equity = Equity(broker)
      /\ account.peak = broker.peak /\ account.dayStart = broker.dayStart
  BY <1>2, SnapshotType
<1>5. /\ order \in OrderRequest /\ order.pair = Pair /\ ~Engaged
      /\ ~LossAtLeast(broker.peak, Equity(broker), MaxDrawdownPct)
      /\ ~LossAtLeast(broker.dayStart, Equity(broker), DailyLossLimitPct)
  BY <1>1, <1>3, <1>4, AcceptedOrder
<1> HIDE DEF order
<1>6. NextBar \in Bar
  BY <1>2, HistoryBars DEF NextBar
<1>7. /\ opposed \in {{}, DOMAIN broker.lots}
      /\ SameSide(broker, order) = {} => opposed = DOMAIN broker.lots
      /\ SameSide(broker, order) # {} => opposed = {}
  BY <1>2, <1>5, OpposedLots DEF BookOK
<1> HIDE DEF opposed
<1>8. /\ BookOK(closed, log, Minus(live, opposed), tradeSeq)
      /\ DOMAIN closed.lots = DOMAIN broker.lots \ opposed
      /\ closed.peak = broker.peak
      /\ AllClosed(log)
  <2>1. closed = CloseLots(broker, opposed, NextBar)
    BY DEF Closed, opposed
  <2> HIDE DEF closed, NextBar
  <2> QED BY <1>2, <1>6, <1>7, <2>1, CloseBook
<1>9. CASE SameSide(broker, order) # {}
  <2>1. closed = CloseLots(broker, {}, NextBar)
    BY <1>7, <1>9 DEF Closed, opposed
  <2>2. DOMAIN broker.swaps = DOMAIN broker.lots
    BY <1>2 DEF BookOK
  <2>3. Snapshot(closed) = Snapshot(broker) /\ closed.lots = broker.lots
    BY <1>2, <1>6, <2>1, <2>2, CloseNone DEF SameBooks
  <2> HIDE DEF closed, log, opened
  <2>4. /\ broker' = closed /\ live' = Minus(live, opposed)
        /\ account' = account /\ tradeSeq' = tradeSeq /\ trades' = log
    BY <1>1, <1>9
  <2>5. BookOK(broker', trades', live', tradeSeq') /\ AllClosed(trades')
    BY <1>8, <2>4
  <2>6. broker'.peak = broker.peak /\ account' = Snapshot(broker') /\ broker'.lots = broker.lots
    BY <1>2, <1>8, <2>3, <2>4
  <2> QED BY <1>5, <2>4, <2>5, <2>6
<1>10. CASE SameSide(broker, order) = {}
  <2>1. DOMAIN closed.lots = {}
    BY <1>7, <1>8, <1>10
  <2>2. ~EntryRaises(order.direction, NextBar.open)
    BY <1>1, <1>10 DEF FillRaises
  <2> DEFINE entries == Minus(live, opposed)
  <2> HIDE DEF closed, log, NextBar, entries
  <2>3. /\ BookOK(opened, log, Plus(entries, tradeSeq, NextBar.time), tradeSeq + 1)
        /\ DOMAIN opened.lots = {tradeSeq} /\ opened.peak = closed.peak
    BY <1>5, <1>6, <1>8, <2>1, <2>2, OpenBook DEF entries
  <2> HIDE DEF opened
  <2>4. /\ broker' = opened /\ live' = Plus(entries, tradeSeq, NextBar.time)
        /\ account' = Snapshot(opened) /\ tradeSeq' = tradeSeq + 1 /\ trades' = log
    BY <1>1, <1>10 DEF entries
  <2>5. BookOK(broker', trades', live', tradeSeq') /\ AllClosed(trades')
    BY <1>8, <2>3, <2>4
  <2>6. broker'.peak = broker.peak /\ account' = Snapshot(broker')
    BY <1>8, <2>3, <2>4
  <2>7. DOMAIN broker'.lots = {tradeSeq}
    BY <2>3, <2>4
  <2> QED BY <1>5, <2>4, <2>5, <2>6, <2>7
<1> QED BY <1>9, <1>10

LEMMA AcceptStep ==
  ASSUME EngineInv, Accept
  PROVE  EngineInv'
<1>1. /\ phase = "signals" /\ signals # << >> /\ Count("accepted") /\ signals' = Tail(signals)
      /\ killSwitch' = killSwitch /\ bars' = bars /\ t' = t /\ phase' = phase
      /\ haltedAt' = haltedAt /\ curve' = curve
  BY DEF Accept, Accepted
<1>2. /\ counts' \in [proposed: Nat, accepted: Nat, rejected: Nat]
      /\ signals' \in Seq(OrderRequest)
      /\ counts'.accepted + counts'.rejected + Len(signals') <= counts'.proposed
  BY <1>1, SignalCounted DEF EngineInv
<1>3. /\ BookOK(broker', trades', live', tradeSeq') /\ AllClosed(trades')
      /\ broker'.peak = broker.peak /\ account' = Snapshot(broker')
  BY AcceptFacts
<1>4. /\ broker' \in Broker /\ broker'.dayStart > 0 /\ tradeSeq' \in Nat
      /\ \A id \in DOMAIN broker'.lots : broker'.lots[id].position \in Position
      /\ account' \in AccountState
  <2>1. broker' \in Broker /\ tradeSeq' \in Nat
    BY <1>3 DEF BookOK, Log
  <2> QED BY <1>3, <2>1, BrokerFields, LotFields, SnapshotType
<1>5. Data'
  <2>1. TypeOK'
    BY <1>1, <1>2, <1>3, <1>4 DEF EngineInv, Data, TypeOK, KillSwitchTypeOK
  <2> QED BY <1>1, <1>2, <1>4, <2>1 DEF EngineInv, Data
<1>6. Trading'
  BY <1>1, <1>3 DEF EngineInv, Trading
<1>7. Books'
  BY <1>1, <1>3 DEF Books
<1>8. Highs'
  BY <1>1, <1>3 DEF EngineInv, Highs, BreachEndsRun, HighsUpTo
<1> QED BY <1>5, <1>6, <1>7, <1>8 DEF EngineInv

-----------------------------------------------------------------------------
(* The end of a bar *)

LEMMA EndBarStep ==
  ASSUME EngineInv, EndBar
  PROVE  EngineInv'
<1>1. /\ phase = "signals"
      /\ broker' = ApplySwapIfRollover(broker, Current, NextBar)
      /\ t' = t + 1 /\ phase' = IF t + 1 = Len(bars) THEN "final" ELSE "bar"
      /\ killSwitch' = killSwitch /\ bars' = bars /\ account' = account
      /\ signals' = signals /\ live' = live /\ trades' = trades /\ tradeSeq' = tradeSeq
      /\ counts' = counts /\ haltedAt' = haltedAt /\ curve' = curve
  BY DEF EndBar
<1>2. /\ bars \in Histories /\ t \in 1 .. Len(bars) /\ t < Len(bars)
      /\ BookOK(broker, trades, live, tradeSeq)
      /\ killSwitch = Clear /\ haltedAt = None /\ Breaches(curve) = {}
  BY <1>1 DEF EngineInv, Data, TypeOK, Books, Trading, Highs
<1>3. /\ Current \in Bar /\ NextBar \in Bar /\ Len(bars) \in Nat
  BY <1>2, HistoryBars DEF Current, NextBar
<1>4. /\ BookOK(broker', trades, live, tradeSeq)
      /\ broker'.lots = broker.lots /\ broker'.peak = broker.peak
  <2> DEFINE c == ApplySwapIfRollover(broker, Current, NextBar)
  <2>1. BookOK(c, trades, live, tradeSeq) /\ c.lots = broker.lots /\ c.peak = broker.peak
    <3> HIDE DEF Current, NextBar
    <3> QED BY <1>2, <1>3, SwapBook
  <2> HIDE DEF c
  <2> QED BY <1>1, <2>1 DEF c
<1>5. broker' \in Broker /\ broker'.dayStart > 0
  BY <1>4, BrokerFields DEF BookOK
<1>6. t' \in 1 .. Len(bars) /\ (phase' # "final" => t' < Len(bars)) /\ phase' \in {"bar", "final"}
  BY <1>1, <1>2, <1>3
<1>7. Data'
  <2>1. TypeOK'
    BY <1>1, <1>4, <1>5, <1>6 DEF EngineInv, Data, TypeOK, KillSwitchTypeOK, Phases
  <2> QED BY <1>1, <1>5, <2>1 DEF EngineInv, Data
<1>8. Trading'
  BY <1>1, <1>2, <1>6 DEF Trading
<1>9. Books'
  BY <1>1, <1>4, <1>6 DEF EngineInv, Books
<1>10. Highs'
  BY <1>1, <1>2, <1>4, <1>6 DEF EngineInv, Highs, BreachEndsRun, HighsUpTo
<1> QED BY <1>7, <1>8, <1>9, <1>10 DEF EngineInv

\* The trade log of a finished run explains the books by itself.
LEMMA FinishedLog ==
  ASSUME BookOK(broker, trades, live, tradeSeq)
  PROVE  LET u == trades \o InOrder([id \in DOMAIN live |-> OpenTrade(id)])
         IN  /\ u \in Seq(Trade) /\ Len(u) = Cardinality(Recorded(u))
             /\ Recorded(u) = 0 .. tradeSeq - 1
             /\ broker.cash = StartingBalance + BroughtBy(u)
             /\ broker.costs.commission = CommissionsOf(u)
             /\ broker.costs.swap = SwapsOf(u)
             /\ DOMAIN broker.lots = {} => u = trades
<1> DEFINE rest == [id \in DOMAIN live |-> OpenTrade(id)]
           u == trades \o InOrder(rest)
<1>1. /\ broker \in Broker /\ DOMAIN broker.swaps = DOMAIN broker.lots
      /\ trades \in Seq(Trade) /\ live \in [DOMAIN broker.lots -> Nat]
      /\ Len(trades) = Cardinality(Recorded(trades))
      /\ Recorded(trades) \union DOMAIN broker.lots = 0 .. tradeSeq - 1
      /\ Recorded(trades) \intersect DOMAIN broker.lots = {}
      /\ Ledgers(broker, trades)
  BY DEF BookOK, Log
<1>2. DOMAIN live = DOMAIN broker.lots
  BY <1>1
<1>3. CASE DOMAIN broker.lots = {}
  <2>1. DOMAIN rest = {}
    BY <1>2, <1>3
  <2> HIDE DEF rest
  <2>2. InOrder(rest) = << >>
    BY <2>1, InOrderOfOne
  <2>3. u = trades
    BY <1>1, <2>2, ConcatEmptySeq
  <2> HIDE DEF u
  <2> QED BY <1>1, <1>3, <2>3 DEF Ledgers, u, rest
<1>4. CASE DOMAIN broker.lots # {}
  <2>1. PICK id \in Nat : DOMAIN broker.lots = {id}
    BY <1>1, <1>4, BrokerFields
  <2> DEFINE lot == broker.lots[id]
             r   == OpenTrade(id)
  <2>2. DOMAIN rest = {id} /\ rest[id] = r
    BY <1>2, <2>1
  <2>3. InOrder(rest) = <<r>>
    <3> HIDE DEF rest, r
    <3> QED BY <2>2, InOrderOfOne
  <2>4. /\ lot.position.direction \in Directions /\ lot.entryCommission \in Nat
        /\ broker.swaps[id] \in Int /\ live[id] \in Nat
    BY <1>1, <2>1, BrokerFields, LotFields
  <2>5. r = [id |-> id, direction |-> lot.position.direction, closed |-> FALSE,
             entryTime |-> live[id], exitTime |-> None,
             commission |-> lot.entryCommission, swap |-> broker.swaps[id], pnl |-> 0]
    BY DEF OpenTrade
  <2> HIDE DEF lot, r, rest
  <2>6. r \in Trade /\ r.id = id
    BY <2>4, <2>5 DEF Trade
  <2>7. /\ r.commission = lot.entryCommission /\ r.swap = broker.swaps[id]
        /\ Brought(r) = 0 + broker.swaps[id] - lot.entryCommission
    BY <2>5 DEF Brought
  <2>8. r.id \notin Recorded(trades)
    BY <1>1, <2>1, <2>6
  <2>9. u = trades \o <<r>>
    BY <2>3
  <2> HIDE DEF u
  <2>10. /\ u \in Seq(Trade) /\ Len(u) = Cardinality(Recorded(u))
         /\ Recorded(u) = Recorded(trades) \union {r.id}
         /\ BroughtBy(u) = BroughtBy(trades) + Brought(r)
         /\ CommissionsOf(u) = CommissionsOf(trades) + r.commission
         /\ SwapsOf(u) = SwapsOf(trades) + r.swap
    BY <1>1, <2>6, <2>8, <2>9, TradeRecorded
  <2>11. Recorded(u) = 0 .. tradeSeq - 1
    BY <1>1, <2>1, <2>6, <2>10
  <2>12. /\ broker.cash = StartingBalance + BroughtBy(trades)
                            + (broker.swaps[id] - lot.entryCommission)
         /\ broker.costs.commission = CommissionsOf(trades) + lot.entryCommission
         /\ broker.costs.swap = SwapsOf(trades) + broker.swaps[id]
    BY <1>1, <2>1 DEF Ledgers, lot
  <2>13. BroughtBy(trades) \in Int /\ StartingBalance \in Int
    BY <1>1, LogSums, StartingBalanceAssumption
  <2>14. broker.cash = StartingBalance + BroughtBy(u)
    BY <2>4, <2>7, <2>10, <2>12, <2>13
  <2>15. broker.costs.commission = CommissionsOf(u) /\ broker.costs.swap = SwapsOf(u)
    BY <2>7, <2>10, <2>12
  <2> QED BY <1>4, <2>10, <2>11, <2>14, <2>15 DEF u, rest
<1> QED BY <1>3, <1>4

\* The end of the run: what it reports is complete, and explains its account.
LEMMA FinishStep ==
  ASSUME EngineInv, Finish
  PROVE  EngineInv'
<1> DEFINE m == LastBroker
           c == Append(curve, Sample(t, m))
           done == [m EXCEPT !.swaps = Minus(m.swaps, DOMAIN live)]
           u == trades \o InOrder([id \in DOMAIN live |-> OpenTrade(id)])
<1>1. /\ phase = "final" /\ phase' = "done" /\ broker' = done /\ curve' = c /\ trades' = u
      /\ account' = Snapshot(m)
      /\ killSwitch' = killSwitch /\ bars' = bars /\ t' = t /\ signals' = signals
      /\ live' = live /\ tradeSeq' = tradeSeq /\ counts' = counts /\ haltedAt' = haltedAt
  <2> HIDE DEF m, u
  <2>1. broker' = [m EXCEPT !.swaps = Minus(@, DOMAIN live)]
    BY DEF Finish, m
  <2>2. broker' = done
    BY <2>1
  <2> QED BY <2>2 DEF Finish, LastSamples, u, m
<1>2. /\ bars \in Histories /\ t \in 1 .. Len(bars) /\ curve \in Seq(SampleOf)
      /\ broker \in Broker /\ BookOK(broker, trades, live, tradeSeq) /\ AllClosed(trades)
      /\ Peaks(curve, broker.peak)
      /\ \A k \in Breaches(curve) : k = Len(curve) /\ curve[k].bar = t
      /\ haltedAt # None => DOMAIN broker.lots = {}
  BY <1>1 DEF EngineInv, Data, TypeOK, Books, Trading, Highs
<1>3. Current \in Bar /\ t \in Nat /\ broker.peak \in Int
  BY <1>2, HistoryBars, BrokerFields DEF Current
<1>4. /\ BookOK(m, trades, live, tradeSeq) /\ SameBooks(broker, m)
      /\ m.peak = Larger(Equity(m), broker.peak)
  <2> HIDE DEF Current
  <2> QED BY <1>2, <1>3, MarkBook DEF LastBroker
<1> HIDE DEF m
<1>5. m \in Broker /\ Snapshot(m) \in AccountState
  BY <1>4, SnapshotType DEF BookOK
<1>6. /\ c \in Seq(SampleOf) /\ Len(c) = Len(curve) + 1 /\ Peaks(c, m.peak)
      /\ c[Len(c)].bar = t
      /\ \A k \in DOMAIN curve : k \in DOMAIN c /\ c[k] = curve[k]
      /\ \A k \in Breaches(c) : k = Len(c) \/ k \in Breaches(curve)
  BY <1>2, <1>3, <1>4, <1>5, CurveGrows
<1> HIDE DEF c
<1>7. /\ u \in Seq(Trade) /\ Len(u) = Cardinality(Recorded(u))
      /\ Recorded(u) = 0 .. tradeSeq - 1
      /\ broker.cash = StartingBalance + BroughtBy(u)
      /\ broker.costs.commission = CommissionsOf(u)
      /\ broker.costs.swap = SwapsOf(u)
      /\ DOMAIN broker.lots = {} => u = trades
  BY <1>2, FinishedLog
<1> HIDE DEF u
<1>8. /\ done \in Broker /\ DOMAIN done.swaps = {} /\ done.lots = broker.lots
      /\ done.cash = broker.cash /\ done.costs = broker.costs /\ done.peak = m.peak
  <2> DEFINE none == Minus(m.swaps, DOMAIN live)
  <2>1. DOMAIN m.swaps = DOMAIN live
    BY <1>4 DEF BookOK
  <2>2. DOMAIN none = {} /\ none \in [{} -> Int]
    BY <2>1 DEF Minus
  <2>3. {} \in AtMostOne
    BY DEF AtMostOne
  <2>4. none \in UNION {[R -> Int] : R \in AtMostOne}
    BY <2>2, <2>3
  <2> HIDE DEF none
  <2>5. /\ done \in Broker /\ done.swaps = none /\ done.lots = m.lots
        /\ done.cash = m.cash /\ done.costs = m.costs /\ done.peak = m.peak
    BY <1>5, <2>4 DEF Broker, none
  <2> HIDE DEF done
  <2> QED BY <1>4, <2>2, <2>5 DEF SameBooks
<1> HIDE DEF done
<1>9. Data'
  <2>1. /\ broker' \in Broker /\ broker'.dayStart > 0 /\ broker'.peak >= StartingBalance
        /\ \A id \in DOMAIN broker'.lots : broker'.lots[id].position \in Position
    BY <1>1, <1>5, <1>6, <1>8, BrokerFields, LotFields, StartingBalanceAssumption DEF Peaks
  <2>2. TypeOK'
    BY <1>1, <1>5, <2>1 DEF EngineInv, Data, TypeOK, KillSwitchTypeOK, Phases
  <2> QED BY <1>1, <1>6, <2>1, <2>2 DEF EngineInv, Data
<1>10. Trading'
  BY <1>1, <1>2, <1>8 DEF Trading
<1>11. Books'
  <2>1. DOMAIN live = DOMAIN broker.lots
    BY <1>2 DEF BookOK
  <2>2. EveryTradeRecorded'
    <3>1. DOMAIN live' = DOMAIN broker'.lots /\ DOMAIN broker'.swaps = {}
      BY <1>1, <1>8, <2>1
    <3>2. {trades'[i].id : i \in DOMAIN trades'} = Recorded(u)
      BY <1>1 DEF Recorded
    <3>3. haltedAt' # None => DOMAIN broker'.lots = {} /\ \A i \in DOMAIN trades' : trades'[i].closed
      BY <1>1, <1>2, <1>7, <1>8 DEF AllClosed
    <3> HIDE DEF Recorded
    <3> QED BY <1>1, <1>7, <3>1, <3>2, <3>3 DEF EveryTradeRecorded
  <2>3. Reconciles'
    <3>1. /\ Total([i \in DOMAIN trades' |-> Brought(trades'[i])]) = BroughtBy(u)
          /\ Total([i \in DOMAIN trades' |-> trades'[i].commission]) = CommissionsOf(u)
          /\ Total([i \in DOMAIN trades' |-> trades'[i].swap]) = SwapsOf(u)
      BY <1>1 DEF BroughtBy, CommissionsOf, SwapsOf
    <3>2. StillOpen' = {}
      BY <1>1 DEF StillOpen
    <3>3. /\ Total([id \in StillOpen' |-> BroughtOpen(id)']) = 0
          /\ Total([id \in StillOpen' |-> broker'.lots[id].entryCommission]) = 0
          /\ Total([id \in StillOpen' |-> broker'.swaps[id]]) = 0
      BY <3>2, TotalEmpty
    <3>4. /\ broker'.cash = StartingBalance + BroughtBy(u) + 0
          /\ broker'.costs.commission = CommissionsOf(u) + 0
          /\ broker'.costs.swap = SwapsOf(u) + 0
      <4>1. /\ BroughtBy(u) \in Int /\ CommissionsOf(u) \in Int /\ SwapsOf(u) \in Int
            /\ StartingBalance \in Int
        BY <1>7, LogSums, StartingBalanceAssumption
      <4> QED BY <1>1, <1>7, <1>8, <4>1
    <3> QED BY <3>1, <3>3, <3>4 DEF Reconciles
  <2> QED BY <1>1, <2>2, <2>3 DEF Books
<1>12. Highs'
  <2>1. DOMAIN c = 1 .. Len(c) /\ DOMAIN curve = 1 .. Len(curve) /\ Len(curve) \in Nat
    BY <1>2, <1>6, LenProperties
  <2>2. ASSUME NEW i \in DOMAIN c, NEW j \in DOMAIN c, i < j, BreachIn(c, i)
        PROVE  c[j].bar = c[i].bar
    <3>1. i \in Breaches(c) /\ i # Len(c)
      BY <1>6, <2>1, <2>2 DEF Breaches
    <3>2. i = Len(curve) /\ curve[i].bar = t /\ i \in DOMAIN curve
      BY <1>2, <1>6, <3>1 DEF Breaches
    <3>3. j = Len(c)
      BY <1>6, <2>1, <2>2, <3>2
    <3> QED BY <1>6, <3>2, <3>3
  <2>3. BreachEndsRun'
    BY <1>1, <2>2 DEF BreachEndsRun, HighsUpTo, BreachIn
  <2>4. curve' # << >>
    BY <1>1, <1>6, <2>1
  <2> QED BY <1>1, <1>6, <1>8, <2>3, <2>4 DEF Highs
<1> QED BY <1>9, <1>10, <1>11, <1>12 DEF EngineInv

-----------------------------------------------------------------------------
(***************************************************************************)
(* The theorems.                                                           *)
(***************************************************************************)
LEMMA EngineStep ==
  ASSUME EngineInv, [Next]_vars
  PROVE  EngineInv'
<1>1. CASE StartBar
  BY <1>1, StartBarStep
<1>2. CASE StrategyRaises
  BY <1>2, StrategyRaisesStep
<1>3. CASE StartBarRaises \/ FlattenRaises \/ AcceptRaises \/ FinishRaises
  <2>1. phase # "done" /\ Raise
    BY <1>3 DEF StartBarRaises, FlattenRaises, AcceptRaises, Accepted, FinishRaises
  <2> QED BY <2>1, RaiseStep
<1>4. CASE RejectForeignPair \/ Reject
  BY <1>4, TurnedDown
<1>5. CASE RejectAndHalt
  BY <1>5, RejectAndHaltStep
<1>6. CASE Accept
  BY <1>6, AcceptStep
<1>7. CASE EndBar
  BY <1>7, EndBarStep
<1>8. CASE Finish
  BY <1>8, FinishStep
<1>9. CASE UNCHANGED vars
  BY <1>9, StutterStep
<1> QED BY <1>1, <1>2, <1>3, <1>4, <1>5, <1>6, <1>7, <1>8, <1>9 DEF Next, Step

\* The invariant holds of every run of the backtest (engine.py, run).
THEOREM EngineConsistent == Spec => []EngineInv
<1>1. Init => EngineInv
  BY InitStep
<1>2. EngineInv /\ [Next]_vars => EngineInv'
  BY EngineStep
<1> QED BY <1>1, <1>2, PTL DEF Spec

\* Every variable of the run keeps its type, and no signal is counted twice.
THEOREM EngineTyped == Spec => []TypeOK
<1>1. EngineInv => TypeOK
  BY DEF EngineInv, Data
<1> QED BY <1>1, EngineConsistent, PTL

LEMMA BooksRecord == EngineInv => EveryTradeRecorded
<1> SUFFICES ASSUME EngineInv, phase # "done" PROVE EveryTradeRecorded
  BY DEF EngineInv, Books
<1>1. /\ BookOK(broker, trades, live, tradeSeq) /\ AllClosed(trades)
      /\ haltedAt # None => DOMAIN broker.lots = {}
  BY DEF EngineInv, Books, Trading
<1> QED BY <1>1 DEF BookOK, Log, Recorded, AllClosed, EveryTradeRecorded

\* For every history and every strategy: each trade id handed out is that of the
\* lot held or of exactly one record, and a halted run holds nothing.
THEOREM TradesAlwaysRecorded == Spec => []EveryTradeRecorded
<1> QED BY BooksRecord, EngineConsistent, PTL

LEMMA BooksReconcile == EngineInv => Reconciles
<1> SUFFICES ASSUME EngineInv, phase # "done" PROVE Reconciles
  BY DEF EngineInv, Books
<1>1. /\ broker \in Broker /\ DOMAIN broker.swaps = DOMAIN broker.lots
      /\ Ledgers(broker, trades) /\ trades \in Seq(Trade)
  BY DEF EngineInv, Books, BookOK, Log
<1> DEFINE lots    == DOMAIN broker.lots
           brought == [id \in lots |-> BroughtOpen(id)]
           fees    == [id \in lots |-> broker.lots[id].entryCommission]
           nights  == [id \in lots |-> broker.swaps[id]]
<1>2. /\ BroughtBy(trades) \in Int /\ CommissionsOf(trades) \in Int
      /\ SwapsOf(trades) \in Int /\ StartingBalance \in Int
  BY <1>1, LogSums, StartingBalanceAssumption
<1>3. /\ broker.cash = StartingBalance + BroughtBy(trades) + Total(brought)
      /\ broker.costs.commission = CommissionsOf(trades) + Total(fees)
      /\ broker.costs.swap = SwapsOf(trades) + Total(nights)
  <2>1. CASE lots = {}
    <3>1. Total(brought) = 0 /\ Total(fees) = 0 /\ Total(nights) = 0
      BY <2>1, TotalEmpty
    <3> HIDE DEF brought, fees, nights
    <3>2. /\ broker.cash = StartingBalance + BroughtBy(trades)
          /\ broker.costs.commission = CommissionsOf(trades)
          /\ broker.costs.swap = SwapsOf(trades)
      BY <1>1, <2>1 DEF Ledgers
    <3> QED BY <1>2, <3>1, <3>2
  <2>2. CASE lots # {}
    <3>1. PICK id \in Nat : lots = {id}
      BY <1>1, <2>2, BrokerFields
    <3>2. /\ DOMAIN brought = {id} /\ DOMAIN fees = {id} /\ DOMAIN nights = {id}
          /\ brought[id] = broker.swaps[id] - broker.lots[id].entryCommission
          /\ fees[id] = broker.lots[id].entryCommission
          /\ nights[id] = broker.swaps[id]
      BY <3>1 DEF BroughtOpen
    <3>3. broker.swaps[id] \in Int /\ broker.lots[id].entryCommission \in Int
      BY <1>1, <3>1, BrokerFields, LotFields
    <3> HIDE DEF brought, fees, nights
    <3>4. /\ Total(brought) = brought[id] /\ Total(fees) = fees[id]
          /\ Total(nights) = nights[id]
      <4>1. brought[id] \in Int /\ fees[id] \in Int /\ nights[id] \in Int
        BY <3>2, <3>3
      <4> QED BY <3>2, <4>1, TotalOne
    <3> QED BY <1>1, <3>1, <3>2, <3>4 DEF Ledgers
  <2> QED BY <2>1, <2>2
<1>4. StillOpen = lots
  BY DEF StillOpen
<1> QED BY <1>3, <1>4 DEF Reconciles, BroughtBy, CommissionsOf, SwapsOf

\* The cash, the cost breakdown and the trade log of a run never drift apart.
THEOREM BooksAlwaysReconcile == Spec => []Reconciles
<1> QED BY BooksReconcile, EngineConsistent, PTL

\* No bar is traded after the one at which a drawdown cap is breached, also when
\* only the marking of a held position reveals it (the defensive check of run).
THEOREM BreachAlwaysEndsRun == Spec => []BreachEndsRun
<1>1. EngineInv => BreachEndsRun
  BY DEF EngineInv, Highs
<1> QED BY <1>1, EngineConsistent, PTL

\* Only an accepted signal hands out a trade id.
LEMMA OnlyAcceptOpens ==
  ASSUME EngineInv, [Next]_vars, tradeSeq' # tradeSeq
  PROVE  Accept
BY DEF Next, Step, StartBar, StartBarRaises, StrategyRaises, FlattenRaises,
       RejectForeignPair, Reject, RejectAndHalt, AcceptRaises, EndBar, Finish,
       FinishRaises, Raise, vars

LEMMA OpensJudged ==
  ASSUME EngineInv, [Next]_vars, tradeSeq' # tradeSeq
  PROVE  LET order == Sized(Signal, account)
         IN  /\ ~Engaged
             /\ WithinLossLimits(broker)
             /\ \/ WithinLossLimits(Closed(order))
                \/ Opposed(broker, order) # {}
<1> DEFINE order == Sized(Signal, account)
           closed == CloseLots(broker, {}, NextBar)
<1>1. Accept
  BY OnlyAcceptOpens
<1>2. ~Engaged /\ WithinLossLimits(broker)
  BY <1>1, AcceptFacts DEF WithinLossLimits
<1>3. ASSUME Opposed(broker, order) = {}
      PROVE  WithinLossLimits(Closed(order))
  <2>1. Closed(order) = closed
    BY <1>3 DEF Closed
  <2>2. /\ broker \in Broker /\ DOMAIN broker.swaps = DOMAIN broker.lots
        /\ NextBar \in Bar
    <3>1. phase = "signals"
      BY <1>1 DEF Accept, Accepted
    <3>2. /\ BookOK(broker, trades, live, tradeSeq) /\ broker \in Broker
          /\ bars \in Histories /\ t \in 1 .. Len(bars) /\ t < Len(bars)
      BY <3>1 DEF EngineInv, Data, TypeOK, Books, Trading
    <3> QED BY <3>2, HistoryBars DEF BookOK, NextBar
  <2>3. closed \in Broker /\ Snapshot(closed) = Snapshot(broker)
    BY <2>2, CloseNone
  <2> HIDE DEF closed
  <2>4. /\ Equity(closed) = Equity(broker) /\ closed.peak = broker.peak
        /\ closed.dayStart = broker.dayStart
    BY <2>2, <2>3 DEF Snapshot
  <2> QED BY <1>2, <2>1, <2>4 DEF WithinLossLimits
<1> QED BY <1>2, <1>3

\* For every history and strategy: a lot is only opened when no halt is latched
\* and the account judged, every fill of the bar's earlier signals counted, is
\* within both loss limits; unless the signal reverses a position, the account
\* that opens the lot is within them as well (evaluate, _close_opposite, and the
\* snapshot that run takes again after a fill).
THEOREM OpensAlwaysWithinLimits == Spec => OpensWithinLimits
<1>1. EngineInv /\ [Next]_vars =>
        [tradeSeq' # tradeSeq =>
           LET order == Sized(Signal, account) IN
             /\ ~Engaged
             /\ WithinLossLimits(broker)
             /\ \/ WithinLossLimits(Closed(order))
                \/ Opposed(broker, order) # {}]_vars
  BY OpensJudged
<1> QED BY <1>1, EngineConsistent, PTL DEF Spec, OpensWithinLimits

-----------------------------------------------------------------------------
(***************************************************************************)
(* The backtest keeps the promise of the guarded book: its book is the lot *)
(* held, its halt is the latched switch.                                   *)
(***************************************************************************)
Held(b) == Cardinality(DOMAIN b.lots)

LEMMA HeldOneAtMost ==
  ASSUME NEW b \in Broker
  PROVE  Held(b) \in {0, 1}
<1>1. CASE DOMAIN b.lots = {}
  BY <1>1, FS_EmptySet DEF Held
<1>2. CASE DOMAIN b.lots # {}
  <2>1. PICK id \in Nat : DOMAIN b.lots = {id}
    BY <1>2, BrokerFields
  <2>2. Cardinality({id}) = 1
    BY FS_Singleton
  <2> QED BY <2>1, <2>2 DEF Held
<1> QED BY <1>1, <1>2

LEMMA InitKeepsPromise == Init => Book!Init
<1> SUFFICES ASSUME Init PROVE Book!Init
  OBVIOUS
<1>1. killSwitch = Clear /\ DOMAIN broker.lots = {}
  BY DEF Init, NewBroker, NoEntries
<1>2. Cardinality(DOMAIN broker.lots) = 0
  BY <1>1, FS_EmptySet
<1>3. Engaged \in BOOLEAN
  BY DEF Engaged
<1> QED BY <1>2, <1>3 DEF Book!Init

\* A step that leaves lots and switch alone.
LEMMA SameLotsKeepPromise ==
  ASSUME broker'.lots = broker.lots, killSwitch' = killSwitch
  PROVE  [Book!Next]_(Book!book)
BY DEF Book!book, Engaged

\* Flattening is a close of the book, or none, and the switch was clear.
LEMMA FlattenKeepsPromise ==
  ASSUME EngineInv, phase \in {"bar", "signals"}, DOMAIN broker'.lots = {}
  PROVE  [Book!Next]_(Book!book)
<1>1. Held(broker) \in {0, 1} /\ killSwitch = Clear
  BY HeldOneAtMost DEF EngineInv, Data, Trading
<1>2. Cardinality(DOMAIN broker'.lots) = 0
  BY FS_EmptySet
<1>3. Engaged' \in BOOLEAN /\ ~Engaged
  BY <1>1 DEF Engaged
<1>4. CASE Held(broker) = 1
  <2>1. Book!Close
    BY <1>2, <1>3, <1>4 DEF Book!Close, Held
  <2> QED BY <2>1 DEF Book!Next
<1>5. CASE Held(broker) = 0 /\ Engaged' = TRUE
  <2>1. Book!Halt
    BY <1>2, <1>5 DEF Book!Halt, Held
  <2> QED BY <2>1 DEF Book!Next
<1>6. CASE Held(broker) = 0 /\ Engaged' = FALSE
  <2>1. Engaged' = Engaged
    BY <1>1, <1>6 DEF Engaged
  <2>2. Cardinality(DOMAIN broker'.lots) = Cardinality(DOMAIN broker.lots)
    BY <1>2, <1>6 DEF Held
  <2> QED BY <2>1, <2>2 DEF Book!book
<1> QED BY <1>1, <1>3, <1>4, <1>5, <1>6

LEMMA AcceptKeepsPromise ==
  ASSUME EngineInv, Accept
  PROVE  [Book!Next]_(Book!book)
<1>1. killSwitch' = killSwitch /\ Held(broker) \in {0, 1}
  BY HeldOneAtMost DEF EngineInv, Data, Accept
<1>2. /\ ~Engaged
      /\ \/ broker'.lots = broker.lots
         \/ DOMAIN broker'.lots = {tradeSeq}
  BY AcceptFacts
<1>3. CASE broker'.lots = broker.lots
  BY <1>1, <1>3, SameLotsKeepPromise
<1>4. CASE DOMAIN broker'.lots = {tradeSeq}
  <2>1. Cardinality(DOMAIN broker'.lots) = 1
    BY <1>4, FS_Singleton
  <2>2. CASE Held(broker) = 0
    <3>1. Book!Open
      BY <1>1, <1>2, <2>1, <2>2 DEF Book!Open, Held, Engaged
    <3> QED BY <3>1 DEF Book!Next
  <2>3. CASE Held(broker) = 1
    BY <1>1, <2>1, <2>3 DEF Book!book, Held, Engaged
  <2> QED BY <1>1, <2>2, <2>3
<1> QED BY <1>2, <1>3, <1>4

LEMMA StepKeepsPromise ==
  ASSUME EngineInv, [Next]_vars
  PROVE  [Book!Next]_(Book!book)
<1>1. CASE StartBar
  <2>1. phase = "bar" /\ t \in 1 .. Len(bars) /\ t < Len(bars) /\ bars \in Histories
    BY <1>1 DEF StartBar, EngineInv, Data, TypeOK
  <2>2. /\ BookOK(MarkedBroker, trades, live, tradeSeq) /\ NextBar \in Bar
        /\ MarkedBroker.lots = broker.lots /\ AllClosed(trades)
    BY <2>1, MarkedFacts DEF EngineInv, Books
  <2>3. \/ \E switch : HaltAndFlatten(MarkedBroker, switch)
        \/ broker' = MarkedBroker /\ killSwitch' = killSwitch
    BY <1>1 DEF StartBar
  <2> HIDE DEF MarkedBroker, NextBar
  <2>4. CASE \E switch : HaltAndFlatten(MarkedBroker, switch)
    <3>1. DOMAIN broker'.lots = {}
      BY <2>2, <2>4, HaltBook
    <3> QED BY <2>1, <3>1, FlattenKeepsPromise
  <2>5. CASE broker' = MarkedBroker /\ killSwitch' = killSwitch
    BY <2>2, <2>5, SameLotsKeepPromise
  <2> QED BY <2>3, <2>4, <2>5
<1>2. CASE StrategyRaises
  <2>1. phase = "bar" /\ HaltAndFlatten(MarkedBroker, killSwitch)
    BY <1>2 DEF StrategyRaises
  <2>2. /\ BookOK(MarkedBroker, trades, live, tradeSeq) /\ NextBar \in Bar
        /\ AllClosed(trades)
    BY <2>1, MarkedFacts DEF EngineInv, Books
  <2>3. DOMAIN broker'.lots = {}
    BY <2>1, <2>2, HaltBook
  <2> QED BY <2>1, <2>3, FlattenKeepsPromise
<1>3. CASE Raise \/ RejectForeignPair \/ Reject \/ UNCHANGED vars
  BY <1>3, SameLotsKeepPromise DEF Raise, RejectForeignPair, Reject, vars
<1>4. CASE RejectAndHalt /\ ~Raise
  <2>1. phase = "signals" /\ HaltAndFlatten(broker, AfterEvaluate(Signal, account))
    BY <1>4 DEF RejectAndHalt
  <2>2. /\ BookOK(broker, trades, live, tradeSeq) /\ AllClosed(trades)
        /\ t \in 1 .. Len(bars) /\ t < Len(bars) /\ bars \in Histories
    BY <2>1 DEF EngineInv, Books, Data, TypeOK
  <2>3. NextBar \in Bar
    BY <2>2, HistoryBars DEF NextBar
  <2>4. DOMAIN broker'.lots = {}
    BY <2>1, <2>2, <2>3, HaltBook
  <2> QED BY <2>1, <2>4, FlattenKeepsPromise
<1>5. CASE Accept
  BY <1>5, AcceptKeepsPromise
<1>6. CASE EndBar
  <2>1. /\ phase = "signals" /\ killSwitch' = killSwitch
        /\ broker' = ApplySwapIfRollover(broker, Current, NextBar)
    BY <1>6 DEF EndBar
  <2>2. /\ BookOK(broker, trades, live, tradeSeq)
        /\ t \in 1 .. Len(bars) /\ t < Len(bars) /\ bars \in Histories
    BY <2>1 DEF EngineInv, Books, Data, TypeOK
  <2>3. Current \in Bar /\ NextBar \in Bar
    BY <2>2, HistoryBars DEF Current, NextBar
  <2>4. ApplySwapIfRollover(broker, Current, NextBar).lots = broker.lots
    BY <2>2, <2>3, SwapBook
  <2> QED BY <2>1, <2>4, SameLotsKeepPromise
<1>7. CASE Finish
  <2>1. /\ phase = "final" /\ killSwitch' = killSwitch
        /\ broker' = [LastBroker EXCEPT !.swaps = Minus(@, DOMAIN live)]
    BY <1>7 DEF Finish
  <2>2. broker \in Broker /\ t \in 1 .. Len(bars) /\ bars \in Histories
    BY DEF EngineInv, Data, TypeOK
  <2>3. Current \in Bar
    BY <2>2, HistoryBars DEF Current
  <2>4. LastBroker \in Broker /\ LastBroker.lots = broker.lots
    BY <2>2, <2>3, MarkType DEF LastBroker, SameBooks
  <2>5. broker'.lots = LastBroker.lots
    <3> HIDE DEF LastBroker
    <3> QED BY <2>1, <2>4 DEF Broker
  <2> QED BY <2>1, <2>4, <2>5, SameLotsKeepPromise
<1>8. \/ StartBar \/ StrategyRaises \/ Accept \/ EndBar \/ Finish
      \/ Raise \/ RejectForeignPair \/ Reject \/ UNCHANGED vars
      \/ RejectAndHalt /\ ~Raise
  BY DEF Next, Step, StartBarRaises, FlattenRaises, AcceptRaises, FinishRaises
<1> QED BY <1>1, <1>2, <1>3, <1>4, <1>5, <1>6, <1>7, <1>8

\* The backtest implements the guarded book: at most one position, opened one at a
\* time and never while trading is halted, and no halt is ever lifted by closing.
THEOREM BacktestKeepsPromise == Spec => ImplementsGuardedBook
<1>1. Init => Book!Init
  BY InitKeepsPromise
<1>2. EngineInv /\ [Next]_vars => [Book!Next]_(Book!book)
  BY StepKeepsPromise
<1> QED BY <1>1, <1>2, EngineConsistent, PTL DEF Spec, ImplementsGuardedBook, Book!Spec

-----------------------------------------------------------------------------
(***************************************************************************)
(* The economic read of a finished run.                                    *)
(***************************************************************************)
\* Costs of a run that made a gross profit and a net loss are all of that profit.
LEMMA LoserPaysAll ==
  ASSUME NEW net \in Int, NEW cost \in Int, net <= 0, net + cost > 0
  PROVE  AtLeast(cost, net + cost, CostRetire)
<1> DEFINE gross == net + cost
           n == CostRetire[1]
           d == CostRetire[2]
<1>1. n \in Nat /\ d \in Nat /\ n <= d
  BY EconomicsAssumption
<1>2. gross \in Int /\ gross > 0 /\ cost >= gross
  OBVIOUS
<1> HIDE DEF gross, n, d
<1>3. cost * d >= gross * d
  BY <1>1, <1>2
<1>4. gross * d >= n * gross
  BY <1>1, <1>2
<1>5. cost * d \in Int /\ gross * d \in Int /\ n * gross \in Int
  BY <1>1, <1>2
<1> QED BY <1>3, <1>4, <1>5 DEF AtLeast, gross, n, d

LEMMA LoserFlagged == EngineInv => LoserRetired
<1> SUFFICES ASSUME EngineInv, phase = "done", ThisRun.net_pnl <= 0
             PROVE  /\ FlagAlone(ThisRun) = "retire"
                    /\ \A other \in InSampleReads : FlagHoldout(other, ThisRun) = "retire"
  BY DEF LoserRetired
<1> DEFINE net  == Last(curve).equity - StartingBalance
           cost == broker.costs.spread + broker.costs.slippage
                     + broker.costs.commission + broker.costs.swap
<1>1. net \in Int /\ cost \in Int
  <2>1. curve \in Seq(SampleOf) /\ curve # << >> /\ broker \in Broker
    BY DEF EngineInv, Data, Highs
  <2>2. Last(curve) \in SampleOf
    BY <2>1, LenProperties, ElementOfSeq, EmptySeq DEF Last
  <2>3. Last(curve).equity \in Int /\ StartingBalance \in Int
    BY <2>2, StartingBalanceAssumption DEF SampleOf
  <2>4. broker.costs \in Breakdown
    BY <2>1, BrokerFields
  <2> QED BY <2>3, <2>4 DEF Breakdown
<1>2. /\ ThisRun.net_pnl = net /\ ThisRun.cost_total = cost
      /\ ThisRun.gross_pnl = net + cost
  BY DEF ThisRun, WindowEconomics, Evidence
<1> HIDE DEF net, cost, ThisRun
<1>3. "retire" \in CostConcerns(ThisRun)
  <2>1. net <= 0
    BY <1>2
  <2>2. CASE net + cost <= 0
    BY <1>1, <1>2, <2>2 DEF CostConcerns
  <2>3. CASE net + cost > 0
    <3>1. AtLeast(cost, net + cost, CostRetire)
      BY <1>1, <2>1, <2>3, LoserPaysAll
    <3>2. ~(net + cost <= 0)
      BY <1>1, <2>3
    <3> QED BY <1>2, <3>1, <3>2 DEF CostConcerns
  <2> QED BY <1>1, <2>2, <2>3
<1>4. "retire" \in WindowConcerns(ThisRun)
  BY <1>3 DEF WindowConcerns
<1> QED BY <1>4 DEF FlagAlone, FlagHoldout, Worst

\* A backtest that lost money is flagged to retire, whatever its trades say of it
\* and whichever window it is compared with (candidate_economics).
THEOREM LoserAlwaysRetired == Spec => []LoserRetired
<1> QED BY LoserFlagged, EngineConsistent, PTL

-----------------------------------------------------------------------------
(***************************************************************************)
(* A backtest comes to its end: what is left of it is the bars, the parts  *)
(* of the bar and the signals of the strategy.                             *)
(***************************************************************************)
BarsLeft == Len(bars) - t
PartsLeft == CASE phase = "bar"     -> 3
               [] phase = "signals" -> 2
               [] phase = "final"   -> 1
               [] OTHER             -> 0
RunLeft == <<BarsLeft, PartsLeft, Len(signals)>>

LEMMA RunLeftType ==
  ASSUME EngineInv
  PROVE  /\ BarsLeft \in Nat /\ PartsLeft \in Nat /\ Len(signals) \in Nat
         /\ RunLeft \in Triple
<1>1. BarsLeft \in Nat
  <2>1. bars \in Histories /\ t \in 1 .. Len(bars)
    BY DEF EngineInv, Data, TypeOK
  <2>2. Len(bars) \in Nat
    BY <2>1, HistoryBars
  <2> QED BY <2>1, <2>2 DEF BarsLeft
<1>2. PartsLeft \in Nat
  BY DEF PartsLeft
<1>3. Len(signals) \in Nat
  BY LenProperties DEF EngineInv, Data
<1> QED BY <1>1, <1>2, <1>3 DEF RunLeft, Triple

LEMMA RunFalls ==
  ASSUME EngineInv, Next
  PROVE  Falls(RunLeft, RunLeft')
<1>1. /\ RunLeft[1] = BarsLeft /\ RunLeft'[1] = BarsLeft'
      /\ RunLeft[2] = PartsLeft /\ RunLeft'[2] = PartsLeft'
      /\ RunLeft[3] = Len(signals) /\ RunLeft'[3] = Len(signals')
  BY DEF RunLeft
<1>2. BarsLeft \in Nat /\ PartsLeft \in Nat /\ Len(signals) \in Nat
  BY RunLeftType
<1>3. ASSUME UNCHANGED <<bars, t>>, PartsLeft' < PartsLeft
      PROVE  Falls(RunLeft, RunLeft')
  BY <1>1, <1>3 DEF Falls, BarsLeft
<1>4. ASSUME UNCHANGED <<bars, t, phase>>, signals # << >>, signals' = Tail(signals)
      PROVE  Falls(RunLeft, RunLeft')
  <2>1. Len(Tail(signals)) = Len(signals) - 1
    BY <1>4 DEF EngineInv, Data
  <2> QED BY <1>1, <1>2, <1>4, <2>1 DEF Falls, BarsLeft, PartsLeft
<1>5. ASSUME Raise, phase \in {"bar", "signals", "final"}
      PROVE  Falls(RunLeft, RunLeft')
  BY <1>3, <1>5 DEF Raise, PartsLeft
<1>6. CASE StartBarRaises \/ FlattenRaises \/ AcceptRaises \/ FinishRaises
  BY <1>5, <1>6 DEF StartBarRaises, FlattenRaises, AcceptRaises, Accepted, FinishRaises
<1>7. CASE StartBar \/ StrategyRaises
  <2>1. phase = "bar" /\ phase' \in {"signals", "final"} /\ UNCHANGED <<bars, t>>
    BY <1>7 DEF StartBar, StrategyRaises, HaltAndFlatten
  <2> QED BY <1>3, <2>1 DEF PartsLeft
<1>8. CASE RejectForeignPair \/ Reject
  BY <1>4, <1>8 DEF RejectForeignPair, Reject
<1>9. CASE RejectAndHalt
  <2>1. CASE Raise
    BY <1>5, <1>9, <2>1 DEF RejectAndHalt
  <2>2. CASE ~Raise
    <3>1. phase = "signals" /\ phase' = "final" /\ UNCHANGED <<bars, t>>
      BY <1>9, <2>2 DEF RejectAndHalt, HaltAndFlatten
    <3> QED BY <1>3, <3>1 DEF PartsLeft
  <2> QED BY <2>1, <2>2
<1>10. CASE Accept
  BY <1>4, <1>10 DEF Accept, Accepted
<1>11. CASE EndBar
  <2>1. t \in Nat /\ Len(bars) \in Nat
    BY HistoryBars DEF EngineInv, Data, TypeOK
  <2>2. t' = t + 1 /\ bars' = bars
    BY <1>11 DEF EndBar
  <2>3. BarsLeft' < BarsLeft
    BY <2>1, <2>2 DEF BarsLeft
  <2> QED BY <1>1, <2>3 DEF Falls
<1>12. CASE Finish
  <2>1. phase = "final" /\ phase' = "done" /\ UNCHANGED <<bars, t>>
    BY <1>12 DEF Finish
  <2> QED BY <1>3, <2>1 DEF PartsLeft
<1> QED BY <1>6, <1>7, <1>8, <1>9, <1>10, <1>11, <1>12 DEF Next, Step

\* Every step of a backtest leaves less to do, for any history, strategy and
\* configuration: no bar is run twice, no signal is judged twice, and nothing
\* follows the end (engine.py, run).
THEOREM BacktestCountsDown ==
  Spec => [](RunLeft \in Triple) /\ [][Falls(RunLeft, RunLeft')]_vars
<1>1. EngineInv => RunLeft \in Triple
  BY RunLeftType
<1>2. EngineInv /\ [Next]_vars => [Falls(RunLeft, RunLeft')]_vars
  BY RunFalls
<1> QED BY <1>1, <1>2, EngineConsistent, PTL DEF Spec
================================================================================
