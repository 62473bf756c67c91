------------------------ MODULE BacktestHarness_proofs ------------------------
(***************************************************************************)
(* What the robustness stage may run, whether a strategy sees the future,  *)
(* whether the holdout is unseen, whether a curve is shown beside its own  *)
(* evidence and whether the walk-forward windows tile the data: for any    *)
(* markets, proposals, held-out fractions, lookbacks, windows and costs.   *)
(***************************************************************************)
EXTENDS BacktestHarness, Totals_proofs, SequenceTheorems

(***************************************************************************)
(* Numbers and sequences.                                                  *)
(***************************************************************************)

LEMMA MaxOfTwo ==
  ASSUME NEW a \in Int, NEW b \in Int
  PROVE  Max({a, b}) = IF a >= b THEN a ELSE b
BY DEF Max

LEMMA MinOfTwo ==
  ASSUME NEW a \in Int, NEW b \in Int
  PROVE  Min({a, b}) = IF a <= b THEN a ELSE b
BY DEF Min

LEMMA Division ==
  ASSUME NEW x \in Nat, NEW b \in Nat \ {0}
  PROVE  /\ x \div b \in Nat
         /\ x % b \in 0 .. b - 1
         /\ x = b * (x \div b) + (x % b)
OBVIOUS

LEMMA DivisionUnique ==
  ASSUME NEW b \in Nat \ {0}, NEW q \in Int, NEW m \in 0 .. b - 1, NEW x \in Int,
         x = b * q + m
  PROVE  x \div b = q /\ x % b = m
OBVIOUS

(***************************************************************************)
(* The split: a slice on each side, and the boundary never moves back when *)
(* bars are added.                                                         *)
(***************************************************************************)

\* One bar more moves the rounded share by at most one.
LEMMA RoundedStep ==
  ASSUME NEW x \in Nat, NEW a \in Nat, NEW b \in Nat \ {0}, a < b
  PROVE  /\ Rounded(x, b) \in Nat
         /\ Rounded(x + a, b) <= Rounded(x, b) + 1
<1> DEFINE q == x \div b
           m == x % b
<1>1. q \in Nat /\ m \in 0 .. b - 1 /\ x = b * q + m
  BY Division
<1>2. Rounded(x, b) = IF 2 * m > b \/ (2 * m = b /\ q % 2 = 1) THEN q + 1 ELSE q
  BY DEF Rounded
<1>3. CASE m + a < b
  <2>1. x + a = b * q + (m + a) /\ m + a \in 0 .. b - 1 /\ x + a \in Int
    BY <1>1, <1>3
  <2>2. (x + a) \div b = q
    <3> HIDE DEF q, m
    <3> QED BY <1>1, <2>1, DivisionUnique
  <2>3. Rounded(x + a, b) \in {q, q + 1}
    <3> HIDE DEF q, m
    <3> QED BY <2>2 DEF Rounded
  <2> HIDE DEF q, m
  <2> QED BY <1>1, <1>2, <2>3
<1>4. CASE ~(m + a < b)
  <2>1. x + a = b * (q + 1) + (m + a - b) /\ m + a - b \in 0 .. b - 1 /\ x + a \in Int
    <3>1. b * (q + 1) = b * q + b
      BY <1>1
    <3>2. m + a - b \in 0 .. b - 1
      BY <1>1, <1>4
    <3> HIDE DEF q, m
    <3>3. b * q \in Nat /\ b * (q + 1) \in Nat
      BY <1>1
    <3> QED BY <1>1, <3>1, <3>2, <3>3
  <2>2. (x + a) \div b = q + 1 /\ (x + a) % b = m + a - b
    <3> HIDE DEF q, m
    <3> QED BY <1>1, <2>1, DivisionUnique
  <2> DEFINE r == m + a - b
  <2>3. Rounded(x + a, b) = IF 2 * r > b \/ (2 * r = b /\ (q + 1) % 2 = 1) THEN q + 2 ELSE q + 1
    <3> HIDE DEF q, m
    <3> QED BY <1>1, <2>2 DEF Rounded
  <2>4. 2 * r >= b => 2 * m > b
    BY <1>1, <1>4
  <2> HIDE DEF q, m
  <2>5. CASE 2 * r >= b
    BY <1>1, <1>2, <2>3, <2>4, <2>5
  <2>6. CASE ~(2 * r >= b)
    <3>1. Rounded(x + a, b) = q + 1
      BY <1>1, <2>3, <2>6
    <3> QED BY <1>1, <1>2, <3>1
  <2> QED BY <2>5, <2>6
<1> QED BY <1>3, <1>4

\* The share of n bars, before it is cut to leave a bar on either side.
LEMMA Share ==
  ASSUME NEW n \in Nat
  PROVE  /\ Rounded(n * OosFraction[1], OosFraction[2]) \in Nat
         /\ Rounded((n + 1) * OosFraction[1], OosFraction[2])
              <= Rounded(n * OosFraction[1], OosFraction[2]) + 1
         /\ Rounded((n + 1) * OosFraction[1], OosFraction[2]) \in Nat
<1> DEFINE a == OosFraction[1]
           b == OosFraction[2]
<1>1. a \in Nat /\ b \in Nat \ {0} /\ a < b
  BY OosFractionAssumption
<1>2. n * a \in Nat /\ (n + 1) * a \in Nat /\ (n + 1) * a = n * a + a
  <2> HIDE DEF a, b
  <2> QED BY <1>1
<1> HIDE DEF a, b
<1>3. Rounded(n * a, b) \in Nat /\ Rounded(n * a + a, b) <= Rounded(n * a, b) + 1
  BY <1>1, <1>2, RoundedStep
<1>4. Rounded((n + 1) * a, b) \in Nat
  BY <1>1, <1>2, RoundedStep
<1> QED BY <1>2, <1>3, <1>4 DEF a, b

LEMMA OosSizeBounds ==
  ASSUME NEW n \in Nat, n >= 2
  PROVE  /\ OosSize(n) \in 1 .. n - 1
         /\ OosSize(n + 1) <= OosSize(n) + 1
         /\ OosSize(n + 1) \in 1 .. n
<1> DEFINE R(k) == Rounded(k * OosFraction[1], OosFraction[2])
<1>1. R(n) \in Nat /\ R(n + 1) \in Nat /\ R(n + 1) <= R(n) + 1
  BY Share
<1> HIDE DEF R
<1>2. \A k \in {n, n + 1} : OosSize(k) = Min({Max({1, R(k)}), k - 1})
  BY DEF OosSize, R
<1>3. \A k \in {n, n + 1} : Max({1, R(k)}) = IF 1 >= R(k) THEN 1 ELSE R(k)
  BY <1>1, MaxOfTwo
<1>4. \A k \in {n, n + 1} : Max({1, R(k)}) \in Nat \ {0}
  BY <1>1, <1>3
<1>5. \A k \in {n, n + 1} :
        OosSize(k) = IF Max({1, R(k)}) <= k - 1 THEN Max({1, R(k)}) ELSE k - 1
  <2> SUFFICES ASSUME NEW k \in {n, n + 1}
               PROVE  OosSize(k) = IF Max({1, R(k)}) <= k - 1 THEN Max({1, R(k)}) ELSE k - 1
    OBVIOUS
  <2>1. Max({1, R(k)}) \in Int /\ k - 1 \in Int
    BY <1>4
  <2>2. OosSize(k) = Min({Max({1, R(k)}), k - 1})
    BY <1>2
  <2> QED BY <2>1, <2>2, MinOfTwo
<1> QED BY <1>1, <1>3, <1>4, <1>5

(***************************************************************************)
(* What a stage fetches, and where it splits it.                           *)
(***************************************************************************)

\* How many bars of n are fetched.
Window(n) == IF n <= LookbackCount THEN n ELSE LookbackCount

\* The last bar in sample of a market of n bars.
Edge(n) == n - OosSize(Window(n))

LEMMA EdgeBounds ==
  ASSUME NEW n \in Nat, Window(n) >= 2
  PROVE  /\ Window(n) \in 2 .. n
         /\ Edge(n) \in 1 .. n - 1
         /\ Window(n) - OosSize(Window(n)) \in 1 .. Window(n) - 1
         /\ Edge(n) = n - Window(n) + (Window(n) - OosSize(Window(n)))
<1>0. LookbackCount \in Nat
  BY HarnessAssumption
<1>1. PICK w \in Nat : w = Window(n) /\ w \in 2 .. n
  BY <1>0 DEF Window
<1>2. OosSize(w) \in 1 .. w - 1
  BY <1>1, OosSizeBounds
<1>3. Edge(n) = n - OosSize(w)
  BY <1>1 DEF Edge
<1> QED BY <1>1, <1>2, <1>3

\* The edge does not move back when a bar is added.
LEMMA EdgeAdvances ==
  ASSUME NEW n \in Nat, Window(n) >= 2, NEW m \in Nat, m = n + 1
  PROVE  Window(m) >= 2 /\ Edge(n) <= Edge(m)
<1>0. LookbackCount \in Nat
  BY HarnessAssumption
<1>1. PICK w \in Nat : w = Window(n) /\ w >= 2
  BY <1>0 DEF Window
<1>2. PICK v \in Nat : v = Window(m) /\ v \in {w, w + 1}
  BY <1>0, <1>1 DEF Window
<1>3. /\ OosSize(w) \in Int
      /\ OosSize(w + 1) \in Int
      /\ OosSize(w + 1) <= OosSize(w) + 1
  BY <1>1, OosSizeBounds
<1>4. Edge(n) = n - OosSize(w)
  BY <1>1 DEF Edge
<1>5. Edge(m) = m - OosSize(v)
  BY <1>2 DEF Edge
<1>6. OosSize(v) <= OosSize(w) + 1 /\ OosSize(v) \in Int
  <2>1. CASE v = w
    BY <1>3, <2>1
  <2>2. CASE v = w + 1
    BY <1>3, <2>2
  <2> QED BY <1>2, <2>1, <2>2
<1>7. Edge(n) <= Edge(m)
  BY <1>3, <1>4, <1>5, <1>6
<1> QED BY <1>1, <1>2, <1>7

LEMMA FetchedBars ==
  ASSUME market \in Seq(Candle), Len(Fetched) >= 2
  PROVE  /\ Window(Len(market)) >= 2
         /\ Fetched \in Seq(Candle)
         /\ Len(Fetched) = Window(Len(market))
         /\ \A i \in 1 .. Len(Fetched) :
              Fetched[i] = market[Len(market) - Window(Len(market)) + i]
<1> DEFINE n == Len(market)
           from == Max({1, n - LookbackCount + 1})
<1>0. LookbackCount \in Nat
  BY HarnessAssumption
<1>1. n \in Nat /\ n - LookbackCount + 1 \in Int
  BY <1>0
<1>2. from = IF 1 >= n - LookbackCount + 1 THEN 1 ELSE n - LookbackCount + 1
  <2> HIDE DEF n
  <2> QED BY <1>1, MaxOfTwo
<1>3. Fetched = SubSeq(market, from, n)
  BY DEF Fetched
<1> HIDE DEF from
<1>4. from \in 1 .. n + 1
  BY <1>0, <1>1, <1>2
<1>5. \A i \in from .. n : i \in 1 .. Len(market)
  BY <1>1, <1>4
<1>6. /\ Fetched \in Seq(Candle)
      /\ Len(Fetched) = IF from <= n THEN n - from + 1 ELSE 0
      /\ \A i \in 1 .. n - from + 1 : Fetched[i] = market[from + i - 1]
  BY <1>1, <1>3, <1>4, <1>5, SubSeqProperties
<1>7. Len(Fetched) = n - from + 1 /\ n - from + 1 = Window(n)
  <2>1. Len(Fetched) >= 2
    OBVIOUS
  <2> HIDE DEF n
  <2>2. from <= n /\ Len(Fetched) = n - from + 1
    BY <1>1, <1>4, <1>6, <2>1
  <2>3. Window(n) = IF n <= LookbackCount THEN n ELSE LookbackCount
    BY Zenon DEF Window
  <2> QED BY <1>0, <1>1, <1>2, <2>2, <2>3
<1>8. from - 1 = n - Window(n)
  BY <1>1, <1>4, <1>7
<1>9. \A i \in 1 .. Len(Fetched) : Fetched[i] = market[n - Window(n) + i]
  <2> SUFFICES ASSUME NEW i \in 1 .. Len(Fetched)
               PROVE  Fetched[i] = market[n - Window(n) + i]
    OBVIOUS
  <2> HIDE DEF n
  <2>1. i \in 1 .. n - from + 1 /\ from + i - 1 = n - Window(n) + i
    BY <1>1, <1>4, <1>7, <1>8
  <2> QED BY <1>6, <2>1
<1> QED BY <1>6, <1>7, <1>9

\* The arithmetic of the last item of a slice that ends where the whole ends.
LEMMA LastOfSlice ==
  ASSUME NEW w \in Nat, NEW k \in 1 .. w - 1
  PROVE  w - k \in 1 .. w - (k + 1) + 1 /\ k + 1 + (w - k) - 1 = w
  OBVIOUS

\* The in-sample slice ends at the edge, the holdout begins behind it.
LEMMA Slices ==
  ASSUME Candles(market), Len(Fetched) >= 2
  PROVE  LET n == Len(market)
             e == Edge(n)
         IN  /\ n \in Nat /\ Window(n) >= 2 /\ e \in 1 .. n - 1
             /\ market[e].time \in Int /\ market[e + 1].time \in Int
             /\ market[e].time < market[e + 1].time
             /\ InSample(Fetched) \in Seq(Candle) /\ Len(InSample(Fetched)) >= 1
             /\ Latest(InSample(Fetched)) = market[e].time
             /\ OutOfSample(Fetched) \in Seq(Candle) /\ Len(OutOfSample(Fetched)) >= 1
             /\ Earliest(OutOfSample(Fetched)) = market[e + 1].time
             /\ Len(InSample(Fetched)) = Window(n) - OosSize(Window(n))
             /\ Len(OutOfSample(Fetched)) = OosSize(Window(n))
             /\ Earliest(OutOfSample(Fetched)) <= Latest(OutOfSample(Fetched))
<1>1. PICK n \in Nat : n = Len(market)
  BY DEF Candles
<1>2. market \in Seq(Candle) /\ DOMAIN market = 1 .. n
  BY <1>1 DEF Candles
<1>3. PICK w \in Nat : w = Window(n) /\ w = Len(Fetched)
  BY <1>2, FetchedBars, <1>1
<1>4. w >= 2 /\ Fetched \in Seq(Candle) /\ \A i \in 1 .. w : Fetched[i] = market[n - w + i]
  BY <1>1, <1>2, <1>3, FetchedBars
<1>5. PICK k \in Nat : k = w - OosSize(w) /\ k \in 1 .. w - 1 /\ OosSize(w) = w - k
  <2>1. OosSize(w) \in 1 .. w - 1
    BY <1>4, OosSizeBounds
  <2>2. w - OosSize(w) \in 1 .. w - 1 /\ OosSize(w) = w - (w - OosSize(w))
    BY <2>1
  <2> QED BY <2>2
<1>6. PICK e \in Nat : e = Edge(n) /\ e \in 1 .. n - 1 /\ e = n - w + k
  <2>1. Edge(n) \in 1 .. n - 1 /\ Edge(n) = n - w + (w - OosSize(w))
    BY <1>3, <1>4, EdgeBounds
  <2> QED BY <1>5, <2>1
<1>7. /\ InSample(Fetched) = SubSeq(Fetched, 1, k)
      /\ OutOfSample(Fetched) = SubSeq(Fetched, k + 1, w)
  <2>1. w - OosSize(w) + 1 = k + 1
    BY <1>5
  <2> QED BY <1>3, <1>5, <2>1, Zenon DEF InSample, OutOfSample
<1>8. w \in 2 .. n
  BY <1>3, <1>4, EdgeBounds
<1>9. \A i \in 1 .. w : Fetched[i] \in Candle
  BY <1>3, <1>4
<1>10. /\ InSample(Fetched) \in Seq(Candle)
       /\ Len(InSample(Fetched)) = k
       /\ InSample(Fetched)[k] = market[e]
  <2>1. \A i \in 1 .. k : Fetched[i] \in Candle
    BY <1>5, <1>9
  <2>2. /\ SubSeq(Fetched, 1, k) \in Seq(Candle)
        /\ Len(SubSeq(Fetched, 1, k)) = IF 1 <= k THEN k - 1 + 1 ELSE 0
        /\ \A i \in 1 .. k - 1 + 1 : SubSeq(Fetched, 1, k)[i] = Fetched[1 + i - 1]
    BY <2>1, SubSeqProperties
  <2>3. SubSeq(Fetched, 1, k)[k] = Fetched[k]
    BY <1>5, <2>2
  <2>4. Fetched[k] = market[e]
    BY <1>4, <1>5, <1>6
  <2>5. Len(SubSeq(Fetched, 1, k)) = k
    BY <1>5, <2>2
  <2> QED BY Zenon, <1>7, <2>2, <2>3, <2>4, <2>5
<1>11. /\ OutOfSample(Fetched) \in Seq(Candle)
       /\ Len(OutOfSample(Fetched)) = w - k
       /\ OutOfSample(Fetched)[1] = market[e + 1]
       /\ OutOfSample(Fetched)[w - k] = market[n]
  <2>1. \A i \in k + 1 .. w : Fetched[i] \in Candle
    BY <1>5, <1>9
  <2>2. /\ SubSeq(Fetched, k + 1, w) \in Seq(Candle)
        /\ Len(SubSeq(Fetched, k + 1, w)) = IF k + 1 <= w THEN w - (k + 1) + 1 ELSE 0
        /\ \A i \in 1 .. w - (k + 1) + 1 : SubSeq(Fetched, k + 1, w)[i] = Fetched[k + 1 + i - 1]
    BY <2>1, SubSeqProperties
  <2>3. SubSeq(Fetched, k + 1, w)[1] = Fetched[k + 1]
    BY <1>5, <2>2
  <2>4. Fetched[k + 1] = market[e + 1]
    <3>1. k + 1 \in 1 .. w /\ n - w + (k + 1) = e + 1
      BY <1>5, <1>6
    <3> QED BY <1>4, <3>1
  <2>5. Len(SubSeq(Fetched, k + 1, w)) = w - k
    BY <1>5, <2>2
  <2>6. SubSeq(Fetched, k + 1, w)[w - k] = Fetched[w]
    <3>1. w - k \in 1 .. w - (k + 1) + 1 /\ k + 1 + (w - k) - 1 = w
      BY Zenon, <1>5, LastOfSlice
    <3> QED BY <2>2, <3>1
  <2>7. Fetched[w] = market[n]
    <3>1. w \in 1 .. w /\ n - w + w = n
      BY <1>4
    <3> QED BY <1>4, <3>1
  <2> QED BY Zenon, <1>7, <2>2, <2>3, <2>4, <2>5, <2>6, <2>7
<1>12. e \in 1 .. n /\ e + 1 \in 1 .. n /\ e < e + 1
  BY <1>6
<1>13. /\ market[e] \in Candle /\ market[e + 1] \in Candle
       /\ market[e].time < market[e + 1].time
  BY <1>2, <1>12 DEF Candles
<1>14. market[e].time \in Int /\ market[e + 1].time \in Int
  BY <1>13 DEF Candle
<1>15. /\ Latest(InSample(Fetched)) = market[e].time
       /\ Earliest(OutOfSample(Fetched)) = market[e + 1].time
  BY <1>10, <1>11 DEF Latest, Earliest, Last
<1>16. Len(InSample(Fetched)) >= 1 /\ Len(OutOfSample(Fetched)) >= 1
  <2>1. k >= 1 /\ w - k >= 1
    BY <1>5
  <2> QED BY <1>10, <1>11, <2>1
<1>17. /\ Len(InSample(Fetched)) = Window(n) - OosSize(Window(n))
       /\ Len(OutOfSample(Fetched)) = OosSize(Window(n))
  BY <1>3, <1>5, <1>10, <1>11
<1>18. Earliest(OutOfSample(Fetched)) <= Latest(OutOfSample(Fetched))
  <2>1. Latest(OutOfSample(Fetched)) = market[n].time
    BY <1>11 DEF Latest, Last
  <2>2. n \in DOMAIN market /\ e + 1 \in DOMAIN market
    BY <1>2, <1>12
  <2>3. market[n].time \in Int
    <3>1. market[n] \in Candle
      BY <1>2, <2>2
    <3> QED BY <3>1 DEF Candle
  <2>4. CASE e + 1 = n
    BY <1>14, <1>15, <2>1, <2>4
  <2>5. CASE e + 1 # n
    <3>1. e + 1 < n
      BY <1>6, <2>5
    <3>2. market[e + 1].time < market[n].time
      BY <2>2, <3>1 DEF Candles
    <3> QED BY <1>14, <1>15, <2>1, <2>3, <3>2
  <2> QED BY <2>4, <2>5
<1> QED BY <1>1, <1>3, <1>4, <1>6, <1>10, <1>11, <1>13, <1>14, <1>15, <1>16, <1>17, <1>18

(***************************************************************************)
(* What a candidate that passed the lab can be built into.                 *)
(***************************************************************************)

WithinLimits(strategy) ==
  /\ strategy.fast \in ParamSpecs.fast_period.minimum .. ParamSpecs.fast_period.maximum
  /\ strategy.slow \in ParamSpecs.slow_period.minimum .. ParamSpecs.slow_period.maximum
  /\ strategy.fast < strategy.slow
  /\ strategy.size >= Half * ParamSpecs.size.minimum
  /\ strategy.size <= Half * ParamSpecs.size.maximum
  /\ strategy.stop >= Half * ParamSpecs.stop_distance_pips.minimum * PipSize(strategy.pair)
  /\ strategy.stop <= Half * ParamSpecs.stop_distance_pips.maximum * PipSize(strategy.pair)

\* The parameters of c are numbers within the hard limits.
Fenced(c) == \A name \in ParamNames :
  /\ c.params[name] \in Int
  /\ c.params[name] >= Half * ParamSpecs[name].minimum
  /\ c.params[name] <= Half * ParamSpecs[name].maximum

Legal(c) == ValidCandidate(c) /\ Constructible(c) /\ Numeric(c)

LEMMA BuiltWithinLimits ==
  ASSUME NEW c, Fenced(c), Constructible(c)
  PROVE  WithinLimits(BuildStrategy(c))
<1> DEFINE fast == c.params.fast_period
           slow == c.params.slow_period
           size == c.params.size
           stop == c.params.stop_distance_pips
           pip  == PipSize(c.instrument)
<1>1. {"fast_period", "slow_period", "size", "stop_distance_pips"} \subseteq ParamNames
  BY DEF ParamNames, ParamSpecs
<1>2. /\ fast \in Int /\ fast >= 4 /\ fast <= 400
      /\ slow \in Int /\ slow >= 6 /\ slow <= 800
      /\ size \in Int /\ size >= 2 /\ size <= 20000000
      /\ stop \in Int /\ stop >= 10 /\ stop <= 1000
  BY <1>1 DEF Fenced, ParamSpecs, Half
<1>3. fast \div 2 < slow \div 2
  BY DEF Constructible, Truncated, Half
<1>4. pip \in {1, 100}
  BY DEF PipSize
<1>5. BuildStrategy(c).fast = fast \div 2 /\ BuildStrategy(c).slow = slow \div 2
      /\ BuildStrategy(c).size = size
      /\ BuildStrategy(c).stop = stop * pip /\ BuildStrategy(c).pair = c.instrument
  BY DEF BuildStrategy, Truncated, Half
<1> HIDE DEF fast, slow, size, stop
<1>6. fast \div 2 \in 2 .. 200 /\ slow \div 2 \in 3 .. 400
  BY <1>2
<1>7. stop * pip >= 10 * pip /\ stop * pip <= 1000 * pip
  BY <1>2, <1>4
<1> QED BY <1>2, <1>3, <1>5, <1>6, <1>7 DEF WithinLimits, ParamSpecs, Half

LEMMA LegalIsFenced ==
  ASSUME NEW c, Legal(c)
  PROVE  Fenced(c)
BY DEF Legal, ValidCandidate, ValidValue, Numeric, Fenced

\* One parameter at an end of its range stays within the limits.
LEMMA NeighbourIsFenced ==
  ASSUME NEW c, Legal(c), NEW end \in Ends(c)
  PROVE  Fenced(Neighbour(c, end))
<1> DEFINE moved == Neighbour(c, end)
<1>1. PICK name \in ParamNames : end[1] = name /\ end[2] \in {c.ranges[name].low, c.ranges[name].high}
  BY DEF Ends, Legal, ValidCandidate
<1>2. moved.params = [c.params EXCEPT ![name] = end[2]]
  BY <1>1 DEF Neighbour, Legal, Numeric
<1>3. DOMAIN c.params = ParamNames /\ c.params \in [ParamNames -> Int]
  BY DEF Legal, ValidCandidate, Numeric
<1>4. /\ end[2] \in Int
      /\ end[2] >= Half * ParamSpecs[name].minimum
      /\ end[2] <= Half * ParamSpecs[name].maximum
  <2>1. c.ranges[name].low \in Int /\ c.ranges[name].high \in Int
    BY DEF Legal, ValidCandidate, Numeric
  <2>2. ValidRange(name, c.ranges[name])
    BY DEF Legal, ValidCandidate
  <2>3. ParamSpecs[name].minimum \in Nat /\ ParamSpecs[name].maximum \in Nat
    BY DEF ParamNames, ParamSpecs
  <2> QED BY <1>1, <2>1, <2>2, <2>3 DEF ValidRange, Half
<1>5. \A other \in ParamNames : moved.params[other] = IF other = name THEN end[2] ELSE c.params[other]
  BY <1>2, <1>3
<1>6. Fenced(c)
  BY LegalIsFenced
<1> HIDE DEF moved
<1>7. Fenced(moved)
  BY <1>4, <1>5, <1>6 DEF Fenced
<1> QED BY <1>7 DEF moved

(***************************************************************************)
(* A replay, bar by bar.  Its loop is a recursive function; what holds of  *)
(* it at every bar is shown of the first bar at which it would not.        *)
(***************************************************************************)

Start(s) == [strategy |-> s, signals |-> << >>, raised |-> FALSE]

\* What the bar i makes of the run before it.
After(v, bars, i) ==
  IF v.raised THEN v
  ELSE LET d == Decide(v.strategy, View(bars, i))
       IN  [d EXCEPT !.signals = v.signals \o
              [k \in DOMAIN d.signals |-> [bar |-> i, order |-> d.signals[k]]]]

\* f[i] is what the replay holds behind the bar i.
Rounds(f, bars, s, n) ==
  /\ f[0] = Start(s)
  /\ \A i \in 1 .. n : f[i] = After(f[i - 1], bars, i)
  /\ Replay(bars, s) = f[n]

LEMMA ReplayLoop ==
  ASSUME NEW bars, NEW s, NEW n \in Nat, n = Len(bars) - 1
  PROVE  \E f : Rounds(f, bars, s, n)
<1> DEFINE Step(g, i) == IF i = 0 THEN Start(s) ELSE After(g[i - 1], bars, i)
           IsLoop(g, m) == g = [i \in 0 .. m |-> Step(g, i)]
           Defined == {m \in Nat : \E g : IsLoop(g, m)}
<1>1. 0 .. n \subseteq Defined
  <2>1. 0 \in Defined
    <3>1. IsLoop([i \in 0 .. 0 |-> Start(s)], 0)
      OBVIOUS
    <3> QED BY <3>1
  <2>2. ASSUME NEW j \in 0 .. n - 1, j \in Defined PROVE j + 1 \in Defined
    <3>1. PICK g : IsLoop(g, j)
      BY <2>2
    <3> DEFINE h == [i \in 0 .. j + 1 |-> IF i = j + 1 THEN Step(g, j + 1) ELSE g[i]]
    <3>2. \A i \in 0 .. j : h[i] = g[i] /\ g[i] = Step(g, i)
      <4>1. \A i \in 0 .. j : i \in 0 .. j + 1 /\ i # j + 1
        OBVIOUS
      <4> QED BY <3>1, <4>1
    <3>3. \A i \in 0 .. j + 1 : Step(h, i) = Step(g, i)
      <4>1. \A i \in 0 .. j + 1 : i = 0 \/ i - 1 \in 0 .. j
        OBVIOUS
      <4>2. \A i \in 0 .. j + 1 : i = 0 \/ h[i - 1] = g[i - 1]
        BY <3>2, <4>1
      <4> HIDE DEF h
      <4> QED BY <4>2
    <3>4. \A i \in 0 .. j + 1 : h[i] = Step(h, i)
      <4>1. \A i \in 0 .. j + 1 : i = j + 1 \/ i \in 0 .. j
        OBVIOUS
      <4>2. h[j + 1] = Step(g, j + 1)
        OBVIOUS
      <4> HIDE DEF Step, h
      <4>3. j + 1 \in 0 .. j + 1 /\ \A i \in 0 .. j : i \in 0 .. j + 1
        OBVIOUS
      <4> QED BY <3>2, <3>3, <4>1, <4>2, <4>3
    <3>5. IsLoop(h, j + 1)
      <4> HIDE DEF Step
      <4> QED BY <3>4
    <3>6. j + 1 \in Nat
      OBVIOUS
    <3> HIDE DEF IsLoop
    <3> QED BY <3>5, <3>6
  <2> HIDE DEF Defined
  <2>3. 0 \in Nat
    OBVIOUS
  <2> QED BY <2>1, <2>2, <2>3, Reached
<1>2. \E g : IsLoop(g, n)
  <2>1. n \in 0 .. n
    OBVIOUS
  <2> QED BY <1>1, <2>1
<1> DEFINE upTo == CHOOSE g : IsLoop(g, n)
<1>3. IsLoop(upTo, n)
  BY <1>2
<1>4. Replay(bars, s) = upTo[n]
  BY DEF Replay, Start, After
<1> HIDE DEF upTo
<1>5. \A i \in 0 .. n : upTo[i] = Step(upTo, i)
  <2> HIDE DEF Step
  <2> QED BY <1>3
<1>6. upTo[0] = Start(s)
  <2>1. 0 \in 0 .. n
    OBVIOUS
  <2> QED BY <1>5, <2>1
<1>7. \A i \in 1 .. n : upTo[i] = After(upTo[i - 1], bars, i)
  <2>1. \A i \in 1 .. n : i \in 0 .. n /\ i # 0
    OBVIOUS
  <2> QED BY <1>5, <2>1
<1> QED BY <1>4, <1>6, <1>7 DEF Rounds

\* The signals of v are marked with the bars 1 to i.
Marked(v, i) ==
  /\ v.signals \in Seq(ToSet(v.signals))
  /\ \A signal \in ToSet(v.signals) : signal.bar \in 1 .. i

UpTo(v, k) == {signal \in ToSet(v.signals) : signal.bar <= k}

LEMMA AfterAdds ==
  ASSUME NEW v, NEW i \in Nat \ {0}, NEW bars, Marked(v, i - 1)
  PROVE  /\ Marked(After(v, bars, i), i)
         /\ \A k \in 0 .. i - 1 : UpTo(After(v, bars, i), k) = UpTo(v, k)
<1> DEFINE after == After(v, bars, i)
<1>1. CASE v.raised
  <2>1. after = v
    BY <1>1 DEF After
  <2>2. Marked(v, i)
    BY DEF Marked
  <2> QED BY <2>1, <2>2
<1>2. CASE ~v.raised
  <2> DEFINE d == Decide(v.strategy, View(bars, i))
             new == [k \in DOMAIN d.signals |-> [bar |-> i, order |-> d.signals[k]]]
  <2>1. after.signals = v.signals \o new
    <3>1. "signals" \in DOMAIN d
      BY DEF Decide
    <3>2. after = [d EXCEPT !.signals = v.signals \o new]
      BY <1>2 DEF After
    <3> HIDE DEF d, new, after
    <3> QED BY <3>1, <3>2
  <2>2. d.signals = << >> \/ \E order : d.signals = <<order>>
    BY DEF Decide
  <2>3. new = << >> \/ \E order : new = <<[bar |-> i, order |-> order]>>
    <3>1. CASE d.signals = << >>
      <4>1. new = << >>
        BY <3>1
      <4> QED BY <4>1
    <3>2. ASSUME NEW order, d.signals = <<order>> PROVE new = <<[bar |-> i, order |-> order]>>
      BY <3>2
    <3> HIDE DEF new, d
    <3> QED BY <2>2, <3>1, <3>2
  <2> HIDE DEF d, new, after
  <2> DEFINE old == ToSet(v.signals)
  <2>4. v.signals \in Seq(old)
    BY DEF Marked
  <2>5. ASSUME new = << >>
        PROVE  /\ Marked(after, i)
               /\ \A k \in 0 .. i - 1 : UpTo(after, k) = UpTo(v, k)
    <3>1. after.signals = v.signals
      BY <2>1, <2>4, <2>5, ConcatEmptySeq
    <3>2. Marked(after, i)
      BY <3>1 DEF Marked
    <3> QED BY <3>1, <3>2 DEF UpTo
  <2>6. ASSUME NEW order, new = <<[bar |-> i, order |-> order]>>
        PROVE  /\ Marked(after, i)
               /\ \A k \in 0 .. i - 1 : UpTo(after, k) = UpTo(v, k)
    <3> DEFINE e == [bar |-> i, order |-> order]
    <3>1. e.bar = i
      OBVIOUS
    <3>2. new = <<e>>
      BY <2>6
    <3> HIDE DEF e
    <3> DEFINE both == old \union {e}
    <3>3. v.signals \in Seq(both)
      BY <2>4, SeqMonotonic
    <3>4. after.signals = Append(v.signals, e)
      BY <2>1, <3>2, <3>3, AppendIsConcat
    <3>5. after.signals \in Seq(both) /\ ToSet(after.signals) = both
      <4>1. e \in both
        OBVIOUS
      <4>2. DOMAIN after.signals = DOMAIN v.signals \union {Len(v.signals) + 1}
        BY <3>3, <3>4, <4>1
      <4>3. \A k \in DOMAIN v.signals : after.signals[k] = v.signals[k]
        BY <3>3, <3>4, <4>1
      <4>4. after.signals[Len(v.signals) + 1] = e
        BY <3>3, <3>4, <4>1
      <4>5. ToSet(after.signals) = both
        BY <4>2, <4>3, <4>4 DEF ToSet
      <4>6. after.signals \in Seq(both)
        BY <3>3, <3>4, <4>1
      <4> QED BY <4>5, <4>6
    <3> HIDE DEF both
    <3>6. \A signal \in both : signal = e \/ signal \in old
      BY DEF both
    <3>7. old \subseteq both
      BY DEF both
    <3>8. \A signal \in old : signal.bar \in 1 .. i - 1
      BY DEF Marked
    <3>9. Marked(after, i)
      BY <3>1, <3>5, <3>6, <3>8 DEF Marked
    <3>10. \A k \in 0 .. i - 1 : UpTo(after, k) = UpTo(v, k)
      <4>1. \A k \in 0 .. i - 1 : ~(e.bar <= k)
        BY <3>1
      <4> QED BY <3>5, <3>6, <3>7, <4>1 DEF UpTo
    <3> QED BY <3>9, <3>10
  <2>7. /\ Marked(after, i)
        /\ \A k \in 0 .. i - 1 : UpTo(after, k) = UpTo(v, k)
    BY <2>3, <2>5, <2>6
  <2> QED BY <2>7 DEF after
<1> QED BY <1>1, <1>2

\* The arithmetic of the last round of a loop that leaves out the last item.
LEMMA LastRound ==
  ASSUME NEW k \in Nat, NEW l \in Nat, k < l
  PROVE  \E n \in Nat : n = l - 1 /\ k <= n
  OBVIOUS

\* A bar decides on the bars before it: what comes later changes no signal up
\* to it.
LEMMA PastDecides ==
  ASSUME NEW bars \in Seq(Candle), NEW other \in Seq(Candle), NEW s,
         NEW k \in Nat \ {0}, k < Len(bars), k < Len(other),
         SubSeq(bars, 1, k) = SubSeq(other, 1, k)
  PROVE  UpTo(Replay(bars, s), k) = UpTo(Replay(other, s), k)
<1>1. PICK n \in Nat : n = Len(bars) - 1 /\ k <= n
  <2>1. Len(bars) \in Nat
    OBVIOUS
  <2> QED BY Zenon, <2>1, LastRound
<1>2. PICK m \in Nat : m = Len(other) - 1 /\ k <= m
  <2>1. Len(other) \in Nat
    OBVIOUS
  <2> QED BY Zenon, <2>1, LastRound
<1>3. PICK f : /\ f[0] = Start(s)
               /\ \A i \in 1 .. n : f[i] = After(f[i - 1], bars, i)
               /\ Replay(bars, s) = f[n]
  <2>1. PICK r : Rounds(r, bars, s, n)
    BY <1>1, ReplayLoop
  <2> QED BY <2>1 DEF Rounds
<1>4. PICK g : /\ g[0] = Start(s)
               /\ \A i \in 1 .. m : g[i] = After(g[i - 1], other, i)
               /\ Replay(other, s) = g[m]
  <2>1. PICK r : Rounds(r, other, s, m)
    BY <1>2, ReplayLoop
  <2> QED BY <2>1 DEF Rounds
<1>5. f[0] = g[0]
  BY <1>3, <1>4
<1>6. \A i \in 1 .. k : View(bars, i) = View(other, i)
  <2> SUFFICES ASSUME NEW i \in 1 .. k PROVE View(bars, i) = View(other, i)
    OBVIOUS
  <2>1. \A j \in 1 .. k : bars[j] \in Candle /\ other[j] \in Candle
    OBVIOUS
  <2>2. \A j \in 1 .. k : bars[j] = other[j]
    <3>1. /\ \A j \in 1 .. k - 1 + 1 : SubSeq(bars, 1, k)[j] = bars[1 + j - 1]
          /\ \A j \in 1 .. k - 1 + 1 : SubSeq(other, 1, k)[j] = other[1 + j - 1]
      BY <2>1, SubSeqProperties
    <3> QED BY <3>1
  <2>3. \A j \in 1 .. i : bars[j] \in Candle /\ other[j] \in Candle /\ bars[j] = other[j]
    BY <2>1, <2>2
  <2>4. /\ SubSeq(bars, 1, i) \in Seq(Candle) /\ SubSeq(other, 1, i) \in Seq(Candle)
        /\ Len(SubSeq(bars, 1, i)) = i /\ Len(SubSeq(other, 1, i)) = i
        /\ \A j \in 1 .. i - 1 + 1 : SubSeq(bars, 1, i)[j] = bars[1 + j - 1]
        /\ \A j \in 1 .. i - 1 + 1 : SubSeq(other, 1, i)[j] = other[1 + j - 1]
    BY <2>3, SubSeqProperties
  <2>5. SubSeq(bars, 1, i) = SubSeq(other, 1, i)
    <3>1. \A j \in 1 .. i : SubSeq(bars, 1, i)[j] = SubSeq(other, 1, i)[j]
      BY <2>3, <2>4
    <3> QED BY <2>4, <3>1, SeqEqual
  <2> QED BY <2>5 DEF View
<1>7. \A i \in 0 .. k : f[i] = g[i]
  <2> DEFINE Same == {i \in 0 .. k : f[i] = g[i]}
  <2>1. 0 \in Same
    BY <1>5
  <2>2. ASSUME NEW i \in 0 .. k - 1, i \in Same PROVE i + 1 \in Same
    <3>1. i + 1 \in 1 .. k /\ i + 1 \in 1 .. n /\ i + 1 \in 1 .. m /\ i + 1 - 1 = i
          /\ i + 1 \in 0 .. k
      BY <1>1, <1>2
    <3>2. f[i + 1] = After(f[i], bars, i + 1) /\ g[i + 1] = After(g[i], other, i + 1)
      BY <1>3, <1>4, <3>1
    <3>3. View(bars, i + 1) = View(other, i + 1)
      BY <1>6, <3>1
    <3>4. After(f[i], bars, i + 1) = After(f[i], other, i + 1)
      BY <3>3 DEF After
    <3>5. f[i] = g[i]
      BY <2>2
    <3> QED BY <3>1, <3>2, <3>4, <3>5
  <2>3. 0 .. k \subseteq Same
    <3> HIDE DEF Same
    <3>1. 0 \in Nat
      OBVIOUS
    <3> QED BY <2>1, <2>2, <3>1, Reached
  <2> QED BY <2>3
<1>8. ASSUME NEW h, NEW b, NEW l \in Nat, k <= l, h[0] = Start(s),
             \A i \in 1 .. l : h[i] = After(h[i - 1], b, i)
      PROVE  UpTo(h[l], k) = UpTo(h[k], k)
  <2> DEFINE Good == {i \in 0 .. l : Marked(h[i], i)}
             Kept == {i \in k .. l : UpTo(h[i], k) = UpTo(h[k], k)}
  <2>1. 0 .. l \subseteq Good
    <3>1. 0 \in Good
      <4>1. Start(s).signals = << >>
        BY DEF Start
      <4>2. ToSet(<< >>) = {} /\ << >> \in Seq({})
        BY EmptySeq DEF ToSet
      <4>3. Marked(Start(s), 0)
        BY <4>1, <4>2 DEF Marked
      <4> QED BY <1>8, <4>3
    <3>2. ASSUME NEW i \in 0 .. l - 1, i \in Good PROVE i + 1 \in Good
      <4>1. i + 1 \in 1 .. l /\ i + 1 - 1 = i /\ i + 1 \in Nat \ {0} /\ i + 1 \in 0 .. l
        OBVIOUS
      <4>2. h[i + 1] = After(h[i], b, i + 1)
        BY <1>8, <4>1
      <4>3. Marked(h[i], i + 1 - 1)
        BY <3>2, <4>1
      <4>4. Marked(After(h[i], b, i + 1), i + 1)
        BY <4>1, <4>3, AfterAdds
      <4> QED BY <4>1, <4>2, <4>4
    <3> HIDE DEF Good
    <3>3. 0 \in Nat
      OBVIOUS
    <3> QED BY <3>1, <3>2, <3>3, Reached
  <2>2. k .. l \subseteq Kept
    <3>1. k \in Kept
      BY <1>8
    <3>2. ASSUME NEW i \in k .. l - 1, i \in Kept PROVE i + 1 \in Kept
      <4>1. /\ i + 1 \in 1 .. l /\ i + 1 - 1 = i /\ i + 1 \in Nat \ {0}
            /\ i + 1 \in k .. l /\ i \in 0 .. l /\ k \in 0 .. i
        OBVIOUS
      <4>2. h[i + 1] = After(h[i], b, i + 1)
        BY <1>8, <4>1
      <4>3. Marked(h[i], i + 1 - 1)
        BY <2>1, <4>1
      <4>4. UpTo(After(h[i], b, i + 1), k) = UpTo(h[i], k)
        <5>1. PICK p \in Nat \ {0} : p = i + 1 /\ k \in 0 .. p - 1
          BY <4>1
        <5>2. Marked(h[i], p - 1)
          BY <4>3, <5>1
        <5>3. UpTo(After(h[i], b, p), k) = UpTo(h[i], k)
          BY <5>1, <5>2, AfterAdds
        <5> QED BY <5>1, <5>3
      <4>5. UpTo(h[i], k) = UpTo(h[k], k)
        BY <3>2
      <4> QED BY <4>1, <4>2, <4>4, <4>5
    <3> HIDE DEF Kept
    <3> QED BY <3>1, <3>2, Reached
  <2>3. l \in k .. l
    BY <1>8
  <2> QED BY <2>2, <2>3
<1>9. UpTo(f[n], k) = UpTo(f[k], k)
  BY <1>1, <1>3, <1>8
<1>10. UpTo(g[m], k) = UpTo(g[k], k)
  BY <1>2, <1>4, <1>8
<1>11. f[k] = g[k]
  BY <1>7
<1> QED BY <1>3, <1>4, <1>9, <1>10, <1>11

(***************************************************************************)
(* The runs of a stage.                                                    *)
(***************************************************************************)

\* A run of a legal strategy, and its outcome a replay of it.
SoundRun(r) ==
  /\ r.bars \in Seq(Candle) /\ Len(r.bars) >= 1
  /\ r.outcome = Replay(r.bars, r.params)
  /\ WithinLimits(r.params)

\* A run of this stage, on its side of the edge of the market as it is now.
RunNow(r) ==
  /\ r.at = stage
  /\ SoundRun(r)
  /\ r.segment # "out_of_sample" => Latest(r.bars) = market[Edge(Len(market))].time
  /\ r.segment = "out_of_sample" => Earliest(r.bars) = market[Edge(Len(market)) + 1].time

LEMMA BuiltRun ==
  ASSUME NEW bars, NEW c, NEW cost, NEW segment, Fenced(c), Constructible(c),
         bars \in Seq(Candle), Len(bars) >= 1
  PROVE  LET r == RunEngine(bars, c, cost, segment)
         IN  r.at = stage /\ r.segment = segment /\ r.bars = bars /\ SoundRun(r)
<1>1. WithinLimits(BuildStrategy(c))
  BY BuiltWithinLimits
<1> DEFINE r == RunEngine(bars, c, cost, segment)
<1>2. /\ r.at = stage /\ r.segment = segment /\ r.bars = bars
      /\ r.params = BuildStrategy(c) /\ r.outcome = Replay(bars, BuildStrategy(c))
  BY DEF RunEngine
<1> HIDE DEF r
<1>3. SoundRun(r)
  BY <1>1, <1>2 DEF SoundRun
<1> QED BY <1>2, <1>3 DEF r

LEMMA RunsOfStage ==
  ASSUME Candles(market), Legal(candidate), Len(Fetched) >= 2
  PROVE  /\ RunNow(InSampleRun(Fetched, candidate))
         /\ \A r \in HoldoutRuns(Fetched, candidate) : RunNow(r)
         /\ \A r \in StressRuns(Fetched, candidate) : RunNow(r)
         /\ \A r \in NeighbourRuns(Fetched, candidate) : RunNow(r)
<1> DEFINE in  == InSample(Fetched)
           out == OutOfSample(Fetched)
<1>1. /\ in \in Seq(Candle) /\ Len(in) >= 1
      /\ out \in Seq(Candle) /\ Len(out) >= 1
      /\ Latest(in) = market[Edge(Len(market))].time
      /\ Earliest(out) = market[Edge(Len(market)) + 1].time
  BY Slices
<1>2. Fenced(candidate) /\ Constructible(candidate)
  BY LegalIsFenced DEF Legal
<1> HIDE DEF in, out
<1>3. ASSUME NEW c, NEW cost, NEW segment, Fenced(c), Constructible(c),
             segment # "out_of_sample"
      PROVE  RunNow(RunEngine(in, c, cost, segment))
  <2> DEFINE r == RunEngine(in, c, cost, segment)
  <2>1. r.at = stage /\ r.segment = segment /\ r.bars = in /\ SoundRun(r)
    BY <1>1, <1>3, BuiltRun
  <2> HIDE DEF r
  <2>2. RunNow(r)
    BY <1>1, <1>3, <2>1 DEF RunNow
  <2> QED BY <2>2 DEF r
<1>4. RunNow(RunEngine(out, candidate, BaseCost, "out_of_sample"))
  <2> DEFINE r == RunEngine(out, candidate, BaseCost, "out_of_sample")
  <2>1. r.at = stage /\ r.segment = "out_of_sample" /\ r.bars = out /\ SoundRun(r)
    BY <1>1, <1>2, BuiltRun
  <2> HIDE DEF r
  <2>2. RunNow(r)
    BY <1>1, <2>1 DEF RunNow
  <2> QED BY <2>2 DEF r
<1>5. RunNow(InSampleRun(Fetched, candidate))
  BY <1>2, <1>3 DEF InSampleRun, in
<1>6. \A r \in HoldoutRuns(Fetched, candidate) : RunNow(r)
  BY <1>4 DEF HoldoutRuns, out
<1>7. \A r \in StressRuns(Fetched, candidate) : RunNow(r)
  BY <1>2, <1>3 DEF StressRuns, in
<1>8. \A r \in NeighbourRuns(Fetched, candidate) : RunNow(r)
  <2> SUFFICES ASSUME NEW end \in Ends(candidate), Constructible(Neighbour(candidate, end))
               PROVE  RunNow(RunEngine(in, Neighbour(candidate, end), BaseCost, "neighbour"))
    BY DEF NeighbourRuns, in
  <2>1. Fenced(Neighbour(candidate, end))
    BY NeighbourIsFenced
  <2> QED BY <1>3, <2>1
<1> QED BY <1>5, <1>6, <1>7, <1>8

(***************************************************************************)
(* The inductive invariant.                                                *)
(***************************************************************************)

Stages == {"lab", "proposed", "tested", "kept", "stressed", "refused", "skipped", "killed", "done"}

\* A candidate on its way has passed the checks of the lab.
CandidateLegal == stage \in {"proposed", "tested", "kept", "stressed"} => Legal(candidate)

\* Which stages have run the engine by now.
RunsInOrder ==
  /\ \A r \in runs : r.at \in {"proposed", "kept", "stressed"}
  /\ stage \in {"lab", "proposed", "refused"} => runs = {}
  /\ stage \in {"tested", "kept"} => \A r \in runs : r.at = "proposed"
  /\ stage = "stressed" => \A r \in runs : r.at \in {"proposed", "kept"}

\* Nothing that was tuned on lies behind the edge of the market as it is now.
TunedBeforeEdge ==
  /\ runs # {} => Window(Len(market)) >= 2
  /\ \A r \in runs :
       r.segment # "out_of_sample" => Latest(r.bars) <= market[Edge(Len(market))].time

HarnessInv ==
  /\ stage \in Stages
  /\ Candles(market)
  /\ CandidateLegal
  /\ \A r \in runs : SoundRun(r)
  /\ RunsInOrder
  /\ TunedBeforeEdge
  /\ HoldoutUnseen

LEMMA InitHarness == Init => HarnessInv
<1> SUFFICES ASSUME Init PROVE HarnessInv
  OBVIOUS
<1>1. Candles(market)
  BY HarnessAssumption DEF Init
<1> QED BY <1>1 DEF Init, HarnessInv, Stages, CandidateLegal, RunsInOrder, TunedBeforeEdge, HoldoutUnseen

\* A stage that runs the engine.
LEMMA RunsAdded ==
  ASSUME HarnessInv, Len(Fetched) >= 2, UNCHANGED market, UNCHANGED candidate, NEW new,
         \/ stage = "proposed" /\ stage' = "tested"
         \/ stage = "kept" /\ stage' = "stressed"
         \/ stage = "stressed" /\ stage' = "done",
         runs' \subseteq runs \union new,
         \A r \in new : RunNow(r)
  PROVE  HarnessInv'
<1> DEFINE n == Len(market)
           e == Edge(n)
           before == market[e].time
           after  == market[e + 1].time
<1>1. Candles(market) /\ \A r \in runs : SoundRun(r)
  BY DEF HarnessInv
<1>2. /\ Window(n) >= 2
      /\ before \in Int /\ after \in Int /\ before < after
  BY <1>1, Slices
<1>3. stage' \in Stages /\ Candles(market)' /\ CandidateLegal'
  BY <1>1 DEF HarnessInv, Stages, CandidateLegal, Candles
<1>4. \A r \in runs' : r \in runs \/ r \in new
  OBVIOUS
<1>5. \A r \in runs' : SoundRun(r)
  BY <1>1, <1>4 DEF RunNow
<1>6. RunsInOrder'
  BY <1>4 DEF HarnessInv, RunsInOrder, RunNow
<1>7. \A r \in runs' : Latest(r.bars) \in Int
  <2> SUFFICES ASSUME NEW r \in runs' PROVE Latest(r.bars) \in Int
    OBVIOUS
  <2>1. r.bars \in Seq(Candle) /\ Len(r.bars) >= 1
    BY <1>5 DEF SoundRun
  <2>2. r.bars[Len(r.bars)] \in Candle
    BY <2>1
  <2> QED BY <2>2 DEF Latest, Last, Candle
<1>8. \A r \in runs' : r.segment # "out_of_sample" => Latest(r.bars) <= before
  <2>1. \A r \in new : r.segment # "out_of_sample" => Latest(r.bars) = before
    BY DEF RunNow
  <2>2. \A r \in runs : r.segment # "out_of_sample" => Latest(r.bars) <= before
    BY DEF HarnessInv, TunedBeforeEdge
  <2> HIDE DEF before
  <2> QED BY <1>2, <1>4, <2>1, <2>2
<1>9. TunedBeforeEdge'
  <2>1. Len(market') = n /\ market'[Edge(n)].time = before
    OBVIOUS
  <2> QED BY <1>2, <1>8, <2>1 DEF TunedBeforeEdge
<1>10. HoldoutUnseen'
  <2> SUFFICES ASSUME NEW r \in runs', NEW s \in runs', r.segment = "out_of_sample",
                      s.segment # "out_of_sample", Rank[s.at] <= Rank[r.at]
               PROVE  Latest(s.bars) < Earliest(r.bars)
    BY DEF HoldoutUnseen
  <2>1. CASE r \in new
    <3>1. Earliest(r.bars) = after
      BY <2>1 DEF RunNow
    <3>2. Latest(s.bars) <= before /\ Latest(s.bars) \in Int
      BY <1>7, <1>8
    <3> HIDE DEF before, after
    <3> QED BY <1>2, <3>1, <3>2
  <2>2. CASE r \in runs /\ s \in runs
    BY <2>2 DEF HarnessInv, HoldoutUnseen
  <2>3. CASE r \in runs /\ s \in new
    <3>1. s.at = stage
      BY <2>3 DEF RunNow
    <3>2. \/ stage = "kept" /\ r.at = "proposed"
          \/ stage = "stressed" /\ r.at \in {"proposed", "kept"}
      BY <2>3 DEF HarnessInv, RunsInOrder
    <3>3. ~(Rank[s.at] <= Rank[r.at])
      BY <3>1, <3>2 DEF Rank
    <3> QED BY <3>3
  <2> QED BY <1>4, <2>1, <2>2, <2>3
<1> QED BY <1>3, <1>5, <1>6, <1>9, <1>10 DEF HarnessInv

\* The market moves on: no bar changes its time, and a new one is later.
LEMMA MarketMoves ==
  ASSUME HarnessInv, Candles(market)', Len(market') \in {Len(market), Len(market) + 1},
         \A i \in DOMAIN market : market'[i].time = market[i].time,
         UNCHANGED <<stage, candidate, runs>>
  PROVE  HarnessInv'
<1>1. PICK n \in Nat : n = Len(market) /\ DOMAIN market = 1 .. n
  BY DEF HarnessInv, Candles
<1>2. PICK m \in Nat : m = Len(market') /\ m \in {n, n + 1} /\ DOMAIN market' = 1 .. m
  BY <1>1 DEF Candles
<1>3. \A r \in runs : SoundRun(r)
  BY DEF HarnessInv
<1>4. TunedBeforeEdge'
  <2> SUFFICES ASSUME NEW r \in runs
               PROVE  /\ Window(m) >= 2
                      /\ r.segment # "out_of_sample" => Latest(r.bars) <= market'[Edge(m)].time
    BY <1>2 DEF TunedBeforeEdge
  <2>1. Window(n) >= 2
    BY <1>1 DEF HarnessInv, TunedBeforeEdge
  <2>2. r.segment # "out_of_sample" => Latest(r.bars) <= market[Edge(n)].time
    BY <1>1 DEF HarnessInv, TunedBeforeEdge
  <2>3. Edge(n) \in 1 .. n - 1
    BY <2>1, EdgeBounds
  <2>4. Window(m) >= 2 /\ Edge(m) \in 1 .. m - 1 /\ Edge(n) <= Edge(m)
    <3>1. CASE m = n
      BY <2>1, <2>3, <3>1
    <3>2. CASE m = n + 1
      <4>1. Window(m) >= 2 /\ Edge(n) <= Edge(m)
        BY <2>1, <3>2, EdgeAdvances
      <4>2. Edge(m) \in 1 .. m - 1
        BY <4>1, EdgeBounds
      <4> QED BY <4>1, <4>2
    <3> QED BY <1>2, <3>1, <3>2
  <2>5. PICK d \in Nat, e \in Nat : d = Edge(n) /\ e = Edge(m) /\ d <= e /\ d \in 1 .. n /\ e \in 1 .. m
    BY <2>3, <2>4
  <2>6. d \in 1 .. m
    BY <1>2, <2>5
  <2>7. market'[d] \in Candle /\ market'[e] \in Candle
    BY <1>2, <2>5, <2>6 DEF Candles
  <2>8. market'[d].time \in Int /\ market'[e].time \in Int
    BY <2>7 DEF Candle
  <2>9. market'[d].time <= market'[e].time
    <3>1. CASE d = e
      BY <2>8, <3>1
    <3>2. CASE d # e
      <4>1. market'[d].time < market'[e].time
        BY <1>2, <2>5, <2>6, <3>2 DEF Candles
      <4> QED BY <2>8, <4>1
    <3> QED BY <3>1, <3>2
  <2>10. market[d].time = market'[d].time
    BY <1>1, <2>5
  <2>11. Latest(r.bars) \in Int
    <3>1. r.bars \in Seq(Candle) /\ Len(r.bars) >= 1
      BY <1>3 DEF SoundRun
    <3>2. r.bars[Len(r.bars)] \in Candle
      BY <3>1
    <3> QED BY <3>2 DEF Latest, Last, Candle
  <2>12. r.segment # "out_of_sample" => Latest(r.bars) <= market'[e].time
    BY <2>2, <2>5, <2>8, <2>9, <2>10, <2>11
  <2> QED BY <2>4, <2>5, <2>12
<1>5. CandidateLegal' /\ RunsInOrder' /\ HoldoutUnseen' /\ stage' \in Stages
  BY DEF HarnessInv, CandidateLegal, RunsInOrder, HoldoutUnseen
<1>6. \A r \in runs' : SoundRun(r)
  BY <1>3
<1> QED BY <1>4, <1>5, <1>6 DEF HarnessInv

LEMMA ProposeStep ==
  ASSUME HarnessInv, NEW p \in Proposals, Propose(p)
  PROVE  HarnessInv'
<1>1. stage = "lab" /\ stage' \in {"proposed", "refused"} /\ UNCHANGED <<market, runs>> /\ runs = {}
  BY DEF Propose, SameMarket, HarnessInv, RunsInOrder
<1>2. CandidateLegal'
  <2>1. CASE ProposalAccepted(p, Request)
    <3>1. candidate' \in ToSet(p.candidates)
      BY <2>1 DEF Propose
    <3>2. ValidCandidate(candidate') /\ Constructible(candidate')
      BY <2>1, <3>1 DEF ProposalAccepted, ParamsAndRangesSane, CandidatesConstructible
    <3>3. Numeric(candidate')
      BY <3>1, HarnessAssumption
    <3>4. Legal(candidate')
      BY <3>2, <3>3 DEF Legal
    <3> QED BY <3>4 DEF CandidateLegal
  <2>2. CASE ~ProposalAccepted(p, Request)
    BY <2>2 DEF Propose, CandidateLegal
  <2> QED BY <2>1, <2>2
<1>3. stage' \in Stages /\ Candles(market)'
  BY <1>1 DEF HarnessInv, Stages, Candles
<1>4. RunsInOrder' /\ TunedBeforeEdge' /\ HoldoutUnseen' /\ \A r \in runs' : SoundRun(r)
  BY <1>1 DEF RunsInOrder, TunedBeforeEdge, HoldoutUnseen
<1> QED BY <1>2, <1>3, <1>4 DEF HarnessInv

LEMMA BacktestStep ==
  ASSUME HarnessInv, Backtest
  PROVE  HarnessInv'
<1>1. /\ stage = "proposed" /\ stage' = "tested" /\ Len(Fetched) >= 2
      /\ UNCHANGED market /\ UNCHANGED candidate
  BY DEF Backtest, Usable, MinCandles, SameMarket
<1>2. Candles(market) /\ Legal(candidate)
  BY <1>1 DEF HarnessInv, CandidateLegal
<1> DEFINE new == {InSampleRun(Fetched, candidate)}
<1>3. \A r \in new : RunNow(r)
  BY <1>1, <1>2, RunsOfStage
<1>4. runs' \subseteq runs \union new
  BY DEF Backtest
<1> HIDE DEF new
<1> QED BY <1>1, <1>3, <1>4, RunsAdded

LEMMA RobustnessStep ==
  ASSUME HarnessInv, Robustness
  PROVE  HarnessInv'
<1>1. /\ stage = "kept" /\ stage' = "stressed" /\ Len(Fetched) >= 2
      /\ UNCHANGED market /\ UNCHANGED candidate
  BY DEF Robustness, Usable, MinCandles, SameMarket
<1>2. Candles(market) /\ Legal(candidate)
  BY <1>1 DEF HarnessInv, CandidateLegal
<1> DEFINE new == {InSampleRun(Fetched, candidate)} \union HoldoutRuns(Fetched, candidate)
                    \union StressRuns(Fetched, candidate) \union NeighbourRuns(Fetched, candidate)
<1>3. \A r \in new : RunNow(r)
  BY <1>1, <1>2, RunsOfStage
<1>4. runs' \subseteq runs \union new
  BY DEF Robustness
<1> HIDE DEF new
<1> QED BY <1>1, <1>3, <1>4, RunsAdded

LEMMA PersistStep ==
  ASSUME HarnessInv, Persist
  PROVE  HarnessInv'
<1>1. /\ stage = "stressed" /\ stage' = "done" /\ Len(Fetched) >= 2
      /\ UNCHANGED market /\ UNCHANGED candidate
  BY DEF Persist, MinCandles, SameMarket
<1>2. Candles(market) /\ Legal(candidate)
  BY <1>1 DEF HarnessInv, CandidateLegal
<1> DEFINE new == Curves(Fetched, candidate)
<1>3. \A r \in new : RunNow(r)
  BY <1>1, <1>2, RunsOfStage DEF Curves
<1>4. runs' \subseteq runs \union new
  BY DEF Persist
<1> HIDE DEF new
<1> QED BY <1>1, <1>3, <1>4, RunsAdded

\* The steps that run nothing.
LEMMA QuietStep ==
  ASSUME HarnessInv, Skip \/ Triage \/ PersistFails
  PROVE  HarnessInv'
<1>1. /\ UNCHANGED <<market, candidate, runs>>
      /\ \/ stage' \in {"skipped", "killed", "done"}
         \/ stage = "tested" /\ stage' = "kept"
  BY DEF Skip, Triage, PersistFails, SameMarket
<1>2. stage' \in Stages /\ Candles(market)'
  BY <1>1 DEF HarnessInv, Stages, Candles
<1>3. CandidateLegal' /\ RunsInOrder' /\ TunedBeforeEdge' /\ HoldoutUnseen'
  BY <1>1 DEF HarnessInv, CandidateLegal, RunsInOrder, TunedBeforeEdge, HoldoutUnseen
<1>4. \A r \in runs' : SoundRun(r)
  BY <1>1 DEF HarnessInv
<1> QED BY <1>2, <1>3, <1>4 DEF HarnessInv

LEMMA NewBarStep ==
  ASSUME HarnessInv, NewBar
  PROVE  HarnessInv'
<1>1. PICK gap \in Steps, close \in Prices :
        market' = Append(market, [time |-> Last(market).time + gap, close |-> close])
  BY DEF NewBar
<1>2. PICK n \in Nat : n = Len(market) /\ n >= 1 /\ DOMAIN market = 1 .. n
  BY DEF HarnessInv, Candles
<1>3. /\ market \in Seq(Candle)
      /\ \A i, j \in 1 .. n : i < j => market[i].time < market[j].time
      /\ \A i \in 1 .. n : market[i] \in Candle
  BY <1>2 DEF HarnessInv, Candles
<1>4. gap \in Nat \ {0} /\ close \in Int
  BY HarnessAssumption
<1> DEFINE bar == [time |-> Last(market).time + gap, close |-> close]
<1>5. Last(market) = market[n]
  BY <1>2 DEF Last
<1>6. \A i \in 1 .. n : market[i].time \in Int
  BY <1>3 DEF Candle
<1>7. bar \in Candle /\ bar.time = market[n].time + gap
  BY <1>2, <1>4, <1>5, <1>6 DEF Candle
<1> HIDE DEF bar
<1>8. market' = Append(market, bar)
  BY <1>1 DEF bar
<1>9. /\ market' \in Seq(Candle) /\ Len(market') = n + 1 /\ DOMAIN market' = 1 .. n + 1
      /\ market'[n + 1] = bar
      /\ \A i \in 1 .. n : market'[i] = market[i]
  BY <1>2, <1>3, <1>7, <1>8
<1>10. \A i \in 1 .. n : market[i].time <= market[n].time
  <2> SUFFICES ASSUME NEW i \in 1 .. n PROVE market[i].time <= market[n].time
    OBVIOUS
  <2>1. n \in 1 .. n
    BY <1>2
  <2>2. CASE i = n
    BY <1>6, <2>2
  <2>3. CASE i # n
    <3>1. i < n
      BY <2>3
    <3>2. market[i].time < market[n].time
      BY <1>3, <2>1, <3>1
    <3> QED BY <1>6, <2>1, <3>2
  <2> QED BY <2>2, <2>3
<1>11. \A i \in 1 .. n : market[i].time < bar.time
  <2>1. n \in 1 .. n
    BY <1>2
  <2> QED BY <1>4, <1>6, <1>7, <1>10, <2>1
<1>12. Candles(market)'
  <2>1. market' # << >>
    BY <1>9
  <2>2. ASSUME NEW i \in 1 .. n + 1, NEW j \in 1 .. n + 1, i < j
        PROVE  market'[i].time < market'[j].time
    <3>1. i \in 1 .. n /\ (j \in 1 .. n \/ j = n + 1)
      BY <2>2
    <3> QED BY <1>3, <1>9, <1>11, <2>2, <3>1
  <2> QED BY <1>9, <2>1, <2>2 DEF Candles
<1>13. Len(market') \in {Len(market), Len(market) + 1} /\ \A i \in DOMAIN market : market'[i].time = market[i].time
  BY <1>2, <1>9
<1>14. UNCHANGED <<stage, candidate, runs>>
  BY DEF NewBar, SameCandidate
<1> QED BY <1>12, <1>13, <1>14, MarketMoves

LEMMA RestateStep ==
  ASSUME HarnessInv, Restate
  PROVE  HarnessInv'
<1>1. PICK k \in DOMAIN market, close \in Prices : market' = [market EXCEPT ![k].close = close]
  BY DEF Restate
<1>2. PICK n \in Nat : n = Len(market) /\ n >= 1 /\ DOMAIN market = 1 .. n
  BY DEF HarnessInv, Candles
<1>3. /\ market \in Seq(Candle)
      /\ \A i, j \in 1 .. n : i < j => market[i].time < market[j].time
      /\ \A i \in 1 .. n : market[i] \in Candle
  BY <1>2 DEF HarnessInv, Candles
<1>4. close \in Int
  BY HarnessAssumption
<1> DEFINE bar == [market[k] EXCEPT !.close = close]
<1>5. bar \in Candle /\ bar.time = market[k].time
  BY <1>2, <1>3, <1>4 DEF Candle
<1>6. market' = [market EXCEPT ![k] = bar]
  BY <1>1
<1> HIDE DEF bar
<1>7. /\ market' \in Seq(Candle) /\ Len(market') = n /\ DOMAIN market' = 1 .. n
      /\ \A i \in 1 .. n : market'[i] = IF i = k THEN bar ELSE market[i]
  BY <1>2, <1>3, <1>5, <1>6
<1>8. \A i \in 1 .. n : market'[i].time = market[i].time
  BY <1>5, <1>7
<1>9. Candles(market)'
  <2>1. market' # << >>
    BY <1>2, <1>7
  <2>2. \A i, j \in 1 .. n : i < j => market'[i].time < market'[j].time
    BY <1>3, <1>8
  <2> QED BY <1>7, <2>1, <2>2 DEF Candles
<1>10. Len(market') \in {Len(market), Len(market) + 1} /\ \A i \in DOMAIN market : market'[i].time = market[i].time
  BY <1>2, <1>7, <1>8
<1>11. UNCHANGED <<stage, candidate, runs>>
  BY DEF Restate, SameCandidate
<1> QED BY <1>9, <1>10, <1>11, MarketMoves

LEMMA NextHarness == HarnessInv /\ [Next]_vars => HarnessInv'
<1> SUFFICES ASSUME HarnessInv, [Next]_vars PROVE HarnessInv'
  OBVIOUS
<1>1. ASSUME NEW p \in Proposals, Propose(p) PROVE HarnessInv'
  BY <1>1, ProposeStep
<1>2. CASE Backtest
  BY <1>2, BacktestStep
<1>3. CASE Skip \/ Triage \/ PersistFails
  BY <1>3, QuietStep
<1>4. CASE Robustness
  BY <1>4, RobustnessStep
<1>5. CASE Persist
  BY <1>5, PersistStep
<1>6. CASE NewBar
  BY <1>6, NewBarStep
<1>7. CASE Restate
  BY <1>7, RestateStep
<1>8. CASE UNCHANGED vars
  BY <1>8 DEF vars, HarnessInv, Candles, CandidateLegal, RunsInOrder, TunedBeforeEdge, HoldoutUnseen
<1> QED BY <1>1, <1>2, <1>3, <1>4, <1>5, <1>6, <1>7, <1>8 DEF Next

(***************************************************************************)
(* The theorems.                                                           *)
(***************************************************************************)

\* Whatever the lab proposes and however the market moves: the candles stay in
\* order, a candidate on its way is legal, every run is a replay of its bars,
\* and what was tuned on lies before the split of the market as it is now.
THEOREM HarnessConsistent == Spec => []HarnessInv
<1>1. Init => HarnessInv
  BY InitHarness
<1>2. HarnessInv /\ [Next]_vars => HarnessInv'
  BY NextHarness
<1> QED BY <1>1, <1>2, PTL DEF Spec

\* No run leaves the hard limits of the archetype in any of its four parameters,
\* a neighbour's included, for any values and ranges the lab accepts
\* (validate_candidate, run_robustness).
THEOREM AlwaysWithinLimits == Spec => []RunsWithinLimits
<1>1. HarnessInv => RunsWithinLimits
  BY DEF HarnessInv, SoundRun, WithinLimits, RunsWithinLimits
<1> QED BY <1>1, HarnessConsistent, PTL

\* No later bar changes what a strategy decided, at any length of the data
\* (PointInTimeView, BacktestEngine.run).
THEOREM NeverLooksAhead == Spec => []NoLookAhead
<1>1. HarnessInv => NoLookAhead
  <2> SUFFICES ASSUME HarnessInv, NEW r \in runs, NEW s \in runs, r.params = s.params,
                      NEW k \in 1 .. Min({Len(r.bars), Len(s.bars)}) - 1,
                      SubSeq(r.bars, 1, k) = SubSeq(s.bars, 1, k)
               PROVE  SignalsUpTo(r, k) = SignalsUpTo(s, k)
    BY DEF NoLookAhead
  <2>1. SoundRun(r) /\ SoundRun(s)
    BY DEF HarnessInv
  <2>2. /\ r.bars \in Seq(Candle) /\ s.bars \in Seq(Candle)
        /\ r.outcome = Replay(r.bars, r.params)
        /\ s.outcome = Replay(s.bars, r.params)
    BY <2>1 DEF SoundRun
  <2>3. Len(r.bars) \in Int /\ Len(s.bars) \in Int
    BY <2>2
  <2>4. k \in Nat \ {0} /\ k < Len(r.bars) /\ k < Len(s.bars)
    <3>1. Min({Len(r.bars), Len(s.bars)}) = IF Len(r.bars) <= Len(s.bars) THEN Len(r.bars) ELSE Len(s.bars)
      BY <2>3, MinOfTwo
    <3> QED BY <2>3, <3>1
  <2>5. UpTo(Replay(r.bars, r.params), k) = UpTo(Replay(s.bars, r.params), k)
    BY <2>2, <2>4, PastDecides
  <2> QED BY <2>2, <2>5 DEF SignalsUpTo, UpTo
<1> QED BY <1>1, HarnessConsistent, PTL

\* Every bar of a holdout is later than every bar the cycle tuned on before,
\* for any lookback and any held-out fraction below one (DataSplit, _fetch).
THEOREM HoldoutAlwaysUnseen == Spec => []HoldoutUnseen
<1>1. HarnessInv => HoldoutUnseen
  BY DEF HarnessInv
<1> QED BY <1>1, HarnessConsistent, PTL

(***************************************************************************)
(* The walk-forward windows over the in-sample slice.                      *)
(***************************************************************************)

\* The in-sample slice is candles like the market it is cut from.
LEMMA InSampleCandles ==
  ASSUME Candles(market)
  PROVE  Candles(InSample(market))
<1> DEFINE n == Len(market)
           k == n - OosSize(n)
<1>1. market \in Seq(Candle) /\ market # << >> /\ n \in Nat /\ n >= 1 /\ DOMAIN market = 1 .. n
  BY EmptySeq, LenProperties DEF Candles
<1>2. k \in 1 .. n
  <2>1. CASE n >= 2
    <3>1. OosSize(n) \in 1 .. n - 1
      BY <1>1, <2>1, OosSizeBounds
    <3> QED BY <1>1, <3>1
  <2>2. CASE n = 1
    <3> DEFINE r == Rounded(n * OosFraction[1], OosFraction[2])
               x == Max({1, r})
    <3>1. r \in Nat
      BY <1>1, Share
    <3>2. x = IF 1 >= r THEN 1 ELSE r
      <4> HIDE DEF r
      <4> QED BY <3>1, MaxOfTwo
    <3>3. x \in Nat /\ x >= 1
      <4> HIDE DEF x, r
      <4> QED BY <3>1, <3>2
    <3>4. OosSize(n) = Min({x, n - 1})
      BY DEF OosSize
    <3>5. Min({x, 0}) = 0
      <4> HIDE DEF x
      <4>1. Min({x, 0}) = IF x <= 0 THEN x ELSE 0
        BY <3>3, MinOfTwo
      <4> QED BY <3>3, <4>1
    <3>6. n - 1 = 0
      BY <2>2
    <3> HIDE DEF x, n
    <3> QED BY <2>2, <3>4, <3>5, <3>6
  <2> QED BY <1>1, <2>1, <2>2
<1>3. InSample(market) = SubSeq(market, 1, k)
  BY DEF InSample
<1> HIDE DEF k, n
<1>4. \A i \in 1 .. k : market[i] \in Candle /\ i \in DOMAIN market
  <2>1. \A i \in 1 .. k : i \in 1 .. n
    BY <1>1, <1>2
  <2>2. \A i \in DOMAIN market : market[i] \in Candle
    BY <1>1, ElementOfSeq DEF n
  <2> QED BY <1>1, <2>1, <2>2
<1> DEFINE bars == SubSeq(market, 1, k)
<1>5. /\ bars \in Seq(Candle) /\ Len(bars) = k
      /\ \A i \in 1 .. k : bars[i] = market[i]
  <2>1. /\ SubSeq(market, 1, k) \in Seq(Candle)
        /\ Len(SubSeq(market, 1, k)) = IF 1 <= k THEN k - 1 + 1 ELSE 0
        /\ \A i \in 1 .. k - 1 + 1 : SubSeq(market, 1, k)[i] = market[1 + i - 1]
    BY <1>2, <1>4, SubSeqProperties
  <2>2. \A i \in 1 .. k : i \in 1 .. k - 1 + 1 /\ 1 + i - 1 = i
    BY <1>2
  <2>3. k - 1 + 1 = k /\ 1 <= k
    BY <1>2
  <2> QED BY <2>1, <2>2, <2>3
<1> HIDE DEF bars
<1>6. DOMAIN bars = 1 .. k /\ bars # << >>
  <2>1. DOMAIN bars = 1 .. Len(bars) /\ (bars = << >> => Len(bars) = 0)
    BY <1>5, LenProperties, EmptySeq
  <2> QED BY <1>2, <1>5, <2>1
<1>7. \A i, j \in DOMAIN bars : i < j => bars[i].time < bars[j].time
  BY <1>4, <1>5, <1>6 DEF Candles
<1> QED BY <1>3, <1>5, <1>6, <1>7 DEF Candles, bars

\* The first candle is the earliest and the last one the latest.
LEMMA CandleTimes ==
  ASSUME NEW bars, Candles(bars), NEW b \in ToSet(bars)
  PROVE  /\ b.time \in Int /\ bars[1].time \in Int /\ Last(bars).time \in Int
         /\ bars[1].time <= b.time /\ b.time <= Last(bars).time
<1>1. bars \in Seq(Candle) /\ Len(bars) \in Nat /\ Len(bars) >= 1 /\ DOMAIN bars = 1 .. Len(bars)
  BY EmptySeq, LenProperties DEF Candles
<1>2. PICK i \in 1 .. Len(bars) : b = bars[i]
  BY <1>1 DEF ToSet
<1>3. \A j \in 1 .. Len(bars) : bars[j].time \in Int
  <2>1. \A j \in 1 .. Len(bars) : bars[j] \in Candle
    BY <1>1, ElementOfSeq
  <2> QED BY <2>1 DEF Candle
<1>4. Last(bars) = bars[Len(bars)]
  BY DEF Last
<1>5. 1 \in DOMAIN bars /\ Len(bars) \in DOMAIN bars /\ i \in DOMAIN bars
  BY <1>1, <1>2
<1>6. (1 < i => bars[1].time < bars[i].time) /\ (i < Len(bars) => bars[i].time < bars[Len(bars)].time)
  BY <1>5 DEF Candles
<1>7. (1 = i \/ 1 < i) /\ (i = Len(bars) \/ i < Len(bars))
  <2>1. PICK l \in Nat : l = Len(bars)
    BY <1>1
  <2>2. i \in 1 .. l
    BY <1>2, <2>1
  <2>3. (1 = i \/ 1 < i) /\ (i = l \/ i < l)
    BY <2>2
  <2> QED BY <2>1, <2>3
<1>8. bars[1].time \in Int /\ bars[i].time \in Int /\ bars[Len(bars)].time \in Int
  BY <1>1, <1>3, <1>5
<1>9. bars[1].time <= bars[i].time /\ bars[i].time <= bars[Len(bars)].time
  BY <1>6, <1>7, <1>8
<1> QED BY <1>2, <1>4, <1>8, <1>9

\* Two passes of the loop are a whole number of steps apart.
LEMMA StepsApart ==
  ASSUME NEW start \in Int, NEW m \in Nat, NEW n \in Nat, NEW step \in Nat, m < n
  PROVE  start + m * step + step <= start + n * step
<1>1. (n - m) * step >= step
  <2>1. PICK d \in Nat : n - m = d + 1
    BY SMT
  <2>2. (d + 1) * step = d * step + step /\ d * step \in Nat
    BY <2>1
  <2>3. (n - m) * step = d * step + step
    BY <2>1, <2>2
  <2> QED BY <2>2, <2>3
<1>2. n * step = m * step + (n - m) * step
  OBVIOUS
<1>3. m * step \in Nat /\ n * step \in Nat /\ (n - m) * step \in Int
  OBVIOUS
<1> QED BY <1>1, <1>2, <1>3

\* A window trains on what lies before it tests, no bar is tested twice unless
\* the steps are shorter than the tests, and none is skipped that a training
\* window with data precedes: for any candles and any windows.
LEMMA WindowsTile ==
  ASSUME Candles(market) PROVE TestsTile
<1> DEFINE bars  == InSample(market)
           start == bars[1].time
           end   == Last(bars).time
<1>1. Candles(bars)
  BY InSampleCandles
<1>2. bars # << >>
  BY <1>1 DEF Candles
<1>3. \A b \in ToSet(bars) : /\ b.time \in Int /\ start \in Int /\ end \in Int
                             /\ start <= b.time /\ b.time <= end
  BY <1>1, CandleTimes
<1> HIDE DEF bars, start, end
<1> SUFFICES ASSUME NEW cfg \in WindowConfigs
    PROVE  LET windows == WalkForwardWindows(bars, cfg)
               Tests(b) == {k \in DOMAIN windows : b \in windows[k].test}
               Trained(b) ==
                 \E n \in 0..(b.time - Earliest(bars)) :
                   LET cursor == Earliest(bars) + n * cfg.step
                   IN  /\ b.time \in (cursor + cfg.train)..(cursor + cfg.train + cfg.test - 1)
                       /\ \E a \in ToSet(bars) : a.time \in cursor..(cursor + cfg.train - 1)
           IN  /\ \A k \in DOMAIN windows :
                    \A a \in windows[k].train, b \in windows[k].test : a.time < b.time
               /\ cfg.step >= cfg.test => \A b \in ToSet(bars) : Cardinality(Tests(b)) <= 1
               /\ cfg.step = cfg.test => \A b \in ToSet(bars) : Trained(b) => Tests(b) # {}
  BY DEF TestsTile, bars
<1> DEFINE windows == WalkForwardWindows(bars, cfg)
           Tests(b) == {k \in DOMAIN windows : b \in windows[k].test}
<1>4. PICK train \in Nat \ {0}, test \in Nat \ {0}, step \in Nat \ {0} :
        cfg.train = train /\ cfg.test = test /\ cfg.step = step
  BY HarnessAssumption DEF WalkForwardConfig
<1>5. \A k \in DOMAIN windows : k \in Cursors(bars, cfg) /\ windows[k] = WindowAt(bars, cfg, k)
  BY <1>2 DEF WalkForwardWindows
<1>6. \A k \in Cursors(bars, cfg) :
        WindowAt(bars, cfg, k).train # {} /\ WindowAt(bars, cfg, k).test # {}
          => k \in DOMAIN windows
  BY <1>2 DEF WalkForwardWindows
<1> HIDE DEF windows
<1>7. \A k : /\ WindowAt(bars, cfg, k).train
                  = {b \in ToSet(bars) : k <= b.time /\ b.time < k + train}
             /\ WindowAt(bars, cfg, k).test
                  = {b \in ToSet(bars) : k + train <= b.time /\ b.time < k + train + test}
  BY <1>4 DEF WindowAt, Between
<1>8. \A k \in Cursors(bars, cfg) : \E n \in Nat : n \in 0 .. end - start /\ k = start + n * step
  BY <1>4 DEF Cursors, start, end
<1>9. ToSet(bars) # {}
  <2>1. 1 \in DOMAIN bars
    BY <1>1, EmptySeq, LenProperties DEF Candles
  <2> QED BY <2>1 DEF ToSet
<1>10. start \in Int /\ end \in Int
  BY <1>3, <1>9
<1>11. \A k \in DOMAIN windows :
         \A a \in windows[k].train, b \in windows[k].test : a.time < b.time
  <2> SUFFICES ASSUME NEW k \in DOMAIN windows,
                      NEW a \in windows[k].train, NEW b \in windows[k].test
               PROVE  a.time < b.time
    OBVIOUS
  <2>1. PICK n \in Nat : k = start + n * step
    BY <1>5, <1>8
  <2>2. k \in Int
    BY <1>4, <1>10, <2>1
  <2>3. a \in ToSet(bars) /\ b \in ToSet(bars) /\ a.time < k + train /\ k + train <= b.time
    BY <1>5, <1>7
  <2>4. a.time \in Int /\ b.time \in Int
    BY <1>3, <2>3
  <2> QED BY <1>4, <2>2, <2>3, <2>4
<1>12. ASSUME cfg.step >= cfg.test, NEW b \in ToSet(bars)
       PROVE  Cardinality(Tests(b)) <= 1
  <2>1. \A j, k \in Tests(b) : j = k
    <3> SUFFICES ASSUME NEW j \in Tests(b), NEW k \in Tests(b), j # k PROVE FALSE
      OBVIOUS
    <3>1. /\ j \in Cursors(bars, cfg) /\ k \in Cursors(bars, cfg)
          /\ j + train <= b.time /\ b.time < j + train + test
          /\ k + train <= b.time /\ b.time < k + train + test
      BY <1>5, <1>7
    <3>2. PICK m \in Nat : j = start + m * step
      BY <1>8, <3>1
    <3>3. PICK n \in Nat : k = start + n * step
      BY <1>8, <3>1
    <3>4. m # n
      BY <3>2, <3>3
    <3>5. j \in Int /\ k \in Int /\ b.time \in Int /\ step >= test
      BY <1>3, <1>4, <1>10, <1>12, <3>2, <3>3
    <3>6. CASE m < n
      <4>1. j + step <= k
        BY <1>4, <1>10, <3>2, <3>3, <3>6, StepsApart
      <4> QED BY <1>4, <3>1, <3>5, <4>1
    <3>7. CASE n < m
      <4>1. k + step <= j
        BY <1>4, <1>10, <3>2, <3>3, <3>7, StepsApart
      <4> QED BY <1>4, <3>1, <3>5, <4>1
    <3> QED BY <3>4, <3>6, <3>7
  <2>2. CASE Tests(b) = {}
    <3>1. Cardinality(Tests(b)) = 0
      BY <2>2, FS_EmptySet
    <3> QED BY <3>1
  <2>3. CASE Tests(b) # {}
    <3>1. PICK k : Tests(b) = {k}
      <4> HIDE DEF Tests
      <4> QED BY <2>1, <2>3
    <3>2. Cardinality({k}) = 1
      BY FS_Singleton
    <3>3. Cardinality(Tests(b)) = 1
      <4> HIDE DEF Tests
      <4> QED BY <3>1, <3>2
    <3> QED BY <3>3
  <2> QED BY <2>2, <2>3
<1>13. ASSUME cfg.step = cfg.test, NEW b \in ToSet(bars),
              NEW n \in 0 .. b.time - Earliest(bars), NEW cursor, cursor = Earliest(bars) + n * cfg.step,
              b.time \in (cursor + cfg.train)..(cursor + cfg.train + cfg.test - 1),
              NEW a \in ToSet(bars), a.time \in cursor..(cursor + cfg.train - 1)
       PROVE  Tests(b) # {}
  <2>1. Earliest(bars) = start
    BY DEF Earliest, start
  <2>2. /\ b.time \in Int /\ a.time \in Int /\ b.time <= end /\ start <= b.time
    BY <1>3
  <2>3. n \in Nat /\ n \in 0 .. end - start
    BY <1>10, <2>1, <2>2
  <2>4. cursor = start + n * step /\ cursor \in Int
    BY <1>4, <1>10, <1>13, <2>1, <2>3
  <2>5. /\ cursor + train <= b.time /\ b.time < cursor + train + test
        /\ cursor <= a.time /\ a.time < cursor + train
    BY <1>4, <1>13, <2>2, <2>4
  <2>6. ~(cursor + train + test > end + step)
    BY <1>4, <1>10, <1>13, <2>2, <2>4, <2>5
  <2>7. cursor < end
    BY <1>4, <1>10, <2>2, <2>4, <2>5
  <2>8. cursor \in Cursors(bars, cfg)
    <3>1. cursor \in {start + i * cfg.step : i \in 0 .. end - start}
      BY <1>4, <2>3, <2>4
    <3>2. ~NoWindowFits(cfg, cursor, end)
      BY <1>4, <2>6 DEF NoWindowFits
    <3> QED BY <2>7, <3>1, <3>2 DEF Cursors, start, end
  <2>9. a \in WindowAt(bars, cfg, cursor).train /\ b \in WindowAt(bars, cfg, cursor).test
    BY <1>7, <2>5
  <2>10. cursor \in DOMAIN windows
    BY <1>6, <2>8, <2>9
  <2>11. b \in windows[cursor].test
    BY <1>5, <2>9, <2>10
  <2> QED BY <2>10, <2>11
<1> HIDE DEF Tests
<1>14. cfg.step = cfg.test => \A b \in ToSet(bars) :
         (\E n \in 0..(b.time - Earliest(bars)) :
            LET cursor == Earliest(bars) + n * cfg.step
            IN  /\ b.time \in (cursor + cfg.train)..(cursor + cfg.train + cfg.test - 1)
                /\ \E a \in ToSet(bars) : a.time \in cursor..(cursor + cfg.train - 1))
         => Tests(b) # {}
  BY <1>13
<1> QED BY <1>11, <1>12, <1>14 DEF Tests, windows

\* However the market changes, the windows over its in-sample slice tile it.
THEOREM TestsAlwaysTile == Spec => []TestsTile
<1>1. HarnessInv => TestsTile
  BY WindowsTile DEF HarnessInv
<1> QED BY <1>1, HarnessConsistent, PTL

(***************************************************************************)
(* The curves stored are those of the runs that are shown with them.       *)
(***************************************************************************)

\* The hash of a run names the number of its bars, the first and the last.
Hashed(r) ==
  /\ r.hash.n = Len(r.bars) /\ r.hash.first = r.bars[1] /\ r.hash.last = Last(r.bars)
  /\ r.segment = "out_of_sample" => Earliest(r.bars) <= Latest(r.bars)

\* A run of this stage has all bars of its slice of the market as it is now.
SizedNow(r) ==
  LET w == Window(Len(market))
  IN  Len(r.bars) = IF r.segment = "out_of_sample" THEN OosSize(w) ELSE w - OosSize(w)

\* A holdout was cut from no more bars than would be fetched now.
HoldoutsFit == \A r \in runs : r.segment = "out_of_sample" =>
  \E w \in MinCandles..Window(Len(market)) : Len(r.bars) = OosSize(w)

\* A holdout is smaller than what is in sample at any later stage.
HoldoutsSmaller == HoldoutShorter => \A r, s \in runs :
  /\ r.segment = "out_of_sample"
  /\ s.segment # "out_of_sample"
  /\ Rank[r.at] < Rank[s.at]
  => Len(r.bars) < Len(s.bars)

MeasuredBy(figures, at, segment) ==
  \E r \in runs : r.at = at /\ r.segment = segment /\ figures = Figures(r)

\* What is shown was measured by a run of its stage.
Measured ==
  /\ stage \in {"lab", "proposed", "tested", "kept"} => robustness = None
  /\ stage \in {"tested", "kept", "stressed"} \/ robustness # None
       => MeasuredBy(evidence, "proposed", "in_sample")
  /\ robustness # None =>
       /\ MeasuredBy(robustness.in_sample, "kept", "in_sample")
       /\ \A f \in robustness.out_of_sample : MeasuredBy(f, "kept", "out_of_sample")

\* A stored curve is that of a run of the last stage, under its hash.
Stored == \A hash \in DOMAIN artifacts : \E r \in runs :
  /\ r.at = "stressed"
  /\ r.segment \in {"in_sample", "out_of_sample"}
  /\ r.hash = hash
  /\ artifacts[hash] = Figures(r)

CurveInv ==
  /\ \A r \in runs : Hashed(r)
  /\ HoldoutsFit
  /\ HoldoutsSmaller
  /\ Measured
  /\ Stored

\* More bars leave no fewer in sample.
LEMMA InSampleGrows ==
  ASSUME NEW v \in Nat, NEW w \in Nat, 2 <= v, v <= w
  PROVE  v - OosSize(v) <= w - OosSize(w)
<1> DEFINE T == {i \in Nat : v - OosSize(v) <= i - OosSize(i)}
<1>1. v \in T
  <2>1. OosSize(v) \in 1 .. v - 1
    BY OosSizeBounds
  <2> QED BY <2>1
<1>2. \A i \in v .. w - 1 : i \in T => i + 1 \in T
  <2> SUFFICES ASSUME NEW i \in v .. w - 1, i \in T PROVE i + 1 \in T
    OBVIOUS
  <2>1. PICK m \in Nat : m = i + 1
    OBVIOUS
  <2>2. i \in Nat /\ i >= 2
    OBVIOUS
  <2>3. /\ OosSize(v) \in 1 .. v - 1 /\ OosSize(i) \in 1 .. i - 1
        /\ OosSize(m) <= OosSize(i) + 1 /\ OosSize(m) \in 1 .. i
    BY <2>1, <2>2, OosSizeBounds
  <2>4. v - OosSize(v) <= i - OosSize(i)
    OBVIOUS
  <2>5. v - OosSize(v) <= m - OosSize(m)
    BY <2>1, <2>2, <2>3, <2>4
  <2>6. m \in T
    BY <2>5
  <2> QED BY <2>1, <2>6
<1>3. v .. w \subseteq T
  <2> HIDE DEF T
  <2> QED BY <1>1, <1>2, Reached
<1>4. w \in v .. w
  OBVIOUS
<1>5. w \in T
  BY <1>3, <1>4
<1> QED BY <1>5

\* What a run of this stage is of.
LEMMA SizesOfStage ==
  ASSUME Candles(market), Len(Fetched) >= MinCandles,
         NEW r \in {InSampleRun(Fetched, candidate)} \union HoldoutRuns(Fetched, candidate)
                     \union StressRuns(Fetched, candidate) \union NeighbourRuns(Fetched, candidate)
  PROVE  SizedNow(r) /\ Hashed(r)
<1> DEFINE in  == InSample(Fetched)
           out == OutOfSample(Fetched)
           w   == Window(Len(market))
<1>1. /\ Len(in) = w - OosSize(w) /\ Len(out) = OosSize(w)
      /\ Earliest(out) <= Latest(out)
  BY Slices DEF MinCandles
<1> HIDE DEF in, out, w
<1>2. ASSUME NEW bars, NEW c, NEW cost, NEW segment, r = RunEngine(bars, c, cost, segment),
             \/ bars = in /\ segment # "out_of_sample"
             \/ bars = out /\ segment = "out_of_sample"
      PROVE  SizedNow(r) /\ Hashed(r)
  <2>1. /\ r.bars = bars /\ r.segment = segment /\ r.hash = ConfigHash(bars, c, cost)
    BY <1>2 DEF RunEngine
  <2>2. /\ r.hash.n = Len(bars) /\ r.hash.first = bars[1] /\ r.hash.last = Last(bars)
    BY <2>1 DEF ConfigHash
  <2>3. SizedNow(r)
    BY <1>1, <1>2, <2>1 DEF SizedNow, w
  <2>4. Hashed(r)
    BY <1>1, <1>2, <2>1, <2>2 DEF Hashed
  <2> QED BY <2>3, <2>4
<1>3. CASE r = InSampleRun(Fetched, candidate)
  BY <1>2, <1>3 DEF InSampleRun, in
<1>4. CASE r \in HoldoutRuns(Fetched, candidate)
  BY <1>2, <1>4 DEF HoldoutRuns, out
<1>5. CASE r \in StressRuns(Fetched, candidate)
  BY <1>2, <1>5 DEF StressRuns, in
<1>6. CASE r \in NeighbourRuns(Fetched, candidate)
  BY <1>2, <1>6 DEF NeighbourRuns, in
<1> QED BY <1>3, <1>4, <1>5, <1>6

\* The sizes of the runs when a stage adds its own.
LEMMA SizesAdded ==
  ASSUME HarnessInv, CurveInv, Len(Fetched) >= MinCandles, UNCHANGED market,
         stage \in {"proposed", "kept", "stressed"}, NEW new, runs' \subseteq runs \union new,
         \A r \in new : r.at = stage /\ SizedNow(r) /\ Hashed(r)
  PROVE  (\A r \in runs : Hashed(r))' /\ HoldoutsFit' /\ HoldoutsSmaller'
<1>1. PICK w \in Nat : w = Window(Len(market)) /\ w \in MinCandles .. LookbackCount
  <2>1. market \in Seq(Candle) /\ Len(market) \in Nat /\ LookbackCount \in Nat
    BY HarnessAssumption DEF HarnessInv, Candles
  <2>2. Window(Len(market)) = Len(Fetched)
    BY <2>1, FetchedBars DEF MinCandles
  <2>3. Window(Len(market)) = IF Len(market) <= LookbackCount THEN Len(market) ELSE LookbackCount
    BY Zenon DEF Window
  <2>4. Window(Len(market)) \in Nat /\ Window(Len(market)) <= LookbackCount
    BY <2>1, <2>3
  <2> QED BY <2>1, <2>2, <2>4 DEF MinCandles
<1>2. Len(market') = Len(market)
  OBVIOUS
<1>3. \A r \in runs' : r \in runs \/ r \in new
  OBVIOUS
<1>4. (\A r \in runs : Hashed(r))'
  <2>1. \A r \in runs' : Hashed(r)
    BY <1>3 DEF CurveInv
  <2> QED BY <2>1
<1>5. OosSize(w) \in Nat /\ w - OosSize(w) \in Nat
  <2>1. w >= 2
    BY <1>1 DEF MinCandles
  <2>2. OosSize(w) \in 1 .. w - 1
    BY <2>1, OosSizeBounds
  <2> QED BY <2>2
<1>6. \A r \in runs' : r.segment = "out_of_sample" =>
        \E v \in MinCandles .. w : Len(r.bars) = OosSize(v)
  <2> SUFFICES ASSUME NEW r \in runs', r.segment = "out_of_sample"
               PROVE  \E v \in MinCandles .. w : Len(r.bars) = OosSize(v)
    OBVIOUS
  <2>1. CASE r \in runs
    BY <1>1, <2>1 DEF CurveInv, HoldoutsFit
  <2>2. CASE r \in new
    <3>1. Len(r.bars) = OosSize(w)
      BY <1>1, <2>2 DEF SizedNow
    <3>2. w \in MinCandles .. w
      BY <1>1 DEF MinCandles
    <3> QED BY <3>1, <3>2
  <2> QED BY <1>3, <2>1, <2>2
<1>7. HoldoutsFit'
  BY <1>1, <1>2, <1>6 DEF HoldoutsFit
<1>8. HoldoutsSmaller'
  <2> SUFFICES ASSUME HoldoutShorter, NEW r \in runs', NEW s \in runs',
                      r.segment = "out_of_sample", s.segment # "out_of_sample",
                      Rank[r.at] < Rank[s.at]
               PROVE  Len(r.bars) < Len(s.bars)
    BY DEF HoldoutsSmaller
  <2>1. CASE r \in runs /\ s \in runs
    BY <2>1 DEF CurveInv, HoldoutsSmaller
  <2>2. CASE r \in new
    <3>1. r.at = stage
      BY <2>2
    <3>2. s.at = stage \/ (s \in runs /\ s.at \in {"proposed", "kept"} /\ stage = "stressed")
          \/ (s \in runs /\ s.at = "proposed" /\ stage = "kept")
      BY <1>3 DEF HarnessInv, RunsInOrder
    <3>3. ~(Rank[r.at] < Rank[s.at])
      BY <3>1, <3>2 DEF Rank
    <3> QED BY <3>3
  <2>3. CASE r \in runs /\ s \in new
    <3>1. Len(s.bars) = w - OosSize(w)
      BY <1>1, <2>3 DEF SizedNow
    <3>2. PICK v \in MinCandles .. w : Len(r.bars) = OosSize(v)
      BY <1>6
    <3>3. v \in Nat /\ 2 <= v /\ v <= w /\ v \in MinCandles .. LookbackCount
      BY <1>1, HarnessAssumption DEF MinCandles
    <3>4. v - OosSize(v) <= w - OosSize(w)
      BY <3>3, InSampleGrows
    <3>5. 2 * OosSize(v) < v
      BY <3>3 DEF HoldoutShorter
    <3>6. OosSize(v) \in 1 .. v - 1
      BY <3>3, OosSizeBounds
    <3> QED BY <1>1, <1>5, <3>1, <3>2, <3>3, <3>4, <3>5, <3>6
  <2> QED BY <1>3, <2>1, <2>2, <2>3
<1> QED BY <1>4, <1>7, <1>8

LEMMA InitCurves == Init => CurveInv
<1> SUFFICES ASSUME Init PROVE CurveInv
  OBVIOUS
<1>1. runs = {} /\ stage = "lab" /\ robustness = None /\ artifacts = << >>
  BY DEF Init
<1>2. DOMAIN artifacts = {}
  BY <1>1
<1>3. Measured
  BY <1>1 DEF Measured
<1> QED BY <1>1, <1>2, <1>3 DEF CurveInv, HoldoutsFit, HoldoutsSmaller, Stored

\* What was measured and stored stays so when runs are added.
LEMMA StillMeasured ==
  ASSUME runs \subseteq runs'
  PROVE  /\ \A figures, at, segment :
              MeasuredBy(figures, at, segment) =>
                \E r \in runs' : r.at = at /\ r.segment = segment /\ figures = Figures(r)
         /\ Stored /\ UNCHANGED artifacts => Stored'
<1>1. ASSUME NEW figures, NEW at, NEW segment, MeasuredBy(figures, at, segment)
      PROVE  \E r \in runs' : r.at = at /\ r.segment = segment /\ figures = Figures(r)
  BY <1>1 DEF MeasuredBy
<1>2. ASSUME Stored, UNCHANGED artifacts PROVE Stored'
  BY <1>2 DEF Stored
<1> QED BY <1>1, <1>2

LEMMA BacktestCurves ==
  ASSUME HarnessInv, CurveInv, Backtest
  PROVE  CurveInv'
<1> DEFINE run == InSampleRun(Fetched, candidate)
<1>1. /\ stage = "proposed" /\ stage' = "tested" /\ Len(Fetched) >= MinCandles
      /\ UNCHANGED <<market, candidate, robustness, artifacts>>
      /\ runs' = {run} /\ evidence' = Figures(run) /\ runs = {}
  BY DEF Backtest, Usable, SameMarket, HarnessInv, RunsInOrder
<1>2. Candles(market) /\ Legal(candidate)
  BY <1>1 DEF HarnessInv, CandidateLegal
<1>3. run.at = stage /\ run.segment = "in_sample"
  BY DEF InSampleRun, RunEngine
<1>4. SizedNow(run) /\ Hashed(run)
  BY <1>1, <1>2, SizesOfStage
<1> HIDE DEF run
<1>5. (\A r \in runs : Hashed(r))' /\ HoldoutsFit' /\ HoldoutsSmaller'
  BY <1>1, <1>3, <1>4, SizesAdded
<1>6. Measured'
  <2>1. robustness = None
    BY <1>1 DEF CurveInv, Measured
  <2>2. MeasuredBy(evidence, "proposed", "in_sample")'
    BY <1>1, <1>3 DEF MeasuredBy
  <2> QED BY <1>1, <2>1, <2>2 DEF Measured
<1>7. Stored'
  BY <1>1, StillMeasured DEF CurveInv
<1> QED BY <1>5, <1>6, <1>7 DEF CurveInv

LEMMA RobustnessCurves ==
  ASSUME HarnessInv, CurveInv, Robustness
  PROVE  CurveInv'
<1> DEFINE run  == InSampleRun(Fetched, candidate)
           held == HoldoutRuns(Fetched, candidate)
           new  == {run} \union held \union StressRuns(Fetched, candidate)
                     \union NeighbourRuns(Fetched, candidate)
<1>1. /\ stage = "kept" /\ stage' = "stressed" /\ Len(Fetched) >= MinCandles
      /\ UNCHANGED <<market, candidate, evidence, artifacts>>
      /\ robustness' = RobustnessEvidence(Fetched, candidate)
      /\ runs' = runs \union new
  BY DEF Robustness, Usable, SameMarket
<1>2. Candles(market) /\ Legal(candidate)
  BY <1>1 DEF HarnessInv, CandidateLegal
<1>3. /\ robustness'.in_sample = Figures(run)
      /\ robustness'.out_of_sample = {Figures(r) : r \in held}
  BY <1>1 DEF RobustnessEvidence
<1>4. run.at = stage /\ run.segment = "in_sample"
  BY DEF InSampleRun, RunEngine
<1>5. \A r \in held : r.at = stage /\ r.segment = "out_of_sample"
  BY DEF HoldoutRuns, RunEngine
<1>6. \A r \in new : SizedNow(r) /\ Hashed(r)
  BY <1>1, <1>2, SizesOfStage
<1>7. \A r \in new : r.at = stage
  <2>1. \A r \in new : RunNow(r)
    BY <1>1, <1>2, RunsOfStage DEF MinCandles
  <2> HIDE DEF new
  <2> QED BY <2>1 DEF RunNow
<1>8. run \in new /\ held \subseteq new
  OBVIOUS
<1> HIDE DEF run, held, new
<1>9. (\A r \in runs : Hashed(r))' /\ HoldoutsFit' /\ HoldoutsSmaller'
  BY <1>1, <1>6, <1>7, SizesAdded
<1>10. Measured'
  <2>1. MeasuredBy(evidence, "proposed", "in_sample")'
    <3>1. MeasuredBy(evidence, "proposed", "in_sample")
      BY <1>1 DEF CurveInv, Measured
    <3> QED BY <1>1, <3>1 DEF MeasuredBy
  <2>2. MeasuredBy(robustness.in_sample, "kept", "in_sample")'
    <3>1. run \in runs'
      BY <1>1, <1>8
    <3> QED BY <1>1, <1>3, <1>4, <3>1 DEF MeasuredBy
  <2>3. (\A f \in robustness.out_of_sample : MeasuredBy(f, "kept", "out_of_sample"))'
    <3> SUFFICES ASSUME NEW f \in robustness'.out_of_sample
                 PROVE  \E r \in runs' : r.at = "kept" /\ r.segment = "out_of_sample" /\ f = Figures(r)
      BY DEF MeasuredBy
    <3>1. PICK r \in held : f = Figures(r)
      BY <1>3
    <3>2. r \in runs'
      BY <1>1, <1>8
    <3> QED BY <1>1, <1>5, <3>1, <3>2
  <2> QED BY <1>1, <2>1, <2>2, <2>3 DEF Measured
<1>11. Stored'
  BY <1>1, StillMeasured DEF CurveInv
<1> QED BY <1>9, <1>10, <1>11 DEF CurveInv

LEMMA PersistCurves ==
  ASSUME HarnessInv, CurveInv, Persist
  PROVE  CurveInv'
<1> DEFINE new == Curves(Fetched, candidate)
<1>1. /\ stage = "stressed" /\ stage' = "done" /\ Len(Fetched) >= MinCandles
      /\ UNCHANGED <<market, candidate, evidence, robustness>>
      /\ artifacts' = Save(artifacts, new) /\ runs' = runs \union new
  BY DEF Persist, SameMarket
<1>2. Candles(market) /\ Legal(candidate)
  BY <1>1 DEF HarnessInv, CandidateLegal
<1>3. new \subseteq {InSampleRun(Fetched, candidate)} \union HoldoutRuns(Fetched, candidate)
  BY DEF Curves
<1>4. \A r \in new : SizedNow(r) /\ Hashed(r)
  BY <1>1, <1>2, <1>3, SizesOfStage
<1>5. \A r \in new : r.at = stage /\ r.segment \in {"in_sample", "out_of_sample"}
  BY <1>3 DEF InSampleRun, HoldoutRuns, RunEngine
<1> HIDE DEF new
<1>6. (\A r \in runs : Hashed(r))' /\ HoldoutsFit' /\ HoldoutsSmaller'
  BY <1>1, <1>4, <1>5, SizesAdded
<1>7. Measured'
  <2>1. /\ MeasuredBy(evidence, "proposed", "in_sample")
        /\ robustness # None => MeasuredBy(robustness.in_sample, "kept", "in_sample")
        /\ robustness # None =>
             \A f \in robustness.out_of_sample : MeasuredBy(f, "kept", "out_of_sample")
    BY <1>1 DEF CurveInv, Measured
  <2>2. \A figures, at, segment : MeasuredBy(figures, at, segment) =>
          \E r \in runs' : r.at = at /\ r.segment = segment /\ figures = Figures(r)
    BY <1>1, StillMeasured
  <2>3. MeasuredBy(evidence, "proposed", "in_sample")'
    BY <1>1, <2>1, <2>2 DEF MeasuredBy
  <2>4. (robustness # None => MeasuredBy(robustness.in_sample, "kept", "in_sample"))'
    BY <1>1, <2>1, <2>2 DEF MeasuredBy
  <2>5. (robustness # None =>
           \A f \in robustness.out_of_sample : MeasuredBy(f, "kept", "out_of_sample"))'
    BY <1>1, <2>1, <2>2 DEF MeasuredBy
  <2> QED BY <1>1, <2>3, <2>4, <2>5 DEF Measured
<1>8. Stored'
  <2> SUFFICES ASSUME NEW hash \in DOMAIN artifacts'
               PROVE  \E r \in runs' : /\ r.at = "stressed"
                                       /\ r.segment \in {"in_sample", "out_of_sample"}
                                       /\ r.hash = hash
                                       /\ artifacts'[hash] = Figures(r)
    BY DEF Stored
  <2>1. /\ hash \in DOMAIN artifacts \union {r.hash : r \in new}
        /\ artifacts'[hash] = IF \E r \in new : r.hash = hash
                              THEN Figures(CHOOSE r \in new : r.hash = hash) ELSE artifacts[hash]
    BY <1>1 DEF Save
  <2>2. CASE \E r \in new : r.hash = hash
    <3>1. PICK r \in new : r = (CHOOSE q \in new : q.hash = hash) /\ r.hash = hash
      BY <2>2
    <3>2. artifacts'[hash] = Figures(r) /\ r \in runs'
      BY <1>1, <2>1, <2>2, <3>1
    <3> QED BY <1>1, <1>5, <3>1, <3>2
  <2>3. CASE ~\E r \in new : r.hash = hash
    <3>1. hash \in DOMAIN artifacts /\ artifacts'[hash] = artifacts[hash]
      BY <2>1, <2>3
    <3> QED BY <1>1, <3>1 DEF CurveInv, Stored
  <2> QED BY <2>2, <2>3
<1> QED BY <1>6, <1>7, <1>8 DEF CurveInv

\* The steps that run nothing.
LEMMA QuietCurves ==
  ASSUME HarnessInv, CurveInv, UNCHANGED <<evidence, robustness, artifacts, runs>>,
         \/ UNCHANGED <<stage>>
         \/ stage = "lab" /\ stage' \in {"proposed", "refused"}
         \/ stage = "proposed" /\ stage' = "skipped"
         \/ stage = "tested" /\ stage' \in {"kept", "killed"}
         \/ stage = "kept" /\ stage' = "skipped"
         \/ stage = "stressed" /\ stage' = "done",
         Candles(market)', Len(market') \in {Len(market), Len(market) + 1}
  PROVE  CurveInv'
<1>1. (\A r \in runs : Hashed(r))' /\ HoldoutsSmaller'
  BY DEF CurveInv, HoldoutsSmaller
<1>2. HoldoutsFit'
  <2> SUFFICES ASSUME NEW r \in runs, r.segment = "out_of_sample"
               PROVE  \E w \in MinCandles .. Window(Len(market')) : Len(r.bars) = OosSize(w)
    BY DEF HoldoutsFit
  <2>1. PICK w \in MinCandles .. Window(Len(market)) : Len(r.bars) = OosSize(w)
    BY DEF CurveInv, HoldoutsFit
  <2>2. Window(Len(market)) \in Nat /\ Window(Len(market')) \in Nat
        /\ Window(Len(market)) <= Window(Len(market'))
    <3>1. Len(market) \in Nat /\ Len(market') \in Nat /\ LookbackCount \in Nat
      BY HarnessAssumption DEF HarnessInv, Candles
    <3>2. /\ Window(Len(market)) = IF Len(market) <= LookbackCount THEN Len(market) ELSE LookbackCount
          /\ Window(Len(market')) = IF Len(market') <= LookbackCount THEN Len(market') ELSE LookbackCount
      BY Zenon DEF Window
    <3> QED BY <3>1, <3>2
  <2>3. w \in MinCandles .. Window(Len(market'))
    BY <2>2 DEF MinCandles
  <2> QED BY <2>1, <2>3
<1>3. Measured'
  <2>1. \A figures, at, segment : MeasuredBy(figures, at, segment) <=>
          \E r \in runs' : r.at = at /\ r.segment = segment /\ figures = Figures(r)
    BY DEF MeasuredBy
  <2>2. Measured
    BY DEF CurveInv
  <2> QED BY <2>2 DEF Measured, MeasuredBy
<1>4. Stored'
  BY StillMeasured DEF CurveInv
<1> QED BY <1>1, <1>2, <1>3, <1>4 DEF CurveInv

LEMMA NextCurves == HarnessInv /\ HarnessInv' /\ CurveInv /\ [Next]_vars => CurveInv'
<1> SUFFICES ASSUME HarnessInv, HarnessInv', CurveInv, [Next]_vars PROVE CurveInv'
  OBVIOUS
<1>0. Candles(market)' /\ Len(market) \in Nat
  BY DEF HarnessInv, Candles
<1>1. ASSUME NEW p \in Proposals, Propose(p) PROVE CurveInv'
  BY <1>0, <1>1, QuietCurves DEF Propose, SameMarket
<1>2. CASE Backtest
  BY <1>2, BacktestCurves
<1>3. CASE Skip \/ Triage \/ PersistFails
  BY <1>0, <1>3, QuietCurves DEF Skip, Triage, PersistFails, SameMarket
<1>4. CASE Robustness
  BY <1>4, RobustnessCurves
<1>5. CASE Persist
  BY <1>5, PersistCurves
<1>6. CASE NewBar
  <2>1. Len(market') = Len(market) + 1
    <3>1. market \in Seq(Candle)
      BY DEF HarnessInv, Candles
    <3> QED BY <1>6, <3>1 DEF NewBar
  <2> QED BY <1>0, <1>6, <2>1, QuietCurves DEF NewBar, SameCandidate
<1>7. CASE Restate
  <2>1. Len(market') = Len(market)
    <3>1. market \in Seq(Candle) /\ market' \in Seq(Candle)
      BY <1>0 DEF HarnessInv, Candles
    <3>2. DOMAIN market' = DOMAIN market
      BY <1>7 DEF Restate
    <3> QED BY <3>1, <3>2, LenProperties
  <2> QED BY <1>0, <1>7, <2>1, QuietCurves DEF Restate, SameCandidate
<1>8. CASE UNCHANGED vars
  BY <1>0, <1>8, QuietCurves DEF vars
<1> QED BY <1>1, <1>2, <1>3, <1>4, <1>5, <1>6, <1>7, <1>8 DEF Next

\* What the hashes say is enough to tell the span of a curve, and its segment
\* where the holdout is the smaller slice.
LEMMA CurvesOwned == HarnessInv /\ CurveInv => CurveIsOwn
<1> SUFFICES ASSUME HarnessInv, CurveInv, robustness # None,
                    NEW f \in {evidence, robustness.in_sample} \union robustness.out_of_sample,
                    f.hash \in DOMAIN artifacts
             PROVE  /\ artifacts[f.hash].from = f.from
                    /\ artifacts[f.hash].to = f.to
                    /\ HoldoutShorter => artifacts[f.hash].segment = f.segment
  BY DEF CurveIsOwn
<1>1. PICK r \in runs : /\ f = Figures(r)
                        /\ \/ r.at \in {"proposed", "kept"} /\ r.segment = "in_sample"
                           \/ r.at = "kept" /\ r.segment = "out_of_sample"
  BY DEF CurveInv, Measured, MeasuredBy
<1>2. PICK s \in runs : /\ s.at = "stressed" /\ s.segment \in {"in_sample", "out_of_sample"}
                        /\ s.hash = f.hash /\ artifacts[f.hash] = Figures(s)
  BY DEF CurveInv, Stored
<1>3. \A q \in {r, s} : /\ Figures(q).segment = q.segment /\ Figures(q).hash = q.hash
                        /\ Figures(q).from = q.bars[1].time /\ Figures(q).to = Last(q.bars).time
  BY DEF Figures
<1>4. Hashed(r) /\ Hashed(s) /\ r.hash = s.hash
  BY <1>1, <1>2, <1>3 DEF CurveInv
<1>5. Len(r.bars) = Len(s.bars) /\ r.bars[1] = s.bars[1] /\ Last(r.bars) = Last(s.bars)
  BY <1>4 DEF Hashed
<1>6. artifacts[f.hash].from = f.from /\ artifacts[f.hash].to = f.to
  BY <1>1, <1>2, <1>3, <1>5
<1>7. ASSUME HoldoutShorter PROVE artifacts[f.hash].segment = f.segment
  <2>1. \A q \in {r, s} : Len(q.bars) \in Nat /\ Latest(q.bars) \in Int /\ Earliest(q.bars) \in Int
    <3> SUFFICES ASSUME NEW q \in {r, s}
                 PROVE  Len(q.bars) \in Nat /\ Latest(q.bars) \in Int /\ Earliest(q.bars) \in Int
      OBVIOUS
    <3>1. q.bars \in Seq(Candle) /\ Len(q.bars) >= 1
      BY DEF HarnessInv, SoundRun
    <3>2. q.bars[Len(q.bars)] \in Candle /\ q.bars[1] \in Candle /\ Len(q.bars) \in Nat
      BY <3>1
    <3> QED BY <3>2 DEF Latest, Earliest, Last, Candle
  <2>2. CASE r.segment = "in_sample" /\ s.segment = "out_of_sample"
    <3>1. Rank[r.at] <= Rank[s.at]
      BY <1>1, <1>2 DEF Rank
    <3>2. Latest(r.bars) < Earliest(s.bars)
      BY <2>2, <3>1 DEF HarnessInv, HoldoutUnseen
    <3>3. Latest(r.bars) = Latest(s.bars) /\ Earliest(s.bars) <= Latest(s.bars)
      BY <1>4, <1>5, <2>2 DEF Latest, Hashed
    <3> QED BY <2>1, <3>2, <3>3
  <2>3. CASE r.segment = "out_of_sample" /\ s.segment = "in_sample"
    <3>1. Rank[r.at] < Rank[s.at]
      BY <1>1, <1>2, <2>3 DEF Rank
    <3>2. Len(r.bars) < Len(s.bars)
      BY <1>7, <2>3, <3>1 DEF CurveInv, HoldoutsSmaller
    <3> QED BY <1>5, <2>1, <3>2
  <2>4. CASE r.segment = s.segment
    BY <1>1, <1>2, <1>3, <2>4
  <2> QED BY <1>1, <1>2, <2>2, <2>3, <2>4
<1> QED BY <1>6, <1>7

\* A curve shown beside an evidence is of its span, for any markets, fractions
\* and corrections; and of its segment, where the holdout is the smaller slice.
THEOREM CurveIsAlwaysOwn == Spec => []CurveIsOwn
<1>1. Init => CurveInv
  BY InitCurves
<1>2. HarnessInv /\ HarnessInv' /\ CurveInv /\ [Next]_vars => CurveInv'
  BY NextCurves
<1>3. HarnessInv /\ CurveInv => CurveIsOwn
  BY CurvesOwned
<1> QED BY <1>1, <1>2, <1>3, HarnessConsistent, PTL DEF Spec
=============================================================================
