--------------------------- MODULE Totals_proofs ---------------------------
(***************************************************************************)
(* What Total computes: an integer, 0 for no entries, and the total so far *)
(* plus the new entry when an entry is added.                              *)
(*                                                                         *)
(* Before it, two lemmas that stand for an induction: what holds at the    *)
(* first position and passes from one to the next holds up to the last.    *)
(* The sets of positions they are about are given by their elements, so    *)
(* that the lemmas need no predicate for a parameter.                      *)
(***************************************************************************)
EXTENDS Totals, FiniteSetTheorems, WellFoundedInduction, TLAPS

\* A set of numbers that is not empty has a least one.
LEMMA LeastElement ==
  ASSUME NEW T \in SUBSET Nat, T # {}
  PROVE  \E m \in T : \A n \in T : m <= n
<1> DEFINE R == OpToRel(<,Nat)
<1>1. IsWellFoundedOn(R, Nat)
  BY NatLessThanWellFounded
<1>2. PICK m \in T : \A n \in T : <<n, m>> \notin R
  <2> HIDE DEF R
  <2> QED BY <1>1, WFMin
<1>3. \A n \in T : ~(n < m)
  BY <1>2 DEF OpToRel
<1> QED BY <1>3

\* A set with m that has the successor of each of its members below n.
LEMMA Reached ==
  ASSUME NEW m \in Nat, NEW n \in Nat, NEW T, m \in T,
         \A i \in m .. n - 1 : i \in T => i + 1 \in T
  PROVE  m .. n \subseteq T
<1> DEFINE Missed == (m .. n) \ T
<1>1. ASSUME Missed # {} PROVE FALSE
  <2>1. Missed \in SUBSET Nat
    OBVIOUS
  <2>2. PICK i \in Missed : \A j \in Missed : i <= j
    <3> HIDE DEF Missed
    <3> QED BY <1>1, <2>1, LeastElement
  <2>3. i \in m .. n /\ i \notin T
    OBVIOUS
  <2>4. i # m
    BY <2>3
  <2>5. i - 1 \in m .. n - 1 /\ i - 1 + 1 = i /\ i - 1 \in m .. n
    BY <2>3, <2>4
  <2>6. i - 1 \in T
    <3>1. i - 1 \notin Missed
      <4> HIDE DEF Missed
      <4>1. i \in Nat /\ ~(i <= i - 1)
        BY <2>3
      <4> QED BY <2>2, <4>1
    <3> QED BY <2>5, <3>1
  <2> QED BY <2>3, <2>5, <2>6
<1> QED BY <1>1

(***************************************************************************)
(* Rounding a quotient down.                                               *)
(***************************************************************************)
LEMMA QuotientBounds ==
  ASSUME NEW x \in Nat, NEW y \in Nat, y > 0
  PROVE  /\ x \div y \in Nat
         /\ (x \div y) * y <= x
         /\ \A z \in Nat : z * y > x => x \div y < z
PROOF
  OBVIOUS

\* Rounding to the nearest is off by half a divisor at most, and never passes
\* an integer that is above the exact quotient.
THEOREM RoundedQuotientBounds ==
  ASSUME NEW x \in Nat, NEW y \in Nat, y > 0
  PROVE  /\ RoundedQuotient(x, y) \in Nat
         /\ 2 * (RoundedQuotient(x, y) * y) <= 2 * x + y
         /\ \A z \in Nat : z * y > x => RoundedQuotient(x, y) <= z
PROOF
  <1> DEFINE q == x \div y
             r == x - q * y
             c == RoundedQuotient(x, y)
  <1>1. /\ q \in Nat /\ q * y <= x
        /\ \A z \in Nat : z * y > x => q < z
    BY QuotientBounds
  <1>2. q * y \in Nat /\ (q + 1) * y = q * y + y
    BY <1>1
  <1>3. c = q \/ (c = q + 1 /\ 2 * r >= y)
    <2> HIDE DEF q
    <2>1. c = IF 2 * r > y \/ (2 * r = y /\ q % 2 = 1) THEN q + 1 ELSE q
      BY DEF RoundedQuotient, q
    <2>2. 2 * r \in Int
      BY <1>2
    <2> HIDE DEF c, r
    <2>3. QED
      BY <2>1, <2>2
  <1> HIDE DEF q, c
  <1>4. 2 * (c * y) <= 2 * x + y
    BY <1>1, <1>2, <1>3
  <1>5. QED
    BY <1>1, <1>3, <1>4 DEF c

(***************************************************************************)
(* A family of integers indexed by 1 .. n has finitely many tokens.        *)
(***************************************************************************)
LEMMA TokensFinite ==
  ASSUME NEW n \in Nat, NEW f \in [1 .. n -> Int]
  PROVE  IsFiniteSet(Tokens(f))
PROOF
  <1> DEFINE Row(i) == {i} \X (1 .. f[i])
             Rows   == {Row(i) : i \in 1 .. n}
             row    == [i \in 1 .. n |-> Row(i)]
  <1>1. IsFiniteSet(1 .. n)
    BY FS_Interval
  <1>2. row \in Surjection(1 .. n, Rows)
    BY DEF Surjection
  <1>3. IsFiniteSet(Rows)
    BY <1>1, <1>2, FS_Surjection
  <1>4. \A T \in Rows : IsFiniteSet(T)
    <2>1. SUFFICES ASSUME NEW i \in 1 .. n
                   PROVE  IsFiniteSet(Row(i))
      OBVIOUS
    <2>2. IsFiniteSet({i})
      BY FS_Singleton
    <2>3. IsFiniteSet(1 .. f[i])
      BY FS_Interval
    <2>4. QED
      BY <2>2, <2>3, FS_Product
  <1>5. Tokens(f) = UNION Rows
    BY DEF Tokens
  <1> HIDE DEF Rows
  <1>6. QED
    BY <1>3, <1>4, <1>5, FS_UNION

LEMMA NegatedType ==
  ASSUME NEW n \in Nat, NEW f \in [1 .. n -> Int]
  PROVE  Negated(f) \in [1 .. n -> Int]
PROOF
  BY DEF Negated

(***************************************************************************)
(* The total of a family of integers is an integer.                        *)
(***************************************************************************)
THEOREM TotalType ==
  ASSUME NEW n \in Nat, NEW f \in [1 .. n -> Int]
  PROVE  Total(f) \in Int
PROOF
  <1>1. IsFiniteSet(Tokens(f)) /\ IsFiniteSet(Tokens(Negated(f)))
    BY TokensFinite, NegatedType
  <1>2. /\ Cardinality(Tokens(f)) \in Nat
        /\ Cardinality(Tokens(Negated(f))) \in Nat
    BY <1>1, FS_CardinalityType
  <1>3. QED
    BY <1>2 DEF Total

(***************************************************************************)
(* The total of no entries is 0.                                           *)
(***************************************************************************)
THEOREM TotalEmpty ==
  ASSUME NEW f, DOMAIN f = {}
  PROVE  Total(f) = 0
PROOF
  <1>1. Tokens(f) = {} /\ Tokens(Negated(f)) = {}
    BY DEF Tokens, Negated
  <1>2. QED
    BY <1>1, FS_EmptySet DEF Total

LEMMA CountTo ==
  ASSUME NEW m \in Int
  PROVE  /\ IsFiniteSet(1 .. m)
         /\ Cardinality(1 .. m) = IF m > 0 THEN m ELSE 0
PROOF
  <1>1. 1 \in Int
    OBVIOUS
  <1>2. /\ IsFiniteSet(1 .. m)
        /\ Cardinality(1 .. m) = IF 1 > m THEN 0 ELSE m - 1 + 1
    BY ONLY <1>1, m \in Int, FS_Interval
  <1>3. (IF 1 > m THEN 0 ELSE m - 1 + 1) = IF m > 0 THEN m ELSE 0
    OBVIOUS
  <1>4. QED
    BY <1>2, <1>3

LEMMA TokensAppend ==
  ASSUME NEW n \in Nat, NEW f \in [1 .. n -> Int], NEW g \in [1 .. n + 1 -> Int],
         \A i \in 1 .. n : g[i] = f[i]
  PROVE  Cardinality(Tokens(g)) =
           Cardinality(Tokens(f)) + (IF g[n + 1] > 0 THEN g[n + 1] ELSE 0)
PROOF
  <1> DEFINE new == {n + 1} \X (1 .. g[n + 1])
  <1>1. Tokens(g) = Tokens(f) \union new
    <2>1. 1 .. n + 1 = (1 .. n) \union {n + 1}
      OBVIOUS
    <2>2. \A i \in 1 .. n : {i} \X (1 .. g[i]) = {i} \X (1 .. f[i])
      OBVIOUS
    <2>3. Tokens(g) = UNION {{i} \X (1 .. g[i]) : i \in (1 .. n) \union {n + 1}}
      BY <2>1 DEF Tokens
    <2>4. Tokens(g) = (UNION {{i} \X (1 .. g[i]) : i \in 1 .. n}) \union new
      BY <2>3
    <2>5. UNION {{i} \X (1 .. g[i]) : i \in 1 .. n} = Tokens(f)
      BY <2>2 DEF Tokens
    <2>6. QED
      BY <2>4, <2>5
  <1>2. Tokens(f) \cap new = {}
    BY DEF Tokens
  <1>3. IsFiniteSet({n + 1}) /\ Cardinality({n + 1}) = 1
    BY FS_Singleton
  <1>4. /\ IsFiniteSet(1 .. g[n + 1])
        /\ Cardinality(1 .. g[n + 1]) = IF g[n + 1] > 0 THEN g[n + 1] ELSE 0
    <2>1. g[n + 1] \in Int
      OBVIOUS
    <2>2. QED
      BY <2>1, CountTo
  <1>5. /\ IsFiniteSet(new)
        /\ Cardinality(new) = 1 * Cardinality(1 .. g[n + 1])
    BY <1>3, <1>4, FS_Product
  <1>6. /\ IsFiniteSet(Tokens(f))
        /\ Cardinality(Tokens(f)) \in Nat
    BY TokensFinite, FS_CardinalityType
  <1>7. Cardinality(Tokens(f) \cap new) = 0
    BY <1>2, FS_EmptySet
  <1> HIDE DEF new
  <1>8. Cardinality(Tokens(g)) = Cardinality(Tokens(f)) + Cardinality(new) - 0
    BY <1>1, <1>5, <1>6, <1>7, FS_Union
  <1>9. QED
    BY <1>4, <1>5, <1>6, <1>8

(***************************************************************************)
(* Adding an entry adds its value: together with TotalEmpty this makes     *)
(* Total the sum of the entries.                                           *)
(***************************************************************************)
THEOREM TotalAppend ==
  ASSUME NEW n \in Nat, NEW f \in [1 .. n -> Int], NEW g \in [1 .. n + 1 -> Int],
         \A i \in 1 .. n : g[i] = f[i]
  PROVE  Total(g) = Total(f) + g[n + 1]
PROOF
  <1>1. /\ Negated(f) \in [1 .. n -> Int]
        /\ Negated(g) \in [1 .. n + 1 -> Int]
        /\ \A i \in 1 .. n : Negated(g)[i] = Negated(f)[i]
        /\ Negated(g)[n + 1] = -g[n + 1]
    BY DEF Negated
  <1>2. Cardinality(Tokens(g)) =
          Cardinality(Tokens(f)) + (IF g[n + 1] > 0 THEN g[n + 1] ELSE 0)
    BY TokensAppend
  <1>3. Cardinality(Tokens(Negated(g))) =
          Cardinality(Tokens(Negated(f)))
            + (IF Negated(g)[n + 1] > 0 THEN Negated(g)[n + 1] ELSE 0)
    BY <1>1, TokensAppend
  <1>4. /\ Cardinality(Tokens(f)) \in Nat
        /\ Cardinality(Tokens(Negated(f))) \in Nat
    BY <1>1, TokensFinite, FS_CardinalityType
  <1>5. g[n + 1] \in Int
    OBVIOUS
  <1>6. QED
    BY <1>1, <1>2, <1>3, <1>4, <1>5 DEF Total

\* Entries that are all zero add up to nothing.
THEOREM TotalZero ==
  ASSUME NEW f, \A i \in DOMAIN f : f[i] = 0
  PROVE  Total(f) = 0
PROOF
  <1>1. Tokens(f) = {} /\ Tokens(Negated(f)) = {}
    BY DEF Tokens, Negated
  <1>2. QED
    BY <1>1, FS_EmptySet DEF Total

\* Changing the last entry changes the total by as much.
THEOREM TotalLast ==
  ASSUME NEW n \in Nat, NEW f \in [1 .. n + 1 -> Int], NEW g \in [1 .. n + 1 -> Int],
         \A i \in 1 .. n : g[i] = f[i]
  PROVE  Total(g) = Total(f) - f[n + 1] + g[n + 1]
PROOF
  <1> DEFINE h == [i \in 1 .. n |-> f[i]]
  <1>1. h \in [1 .. n -> Int] /\ \A i \in 1 .. n : f[i] = h[i] /\ g[i] = h[i]
    OBVIOUS
  <1>2. Total(h) \in Int /\ f[n + 1] \in Int /\ g[n + 1] \in Int
    BY <1>1, TotalType
  <1> HIDE DEF h
  <1>3. Total(f) = Total(h) + f[n + 1] /\ Total(g) = Total(h) + g[n + 1]
    BY <1>1, TotalAppend
  <1>4. QED
    BY <1>2, <1>3

\* The total of a single entry is its value.
THEOREM TotalOne ==
  ASSUME NEW x, NEW f, DOMAIN f = {x}, f[x] \in Int
  PROVE  Total(f) = f[x]
PROOF
  <1>1. ASSUME NEW m \in Int
        PROVE  Cardinality({x} \X (1 .. m)) = IF m > 0 THEN m ELSE 0
    <2>1. IsFiniteSet({x}) /\ Cardinality({x}) = 1
      BY FS_Singleton
    <2>2. IsFiniteSet(1 .. m) /\ Cardinality(1 .. m) = IF m > 0 THEN m ELSE 0
      BY CountTo
    <2>3. Cardinality({x} \X (1 .. m)) = 1 * Cardinality(1 .. m)
      BY <2>1, <2>2, FS_Product
    <2>4. QED
      BY <2>2, <2>3
  <1>2. Tokens(f) = {x} \X (1 .. f[x])
    BY DEF Tokens
  <1>3. Tokens(Negated(f)) = {x} \X (1 .. -f[x])
    <2>1. DOMAIN Negated(f) = {x} /\ Negated(f)[x] = -f[x]
      BY DEF Negated
    <2>2. QED
      BY <2>1 DEF Tokens
  <1>4. -f[x] \in Int
    OBVIOUS
  <1>5. /\ Cardinality(Tokens(f)) = IF f[x] > 0 THEN f[x] ELSE 0
        /\ Cardinality(Tokens(Negated(f))) = IF -f[x] > 0 THEN -f[x] ELSE 0
    BY <1>1, <1>2, <1>3, <1>4
  <1>6. QED
    BY <1>5 DEF Total

(***************************************************************************)
(* Counting down: a triple of numbers falls when the first of its          *)
(* components that changes gets smaller.                                   *)
(***************************************************************************)
Triple == Nat \X Nat \X Nat

Falls(s, t) ==
  \/ t[1] < s[1]
  \/ t[1] = s[1] /\ t[2] < s[2]
  \/ t[1] = s[1] /\ t[2] = s[2] /\ t[3] < s[3]

LEMMA TripleParts ==
  ASSUME NEW s \in Triple
  PROVE  s[1] \in Nat /\ s[2] \in Nat /\ s[3] \in Nat
  BY DEF Triple

\* No triple falls at every step: what counts down comes to an end.
THEOREM NoEndlessFall ==
  ASSUME NEW f \in [Nat -> Triple]
  PROVE  ~ \A n \in Nat : Falls(f[n], f[n + 1])
<1> SUFFICES ASSUME \A n \in Nat : Falls(f[n], f[n + 1])
             PROVE  FALSE
  OBVIOUS
<1> DEFINE a == [n \in Nat |-> f[n][1]]
           b == [n \in Nat |-> f[n][2]]
           c == [n \in Nat |-> f[n][3]]
<1>1. a \in [Nat -> Nat] /\ b \in [Nat -> Nat] /\ c \in [Nat -> Nat]
  BY TripleParts
<1>2. \A n \in Nat : \/ a[n + 1] < a[n]
                     \/ a[n + 1] = a[n] /\ b[n + 1] < b[n]
                     \/ a[n + 1] = a[n] /\ b[n + 1] = b[n] /\ c[n + 1] < c[n]
  BY DEF Falls
<1>3. \A n \in Nat : n + 1 \in Nat
  OBVIOUS
<1> HIDE DEF a, b, c
<1>4. ASSUME NEW N \in SUBSET Nat, N # {}, NEW g \in [Nat -> Nat]
      PROVE  \E m \in N : \A n \in N : g[m] <= g[n]
  <2> DEFINE V == {g[n] : n \in N}
  <2>1. V \in SUBSET Nat /\ V # {}
    BY <1>4
  <2>2. PICK v \in V : \A w \in V : v <= w
    <3> HIDE DEF V
    <3> QED BY <2>1, LeastElement
  <2> QED BY <2>2
<1>5. PICK i \in Nat : \A n \in Nat : a[i] <= a[n]
  BY <1>1, <1>4
<1> DEFINE A == {n \in Nat : a[n] = a[i]}
<1>6. A \in SUBSET Nat /\ A # {} /\ \A n \in A : n + 1 \in A
  <2>1. ASSUME NEW n \in Nat, a[n] = a[i] PROVE n + 1 \in Nat /\ a[n + 1] = a[i]
    <3>1. n + 1 \in Nat /\ a[n + 1] \in Nat /\ a[n] \in Nat /\ a[i] \in Nat
      BY <1>1, <1>3
    <3>2. a[n + 1] <= a[n]
      BY <1>2, <3>1
    <3>3. a[i] <= a[n + 1]
      BY <1>5, <3>1
    <3> QED BY <2>1, <3>1, <3>2, <3>3
  <2> QED BY <2>1
<1>7. PICK j \in A : \A n \in A : b[j] <= b[n]
  <2> HIDE DEF A
  <2> QED BY <1>1, <1>4, <1>6
<1> DEFINE B == {n \in A : b[n] = b[j]}
<1>8. B \in SUBSET Nat /\ B # {} /\ \A n \in B : n \in A /\ n + 1 \in B
  <2>1. ASSUME NEW n \in A, b[n] = b[j] PROVE n + 1 \in A /\ b[n + 1] = b[j]
    <3>1. /\ n \in Nat /\ n + 1 \in Nat /\ n + 1 \in A /\ j \in Nat
          /\ a[n + 1] = a[n] /\ a[n] \in Nat
      BY <1>1, <1>6
    <3>2. b[n + 1] \in Nat /\ b[n] \in Nat /\ b[j] \in Nat
      BY <1>1, <3>1
    <3>3. b[n + 1] <= b[n]
      BY <1>2, <3>1, <3>2
    <3>4. b[j] <= b[n + 1]
      BY <1>7, <3>1
    <3> QED BY <2>1, <3>1, <3>2, <3>3, <3>4
  <2>2. B \subseteq A /\ j \in B
    OBVIOUS
  <2> QED BY <1>6, <2>1, <2>2
<1>9. PICK k \in B : \A n \in B : c[k] <= c[n]
  <2> HIDE DEF B
  <2> QED BY <1>1, <1>4, <1>8
<1>10. k \in Nat /\ k + 1 \in B /\ k + 1 \in Nat
  BY <1>8
<1>11. c[k + 1] < c[k]
  <2>1. a[k + 1] = a[k] /\ b[k + 1] = b[k] /\ a[k] \in Nat /\ b[k] \in Nat
    BY <1>1, <1>8, <1>10
  <2> QED BY <1>2, <1>10, <2>1
<1> QED BY <1>1, <1>9, <1>10, <1>11
================================================================================
