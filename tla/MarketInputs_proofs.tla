-------------------------- MODULE MarketInputs_proofs --------------------------
(***************************************************************************)
(* The two components that read the market for the agents, each with its   *)
(* own variables and its own specification: the pair screener, and the     *)
(* market context.                                                         *)
(***************************************************************************)
EXTENDS PairScreener, MarketContext, Totals_proofs, SequenceTheorems

(***************************************************************************)
(* The pair screener.  The shortlist of a screen is diverse, cheapest      *)
(* first and within its size, for every configuration and whatever the     *)
(* provider answers.                                                       *)
(*                                                                         *)
(* The invariant adds what the loop of the selection maintains: everything *)
(* still to be considered is eligible and no cheaper than what was         *)
(* selected.                                                               *)
(*                                                                         *)
(* And every name of the configuration is accounted for: it is on the      *)
(* shortlist or left out, as often as it was asked for, for a reason that  *)
(* is true at the end.  A second invariant counts, while the screen runs,  *)
(* the names that wait, are chosen and are left out.                       *)
(***************************************************************************)

\* Before the selection there is nothing to select from.
NothingYet == stage \in {"screening", "raised"} => left = {} /\ shortlist = << >>

\* What is left is eligible, and no cheaper than what is selected.
LeftOver ==
  /\ left \subseteq DOMAIN profiles
  /\ \A k \in left : Ineligibility(profiles[k]) = None
  /\ \A k \in left, n \in DOMAIN shortlist :
       NotCostlier(profiles[shortlist[n]], profiles[k])

SelectionInv ==
  /\ NothingYet
  /\ shortlist \in Seq(DOMAIN profiles)
  /\ LeftOver
  /\ ShortlistDiverse

-----------------------------------------------------------------------------
\* Nothing is selected before the first pair is screened (PairScreener.screen).
LEMMA InitSelection == Init => SelectionInv
  BY ScreenConfigAssumption
  DEF Init, SelectionInv, NothingYet, LeftOver, ShortlistDiverse

\* An empty selection is diverse, whatever is screened next (PairScreener.screen).
LEMMA NothingSelected ==
  ASSUME shortlist' = << >>, left' = {}
  PROVE  SelectionInv'
  BY ScreenConfigAssumption
  DEF SelectionInv, NothingYet, LeftOver, ShortlistDiverse

\* Screening a pair selects none (PairScreener.screen).
LEMMA ScreeningKeeps ==
  ASSUME SelectionInv, RefuseName \/ ScreenPair \/ ScreenRaises
  PROVE  SelectionInv'
<1>1. stage = "screening" /\ left' = left /\ shortlist' = shortlist
  BY DEF RefuseName, ScreenPair, ScreenRaises, Screening
<1>2. left = {} /\ shortlist = << >>
  BY <1>1 DEF SelectionInv, NothingYet
<1> QED BY <1>1, <1>2, NothingSelected

\* The selection starts from the eligible profiles (_select_shortlist).
LEMMA AssessKeeps ==
  ASSUME SelectionInv, Assess
  PROVE  SelectionInv'
<1>1. shortlist = << >> /\ shortlist' = << >>
  BY DEF Assess, SelectionInv, NothingYet
<1>2. left' = {k \in DOMAIN profiles : Ineligibility(profiles[k]) = None}
      /\ profiles' = profiles /\ stage' = "selecting"
  BY DEF Assess
<1> QED
  BY <1>1, <1>2, ScreenConfigAssumption
  DEF SelectionInv, NothingYet, LeftOver, ShortlistDiverse

\* Leaving a profile out leaves the selection as it is (_select_shortlist).
LEMMA LeavingOutKeeps ==
  ASSUME SelectionInv,
         left' \subseteq left,
         stage # "screening", stage # "raised", stage' \notin {"screening", "raised"},
         UNCHANGED <<shortlist, profiles, returns>>
  PROVE  SelectionInv'
<1>1. ShortlistDiverse'
  BY DEF SelectionInv, ShortlistDiverse, TooCorrelated
<1>2. LeftOver'
  BY DEF SelectionInv, LeftOver
<1> QED BY <1>1, <1>2 DEF SelectionInv, NothingYet

\* Selecting the cheapest profile left, if it is diverse and there is room,
\* keeps the selection in order and diverse (_select_shortlist).
LEMMA SelectingKeeps ==
  ASSUME SelectionInv, NEW k \in left,
         stage = "selecting", stage' = stage,
         ~Full, Diverse(k),
         \A j \in left \ {k} : Precedes(k, j),
         shortlist' = Append(shortlist, k),
         left' = left \ {k},
         UNCHANGED <<profiles, returns>>
  PROVE  SelectionInv'
<1>1. k \in DOMAIN profiles /\ Ineligibility(profiles[k]) = None
  BY DEF SelectionInv, LeftOver
<1>2. /\ shortlist \in Seq(DOMAIN profiles)
      /\ shortlist' \in Seq(DOMAIN profiles')
      /\ Len(shortlist) \in Nat
      /\ Len(shortlist') = Len(shortlist) + 1
      /\ DOMAIN shortlist' = 1 .. Len(shortlist) + 1
      /\ DOMAIN shortlist = 1 .. Len(shortlist)
  BY <1>1 DEF SelectionInv
<1>3. \A n \in DOMAIN shortlist' :
        \/ n \in DOMAIN shortlist /\ shortlist'[n] = shortlist[n]
        \/ n = Len(shortlist) + 1 /\ shortlist'[n] = k
  BY <1>1, <1>2
<1>4. Len(shortlist') <= ShortlistSize
  BY <1>2, ScreenConfigAssumption DEF Full
<1>5. \A n \in DOMAIN shortlist' : Ineligibility(profiles'[shortlist'[n]]) = None
  BY <1>1, <1>3 DEF SelectionInv, ShortlistDiverse
<1>6. ASSUME NEW m \in DOMAIN shortlist', NEW n \in DOMAIN shortlist', m < n
      PROVE  /\ NotCostlier(profiles'[shortlist'[m]], profiles'[shortlist'[n]])
             /\ ~TooCorrelated(profiles[shortlist'[n]].pair, profiles[shortlist'[m]].pair)
  <2>1. m \in DOMAIN shortlist /\ shortlist'[m] = shortlist[m]
    BY <1>2, <1>3, <1>6
  <2>2. CASE n \in DOMAIN shortlist /\ shortlist'[n] = shortlist[n]
    BY <1>6, <2>1, <2>2 DEF SelectionInv, ShortlistDiverse
  <2>3. CASE shortlist'[n] = k
    BY <2>1, <2>3 DEF SelectionInv, LeftOver, Diverse
  <2> QED BY <1>3, <2>2, <2>3
<1>7. ShortlistDiverse'
  BY <1>4, <1>5, <1>6 DEF ShortlistDiverse, TooCorrelated
<1>8. LeftOver'
  <2>1. left' \subseteq DOMAIN profiles' /\ \A j \in left' : Ineligibility(profiles'[j]) = None
    BY DEF SelectionInv, LeftOver
  <2>2. ASSUME NEW j \in left', NEW n \in DOMAIN shortlist'
        PROVE  NotCostlier(profiles'[shortlist'[n]], profiles'[j])
    <3>1. j \in left /\ Precedes(k, j)
      OBVIOUS
    <3>2. CASE n \in DOMAIN shortlist /\ shortlist'[n] = shortlist[n]
      BY <3>1, <3>2 DEF SelectionInv, LeftOver
    <3>3. CASE shortlist'[n] = k
      BY <3>1, <3>3 DEF Precedes
    <3> QED BY <1>3, <3>2, <3>3
  <2> QED BY <2>1, <2>2 DEF LeftOver
<1> QED BY <1>2, <1>7, <1>8 DEF SelectionInv, NothingYet

\* One turn of the loop keeps the selection diverse (_select_shortlist).
LEMMA ConsiderKeeps ==
  ASSUME SelectionInv, NEW k \in left, Consider(k)
  PROVE  SelectionInv'
<1>1. /\ stage = "selecting" /\ stage' = stage
      /\ profiles' = profiles /\ returns' = returns
      /\ \A j \in left \ {k} : Precedes(k, j)
  BY DEF Consider
<1>2. CASE shortlist' = shortlist /\ left' = left \ {k}
  BY <1>1, <1>2, LeavingOutKeeps
<1>3. CASE ~Full /\ Diverse(k) /\ shortlist' = Append(shortlist, k) /\ left' = left \ {k}
  BY <1>1, <1>3, SelectingKeeps
<1> QED BY <1>2, <1>3 DEF Consider, LeaveOutFull

\* The invariant of the screen is inductive.
LEMMA StepSelection == SelectionInv /\ [Next]_vars => SelectionInv'
<1> SUFFICES ASSUME SelectionInv, [Next]_vars
             PROVE  SelectionInv'
  OBVIOUS
<1>1. CASE RefuseName \/ ScreenPair \/ ScreenRaises
  BY <1>1, ScreeningKeeps
<1>2. CASE Assess
  BY <1>2, AssessKeeps
<1>3. CASE \E k \in left : Consider(k)
  BY <1>3, ConsiderKeeps
<1>4. CASE Report
  <2>1. /\ stage = "selecting" /\ stage' = "reported" /\ left' = left
        /\ UNCHANGED <<shortlist, profiles, returns>>
    BY <1>4 DEF Report
  <2> QED BY <2>1, LeavingOutKeeps
<1>5. CASE UNCHANGED vars
  <2>1. ShortlistDiverse'
    BY <1>5 DEF vars, SelectionInv, ShortlistDiverse, TooCorrelated
  <2> QED BY <1>5, <2>1 DEF vars, SelectionInv, NothingYet, LeftOver
<1> QED BY <1>1, <1>2, <1>3, <1>4, <1>5 DEF Next

\* No shortlist ever has two pairs that move together, a dearer pair before a
\* cheaper one, a pair that is not eligible, or more pairs than asked for
\* (_select_shortlist).
THEOREM ShortlistAlwaysDiverse == Spec => []ShortlistDiverse
<1>1. SelectionInv => ShortlistDiverse
  BY DEF SelectionInv
<1> QED BY <1>1, InitSelection, StepSelection, PTL DEF Spec

-----------------------------------------------------------------------------
(* Every pair asked for is accounted for. *)

Whose(n) == IF Pairs[n] \in DOMAIN Canonical THEN Canonical[Pairs[n]] ELSE Pairs[n]
AskedSoFar(p) == {n \in 1 .. next - 1 : Whose(n) = p}

\* The profiles that are not judged yet.
Waiting(p) == IF stage = "screening" THEN Named(p, profiles)
              ELSE {k \in left : profiles[k].pair = p}

Names == {Canonical[q] : q \in DOMAIN Canonical} \union Range(Pairs)

\* Each time a pair was asked for is in one place.
Tally == stage # "raised" => \A p \in Names :
  Cardinality(AskedSoFar(p))
    = Cardinality(Waiting(p)) + Cardinality(Selected(p)) + Cardinality(Named(p, excluded))

Lists == profiles \in Seq(ToSet(profiles)) /\ excluded \in Seq(ToSet(excluded))

Progress ==
  /\ next \in 1 .. Len(Pairs) + 1
  /\ stage \in {"screening", "selecting", "reported", "raised"}
  /\ stage \in {"selecting", "reported"} => next = Len(Pairs) + 1
  /\ stage = "reported" => left = {}

\* No profile is selected twice, and each one selected comes before those left.
Chosen ==
  /\ Cardinality(Range(shortlist)) = Len(shortlist)
  /\ left \intersect Range(shortlist) = {}
  /\ \A j \in Range(shortlist), k \in left : Precedes(j, k)

Misnamed(e) ==
  /\ e.reason = "invalid pair format"
  /\ \E i \in DOMAIN Pairs : Pairs[i] = e.pair /\ Pairs[i] \notin DOMAIN Canonical

Before(k) == {j \in Range(shortlist) : Precedes(j, k)}

\* A reason that held when k was left out, and what is needed for it to hold
\* whatever is selected after that.
Lasting(k, reason) ==
  \/ /\ reason = "shortlist full"
     /\ Full
     /\ \A j \in Range(shortlist) : Precedes(j, k)
  \/ /\ reason = "correlation"
     /\ Cardinality(Before(k)) < ShortlistSize
     /\ \E j \in Before(k) : TooCorrelated(profiles[k].pair, profiles[j].pair)
     /\ \A j \in left : Precedes(k, j)
  \/ /\ reason \in {"insufficient data", "coverage", "cost-to-move"}
     /\ Ineligibility(profiles[k]) = reason

Explained(e) == \E k \in DOMAIN profiles \ (left \union Range(shortlist)) :
  profiles[k].pair = e.pair /\ Lasting(k, e.reason)

Reasons == \A e \in ToSet(excluded) :
  \/ Misnamed(e)
  \/ stage \in {"selecting", "reported"} /\ Explained(e)

AccountInv ==
  /\ SelectionInv
  /\ Lists
  /\ Progress
  /\ Chosen
  /\ Tally
  /\ Reasons

-----------------------------------------------------------------------------
(* Counting positions. *)

LEMMA Positions ==
  ASSUME NEW n \in Nat, NEW S, S \subseteq 1 .. n
  PROVE  IsFiniteSet(S) /\ Cardinality(S) \in Nat
<1>1. IsFiniteSet(1 .. n)
  BY FS_Interval
<1>2. IsFiniteSet(S)
  BY <1>1, FS_Subset
<1> QED BY <1>2, FS_CardinalityType

\* One position more.
LEMMA OneMore ==
  ASSUME NEW n \in Nat, NEW S, S \subseteq 1 .. n, NEW x, x \notin S
  PROVE  Cardinality(S \union {x}) = Cardinality(S) + 1
BY Positions, FS_AddElement

\* One position less.
LEMMA OneLess ==
  ASSUME NEW n \in Nat, NEW S, S \subseteq 1 .. n, NEW x \in S
  PROVE  Cardinality(S \ {x}) = Cardinality(S) - 1
BY Positions, FS_RemoveElement

LEMMA Appended ==
  ASSUME NEW s, s \in Seq(ToSet(s)), NEW e
  PROVE  /\ Append(s, e) \in Seq(ToSet(Append(s, e)))
         /\ Len(s) \in Nat /\ Len(Append(s, e)) = Len(s) + 1
         /\ DOMAIN s = 1 .. Len(s) /\ DOMAIN Append(s, e) = 1 .. Len(s) + 1
         /\ \A k \in 1 .. Len(s) : Append(s, e)[k] = s[k]
         /\ Append(s, e)[Len(s) + 1] = e
<1> DEFINE T == ToSet(s) \union {e}
<1>1. s \in Seq(T)
  BY SeqMonotonic
<1>2. e \in T
  OBVIOUS
<1> HIDE DEF T
<1>3. /\ Append(s, e) \in Seq(T)
      /\ Len(s) \in Nat /\ Len(Append(s, e)) = Len(s) + 1
      /\ DOMAIN s = 1 .. Len(s) /\ DOMAIN Append(s, e) = 1 .. Len(s) + 1
      /\ \A k \in 1 .. Len(s) : Append(s, e)[k] = s[k]
      /\ Append(s, e)[Len(s) + 1] = e
  BY <1>1, <1>2
<1>4. ToSet(Append(s, e)) = T
  <2>1. 1 .. Len(s) + 1 = (1 .. Len(s)) \union {Len(s) + 1}
    BY <1>3
  <2>2. ToSet(s) = {s[k] : k \in 1 .. Len(s)}
    BY <1>3 DEF ToSet
  <2>3. ToSet(Append(s, e)) = {Append(s, e)[k] : k \in 1 .. Len(s) + 1}
    BY <1>3 DEF ToSet
  <2>4. ToSet(Append(s, e)) = ToSet(s) \union {e}
    BY <1>3, <2>1, <2>2, <2>3
  <2> QED BY <2>4 DEF T
<1> QED BY <1>3, <1>4

LEMMA NamedAppended ==
  ASSUME NEW s, s \in Seq(ToSet(s)), NEW e, NEW p
  PROVE  /\ Cardinality(Named(p, s)) \in Nat
         /\ Named(p, s) \subseteq 1 .. Len(s)
         /\ Cardinality(Named(p, Append(s, e)))
              = Cardinality(Named(p, s)) + (IF e.pair = p THEN 1 ELSE 0)
<1> DEFINE t == Append(s, e)
<1>1. PICK n \in Nat : n = Len(s) /\ DOMAIN s = 1 .. n /\ DOMAIN t = 1 .. n + 1
                       /\ (\A k \in 1 .. n : t[k] = s[k]) /\ t[n + 1] = e
  BY Appended
<1> HIDE DEF t
<1>2. Named(p, s) \subseteq 1 .. n /\ Cardinality(Named(p, s)) \in Nat
  <2>1. Named(p, s) \subseteq 1 .. n
    BY <1>1 DEF Named
  <2> QED BY <2>1, Positions
<1>3. 1 .. n + 1 = (1 .. n) \union {n + 1} /\ n + 1 \notin 1 .. n
  OBVIOUS
<1>4. Named(p, t) = IF e.pair = p THEN Named(p, s) \union {n + 1} ELSE Named(p, s)
  BY <1>1, <1>3 DEF Named
<1>5. n + 1 \notin Named(p, s)
  BY <1>2, <1>3
<1>6. Cardinality(Named(p, t)) = Cardinality(Named(p, s)) + (IF e.pair = p THEN 1 ELSE 0)
  <2>1. Cardinality(Named(p, s) \union {n + 1}) = Cardinality(Named(p, s)) + 1
    BY <1>2, <1>5, OneMore
  <2>2. CASE e.pair = p
    BY <1>4, <2>1, <2>2
  <2>3. CASE e.pair # p
    BY <1>2, <1>4, <2>3
  <2> QED BY <2>2, <2>3
<1> QED BY <1>1, <1>2, <1>6 DEF t

-----------------------------------------------------------------------------
(* The loop over the profiles. *)

Reason(k) == Ineligibility(profiles[k])

\* Its turn for the profile k.
Turn(list, k) ==
  IF Reason(k) = None THEN list ELSE Append(list, Exclusion(profiles[k].pair, Reason(k)))

LEMMA LeftOutLoop ==
  ASSUME NEW n \in Nat, n = Len(profiles)
  PROVE  \E f : /\ f[0] = excluded
                /\ \A k \in 1 .. n : f[k] = Turn(f[k - 1], k)
                /\ LeftOut = f[n]
<1> DEFINE Step(g, k) == IF k = 0 THEN excluded ELSE Turn(g[k - 1], k)
           IsLoop(g, m) == g = [k \in 0 .. m |-> Step(g, k)]
           Defined == {m \in Nat : \E g : IsLoop(g, m)}
<1>1. 0 .. n \subseteq Defined
  <2>1. 0 \in Defined
    <3>1. IsLoop([k \in 0 .. 0 |-> excluded], 0)
      OBVIOUS
    <3> QED BY <3>1
  <2>2. ASSUME NEW j \in 0 .. n - 1, j \in Defined PROVE j + 1 \in Defined
    <3>1. PICK g : IsLoop(g, j)
      BY <2>2
    <3> DEFINE h == [k \in 0 .. j + 1 |-> IF k = j + 1 THEN Step(g, j + 1) ELSE g[k]]
    <3>2. \A k \in 0 .. j : h[k] = g[k] /\ g[k] = Step(g, k)
      <4>1. \A k \in 0 .. j : k \in 0 .. j + 1 /\ k # j + 1
        OBVIOUS
      <4> QED BY <3>1, <4>1
    <3>3. \A k \in 0 .. j + 1 : Step(h, k) = Step(g, k)
      <4>1. \A k \in 0 .. j + 1 : k = 0 \/ k - 1 \in 0 .. j
        OBVIOUS
      <4>2. \A k \in 0 .. j + 1 : k = 0 \/ h[k - 1] = g[k - 1]
        BY <3>2, <4>1
      <4> HIDE DEF h
      <4> QED BY <4>2
    <3>4. \A k \in 0 .. j + 1 : h[k] = Step(h, k)
      <4>1. \A k \in 0 .. j + 1 : k = j + 1 \/ k \in 0 .. j
        OBVIOUS
      <4>2. h[j + 1] = Step(g, j + 1)
        OBVIOUS
      <4> HIDE DEF Step, h
      <4>3. j + 1 \in 0 .. j + 1 /\ \A k \in 0 .. j : k \in 0 .. j + 1
        OBVIOUS
      <4> QED BY <3>2, <3>3, <4>1, <4>2, <4>3
    <3>5. IsLoop(h, j + 1)
      <4> HIDE DEF Step
      <4> QED BY <3>4
    <3>6. j + 1 \in Nat
      OBVIOUS
    <3> HIDE DEF IsLoop
    <3> QED BY <3>5, <3>6
  <2> HIDE DEF Defined
  <2>3. 0 \in Nat
    OBVIOUS
  <2> QED BY <2>1, <2>2, <2>3, Reached
<1>2. \E g : IsLoop(g, n)
  <2>1. n \in 0 .. n
    OBVIOUS
  <2> QED BY <1>1, <2>1
<1> DEFINE upTo == CHOOSE g : IsLoop(g, n)
<1>3. IsLoop(upTo, n)
  BY <1>2
<1>4. LeftOut = upTo[n]
  BY DEF LeftOut, Turn, Reason
<1> HIDE DEF upTo
<1>5. \A k \in 0 .. n : upTo[k] = Step(upTo, k)
  <2> HIDE DEF Step
  <2> QED BY <1>3
<1>6. upTo[0] = excluded
  <2>1. 0 \in 0 .. n
    OBVIOUS
  <2> QED BY <1>5, <2>1
<1>7. \A k \in 1 .. n : upTo[k] = Turn(upTo[k - 1], k)
  <2>1. \A k \in 1 .. n : k \in 0 .. n /\ k # 0
    OBVIOUS
  <2> QED BY <1>5, <2>1
<1> QED BY <1>4, <1>6, <1>7

\* The profiles up to n that are not eligible, of the pair p.
Unfit(p, n) == {k \in 1 .. n : Reason(k) # None /\ profiles[k].pair = p}

\* What the list holds after n turns.
Listed(list, n) ==
  /\ list \in Seq(ToSet(list))
  /\ \A p \in Names : Cardinality(Named(p, list))
                        = Cardinality(Named(p, excluded)) + Cardinality(Unfit(p, n))
  /\ \A i \in DOMAIN list :
       \/ \E m \in DOMAIN excluded : list[i] = excluded[m]
       \/ \E k \in 1 .. n : Reason(k) # None /\ list[i] = Exclusion(profiles[k].pair, Reason(k))

LEMMA TurnLists ==
  ASSUME Lists, NEW n \in Nat, NEW list, Listed(list, n), NEW m \in Nat, m = n + 1
  PROVE  Listed(Turn(list, m), m)
<1>1. 1 .. m = (1 .. n) \union {m} /\ m \notin 1 .. n
  OBVIOUS
<1>2. \A p : Unfit(p, m) = IF Reason(m) # None /\ profiles[m].pair = p
                           THEN Unfit(p, n) \union {m} ELSE Unfit(p, n)
  BY <1>1 DEF Unfit
<1>3. \A p : Unfit(p, n) \subseteq 1 .. n /\ m \notin Unfit(p, n)
  BY <1>1 DEF Unfit
<1>4. \A p : /\ Cardinality(Unfit(p, n)) \in Nat
             /\ Cardinality(Unfit(p, n) \union {m}) = Cardinality(Unfit(p, n)) + 1
  BY <1>3, Positions, OneMore
<1>5. list \in Seq(ToSet(list))
  BY DEF Listed
<1>6. CASE Reason(m) = None
  <2>1. Turn(list, m) = list /\ \A p : Unfit(p, m) = Unfit(p, n)
    BY <1>2, <1>6 DEF Turn
  <2> QED BY <1>1, <2>1 DEF Listed
<1>7. CASE Reason(m) # None
  <2> DEFINE e == Exclusion(profiles[m].pair, Reason(m))
             longer == Append(list, e)
  <2>1. Turn(list, m) = longer /\ e.pair = profiles[m].pair
    BY <1>7 DEF Turn, Exclusion
  <2>2. e = Exclusion(profiles[m].pair, Reason(m))
    OBVIOUS
  <2> HIDE DEF e
  <2>3. PICK l \in Nat : /\ longer \in Seq(ToSet(longer))
                         /\ DOMAIN list = 1 .. l /\ DOMAIN longer = 1 .. l + 1
                         /\ \A k \in 1 .. l : longer[k] = list[k]
                         /\ longer[l + 1] = e
    BY <1>5, Appended
  <2>4. \A p \in Names : Cardinality(Named(p, longer))
                           = Cardinality(Named(p, excluded)) + Cardinality(Unfit(p, m))
    <3> SUFFICES ASSUME NEW p \in Names
                 PROVE  Cardinality(Named(p, longer))
                          = Cardinality(Named(p, excluded)) + Cardinality(Unfit(p, m))
      OBVIOUS
    <3>1. Cardinality(Named(p, longer)) = Cardinality(Named(p, list)) + (IF e.pair = p THEN 1 ELSE 0)
      BY <1>5, NamedAppended
    <3>2. Cardinality(Named(p, excluded)) \in Nat
      BY NamedAppended DEF Lists
    <3>3. Cardinality(Named(p, list)) = Cardinality(Named(p, excluded)) + Cardinality(Unfit(p, n))
      BY DEF Listed
    <3>4. Cardinality(Unfit(p, m)) = Cardinality(Unfit(p, n)) + (IF e.pair = p THEN 1 ELSE 0)
      <4>1. CASE e.pair = p
        BY <1>2, <1>4, <1>7, <2>1, <4>1
      <4>2. CASE e.pair # p
        <5>1. Unfit(p, m) = Unfit(p, n)
          BY <1>2, <2>1, <4>2
        <5> QED BY <1>4, <4>2, <5>1
      <4> QED BY <4>1, <4>2
    <3> HIDE DEF longer
    <3> QED BY <1>4, <3>1, <3>2, <3>3, <3>4
  <2> HIDE DEF longer
  <2>5. ASSUME NEW i \in DOMAIN longer
        PROVE  \/ \E j \in DOMAIN excluded : longer[i] = excluded[j]
               \/ \E k \in 1 .. m : Reason(k) # None /\ longer[i] = Exclusion(profiles[k].pair, Reason(k))
    <3>1. CASE i \in 1 .. l
      BY <1>1, <2>3, <3>1 DEF Listed
    <3>2. CASE i = l + 1
      <4>1. m \in 1 .. m
        BY <1>1
      <4> QED BY <1>7, <2>2, <2>3, <3>2, <4>1
    <3> QED BY <2>3, <3>1, <3>2
  <2>6. Listed(longer, m)
    BY <2>3, <2>4, <2>5 DEF Listed
  <2> QED BY <2>1, <2>6
<1> QED BY <1>6, <1>7

LEMMA LeftOutListed ==
  ASSUME Lists
  PROVE  Listed(LeftOut, Len(profiles)) /\ Len(profiles) \in Nat
<1>1. PICK n \in Nat : n = Len(profiles)
  BY DEF Lists
<1>2. PICK f : /\ f[0] = excluded
               /\ \A k \in 1 .. n : f[k] = Turn(f[k - 1], k)
               /\ LeftOut = f[n]
  BY <1>1, LeftOutLoop
<1> DEFINE Good == {k \in 0 .. n : Listed(f[k], k)}
<1>3. 0 \in Good
  <2>1. \A p : Unfit(p, 0) = {}
    BY DEF Unfit
  <2>2. \A p : Cardinality(Unfit(p, 0)) = 0
    BY <2>1, FS_EmptySet
  <2>3. \A p : Cardinality(Named(p, excluded)) \in Nat
    BY NamedAppended DEF Lists
  <2>4. Listed(excluded, 0)
    BY <2>2, <2>3 DEF Listed, Lists
  <2> QED BY <1>2, <2>4
<1>4. ASSUME NEW k \in 0 .. n - 1, k \in Good PROVE k + 1 \in Good
  <2>1. PICK m \in Nat : m = k + 1 /\ m \in 1 .. n /\ m - 1 = k
    OBVIOUS
  <2>2. f[m] = Turn(f[k], m)
    BY <1>2, <2>1
  <2>3. Listed(f[k], k) /\ k \in Nat
    BY <1>4
  <2>4. Listed(f[m], m)
    BY <2>1, <2>2, <2>3, TurnLists
  <2> QED BY <2>1, <2>4
<1>5. 0 .. n \subseteq Good
  <2> HIDE DEF Good
  <2>1. 0 \in Nat
    OBVIOUS
  <2> QED BY <1>3, <1>4, <2>1, Reached
<1>6. n \in 0 .. n
  OBVIOUS
<1> QED BY <1>1, <1>2, <1>5, <1>6

-----------------------------------------------------------------------------
(* The steps of the screen. *)

LEMMA InitAccount == Init => AccountInv
<1> SUFFICES ASSUME Init PROVE AccountInv
  OBVIOUS
<1>1. Len(Pairs) \in Nat
  BY ScreenConfigAssumption
<1>2. ToSet(<< >>) = {} /\ Range(<< >>) = {} /\ << >> \in Seq({})
  BY EmptySeq DEF ToSet, Range
<1>3. Lists /\ Progress
  BY <1>1, <1>2 DEF Init, Lists, Progress
<1>4. Chosen
  BY <1>2, FS_EmptySet DEF Init, Chosen
<1>5. Tally
  <2>1. \A p : AskedSoFar(p) = {} /\ Waiting(p) = {} /\ Selected(p) = {} /\ Named(p, excluded) = {}
    BY DEF Init, AskedSoFar, Waiting, Selected, Named
  <2>2. Cardinality({}) = 0
    BY FS_EmptySet
  <2> QED BY <2>1, <2>2 DEF Tally
<1>6. Reasons
  BY <1>2 DEF Init, Reasons
<1> QED BY <1>3, <1>4, <1>5, <1>6, InitSelection DEF AccountInv

\* Nothing is selected while the pairs are screened.
LEMMA NothingChosen ==
  ASSUME SelectionInv, stage = "screening", shortlist' = shortlist
  PROVE  /\ left = {} /\ shortlist = << >>
         /\ \A p : Selected(p) = {} /\ Selected(p)' = {}
         /\ Chosen'
<1>1. left = {} /\ shortlist = << >> /\ shortlist' = << >>
  BY DEF SelectionInv, NothingYet
<1>2. \A p : Selected(p) = {} /\ Selected(p)' = {}
  BY <1>1 DEF Selected
<1>3. Range(<< >>) = {} /\ Cardinality({}) = 0
  BY FS_EmptySet DEF Range
<1>4. Chosen'
  BY <1>1, <1>3 DEF Chosen
<1> QED BY <1>1, <1>2, <1>4

\* A pair more is asked for.
LEMMA OneAsked ==
  ASSUME next \in Nat \ {0}, next' = next + 1, NEW p
  PROVE  /\ Cardinality(AskedSoFar(p)) \in Nat
         /\ Cardinality(AskedSoFar(p)')
              = Cardinality(AskedSoFar(p)) + (IF Whose(next) = p THEN 1 ELSE 0)
<1>1. PICK n \in Nat : next = n + 1 /\ next - 1 = n /\ next' - 1 = n + 1
  OBVIOUS
<1>2. AskedSoFar(p) = {i \in 1 .. n : Whose(i) = p} /\ AskedSoFar(p)' = {i \in 1 .. n + 1 : Whose(i) = p}
  BY <1>1 DEF AskedSoFar, Whose
<1>3. 1 .. n + 1 = (1 .. n) \union {n + 1} /\ n + 1 \notin 1 .. n
  OBVIOUS
<1>4. AskedSoFar(p) \subseteq 1 .. n /\ n + 1 \notin AskedSoFar(p)
  BY <1>2, <1>3
<1>5. /\ Cardinality(AskedSoFar(p)) \in Nat
      /\ Cardinality(AskedSoFar(p) \union {n + 1}) = Cardinality(AskedSoFar(p)) + 1
  BY <1>4, Positions, OneMore
<1>6. CASE Whose(next) = p
  <2>1. AskedSoFar(p)' = AskedSoFar(p) \union {n + 1}
    BY <1>1, <1>2, <1>3, <1>6
  <2> QED BY <1>5, <1>6, <2>1
<1>7. CASE Whose(next) # p
  <2>1. AskedSoFar(p)' = AskedSoFar(p)
    BY <1>1, <1>2, <1>3, <1>7
  <2> QED BY <1>5, <1>7, <2>1
<1> QED BY <1>6, <1>7

LEMMA RefuseNameAccounts ==
  ASSUME AccountInv, RefuseName
  PROVE  AccountInv'
<1> DEFINE e == Exclusion(Pairs[next], "invalid pair format")
<1>1. /\ stage = "screening" /\ stage' = stage
      /\ next <= Len(Pairs) /\ next' = next + 1
      /\ Pairs[next] \notin DOMAIN Canonical
      /\ excluded' = Append(excluded, e)
      /\ UNCHANGED <<profiles, left, shortlist>>
  BY DEF RefuseName, Screening
<1>2. e.pair = Pairs[next] /\ e.reason = "invalid pair format"
  BY DEF Exclusion
<1> HIDE DEF e
<1>3. Len(Pairs) \in Nat /\ DOMAIN Pairs = 1 .. Len(Pairs)
  BY ScreenConfigAssumption
<1>4. next \in 1 .. Len(Pairs) + 1
  BY DEF AccountInv, Progress
<1>5. /\ excluded \in Seq(ToSet(excluded))
      /\ profiles \in Seq(ToSet(profiles))
  BY DEF AccountInv, Lists
<1>6. SelectionInv'
  BY StepSelection DEF AccountInv, Next
<1>7. PICK l \in Nat : /\ excluded' \in Seq(ToSet(excluded'))
                       /\ DOMAIN excluded = 1 .. l /\ DOMAIN excluded' = 1 .. l + 1
                       /\ \A k \in 1 .. l : excluded'[k] = excluded[k]
                       /\ excluded'[l + 1] = e
  BY <1>1, <1>5, Appended
<1>8. Lists'
  BY <1>1, <1>5, <1>7 DEF Lists
<1>9. Progress'
  BY <1>1, <1>3, <1>4 DEF Progress
<1>10. Chosen' /\ \A p : Selected(p) = {} /\ Selected(p)' = {}
  BY <1>1, NothingChosen DEF AccountInv
<1>11. Tally'
  <2> SUFFICES ASSUME NEW p \in Names
               PROVE  Cardinality(AskedSoFar(p)')
                        = Cardinality(Waiting(p)') + Cardinality(Selected(p)')
                            + Cardinality(Named(p, excluded'))
    BY DEF Tally
  <2>1. Whose(next) = e.pair
    BY <1>1, <1>2 DEF Whose
  <2>2. Cardinality(AskedSoFar(p)') = Cardinality(AskedSoFar(p)) + (IF e.pair = p THEN 1 ELSE 0)
    <3>1. next \in Nat \ {0}
      BY <1>3, <1>4
    <3> QED BY <1>1, <2>1, <3>1, OneAsked
  <2>3. Cardinality(Named(p, excluded')) = Cardinality(Named(p, excluded)) + (IF e.pair = p THEN 1 ELSE 0)
        /\ Cardinality(Named(p, excluded)) \in Nat
    BY <1>1, <1>5, NamedAppended
  <2>4. Waiting(p) = Named(p, profiles) /\ Waiting(p)' = Waiting(p)
    BY <1>1 DEF Waiting, Named
  <2>5. Cardinality(Named(p, profiles)) \in Nat
    BY <1>5, NamedAppended
  <2>6. Cardinality(AskedSoFar(p)) = Cardinality(Waiting(p)) + Cardinality(Selected(p)) + Cardinality(Named(p, excluded))
    BY <1>1 DEF AccountInv, Tally
  <2>7. Cardinality({}) = 0
    BY FS_EmptySet
  <2>8. Cardinality(Selected(p)) = 0 /\ Cardinality(Selected(p)') = 0
    BY <1>10, <2>7
  <2>9. Cardinality(Waiting(p)') = Cardinality(Named(p, profiles))
        /\ Cardinality(Waiting(p)) = Cardinality(Named(p, profiles))
    BY <2>4
  <2> QED BY <2>2, <2>3, <2>5, <2>6, <2>8, <2>9
<1>12. Reasons'
  <2> SUFFICES ASSUME NEW n \in DOMAIN excluded' PROVE Misnamed(excluded'[n])
    BY DEF Reasons, Misnamed, ToSet
  <2>1. CASE n \in 1 .. l
    <3>1. excluded'[n] \in ToSet(excluded)
      BY <1>7, <2>1 DEF ToSet
    <3> QED BY <1>1, <3>1 DEF AccountInv, Reasons
  <2>2. CASE n = l + 1
    <3>1. next \in DOMAIN Pairs
      BY <1>1, <1>3, <1>4
    <3> QED BY <1>1, <1>2, <1>7, <2>2, <3>1 DEF Misnamed
  <2> QED BY <1>7, <2>1, <2>2
<1> QED BY <1>6, <1>8, <1>9, <1>10, <1>11, <1>12 DEF AccountInv

LEMMA ScreenPairAccounts ==
  ASSUME AccountInv, ScreenPair
  PROVE  AccountInv'
<1>1. /\ stage = "screening" /\ stage' = stage
      /\ next <= Len(Pairs) /\ next' = next + 1
      /\ Pairs[next] \in DOMAIN Canonical
      /\ UNCHANGED <<excluded, left, shortlist>>
  BY DEF ScreenPair, Screening
<1>2. PICK e : profiles' = Append(profiles, e) /\ e.pair = Canonical[Pairs[next]]
  BY DEF ScreenPair, BuildProfile
<1>3. Len(Pairs) \in Nat /\ DOMAIN Pairs = 1 .. Len(Pairs)
  BY ScreenConfigAssumption
<1>4. next \in 1 .. Len(Pairs) + 1
  BY DEF AccountInv, Progress
<1>5. /\ excluded \in Seq(ToSet(excluded))
      /\ profiles \in Seq(ToSet(profiles))
  BY DEF AccountInv, Lists
<1>6. SelectionInv'
  BY StepSelection DEF AccountInv, Next
<1>7. profiles' \in Seq(ToSet(profiles'))
  BY <1>2, <1>5, Appended
<1>8. Lists'
  BY <1>1, <1>5, <1>7 DEF Lists
<1>9. Progress'
  BY <1>1, <1>3, <1>4 DEF Progress
<1>10. Chosen' /\ \A p : Selected(p) = {} /\ Selected(p)' = {}
  BY <1>1, NothingChosen DEF AccountInv
<1>11. Tally'
  <2> SUFFICES ASSUME NEW p \in Names
               PROVE  Cardinality(AskedSoFar(p)')
                        = Cardinality(Waiting(p)') + Cardinality(Selected(p)')
                            + Cardinality(Named(p, excluded'))
    BY DEF Tally
  <2>1. Whose(next) = e.pair
    BY <1>1, <1>2 DEF Whose
  <2>2. Cardinality(AskedSoFar(p)') = Cardinality(AskedSoFar(p)) + (IF e.pair = p THEN 1 ELSE 0)
    <3>1. next \in Nat \ {0}
      BY <1>3, <1>4
    <3> QED BY <1>1, <2>1, <3>1, OneAsked
  <2>3. Cardinality(Named(p, profiles')) = Cardinality(Named(p, profiles)) + (IF e.pair = p THEN 1 ELSE 0)
        /\ Cardinality(Named(p, profiles)) \in Nat
    BY <1>2, <1>5, NamedAppended
  <2>4. Waiting(p) = Named(p, profiles) /\ Waiting(p)' = Named(p, profiles')
    BY <1>1 DEF Waiting, Named
  <2>5. Cardinality(Named(p, excluded)) \in Nat /\ excluded' = excluded
    BY <1>1, <1>5, NamedAppended
  <2>6. Cardinality(AskedSoFar(p)) = Cardinality(Waiting(p)) + Cardinality(Selected(p)) + Cardinality(Named(p, excluded))
    BY <1>1 DEF AccountInv, Tally
  <2>7. Cardinality({}) = 0
    BY FS_EmptySet
  <2>8. Cardinality(Selected(p)) = 0 /\ Cardinality(Selected(p)') = 0
    BY <1>10, <2>7
  <2>9. Cardinality(Waiting(p)') = Cardinality(Named(p, profiles'))
        /\ Cardinality(Waiting(p)) = Cardinality(Named(p, profiles))
    BY <2>4, <1>1
  <2> QED BY <2>2, <2>3, <2>5, <2>6, <2>8, <2>9
<1>12. Reasons'
  BY <1>1 DEF AccountInv, Reasons, Misnamed
<1> QED BY <1>6, <1>8, <1>9, <1>10, <1>11, <1>12 DEF AccountInv

LEMMA ScreenRaisesAccounts ==
  ASSUME AccountInv, ScreenRaises
  PROVE  AccountInv'
<1>1. /\ stage = "screening" /\ stage' = "raised"
      /\ UNCHANGED <<next, profiles, excluded, left, shortlist>>
  BY DEF ScreenRaises, Screening
<1>2. SelectionInv'
  BY StepSelection DEF AccountInv, Next
<1>3. Lists' /\ Progress' /\ Tally'
  BY <1>1 DEF AccountInv, Lists, Progress, Tally
<1>4. Chosen'
  BY <1>1, NothingChosen DEF AccountInv
<1>5. Reasons'
  BY <1>1 DEF AccountInv, Reasons, Misnamed
<1> QED BY <1>2, <1>3, <1>4, <1>5 DEF AccountInv

\* A profile left out is not selected, and is not any more to be considered.
LEMMA AssessAccounts ==
  ASSUME AccountInv, Assess
  PROVE  AccountInv'
<1>1. /\ stage = "screening" /\ stage' = "selecting"
      /\ next > Len(Pairs) /\ next' = next
      /\ left' = {k \in DOMAIN profiles : Reason(k) = None}
      /\ excluded' = LeftOut
      /\ UNCHANGED <<profiles, shortlist>>
  BY DEF Assess, Reason
<1>2. /\ left = {} /\ shortlist = << >>
      /\ \A p : Selected(p) = {} /\ Selected(p)' = {}
      /\ Chosen'
  BY <1>1, NothingChosen DEF AccountInv
<1>3. SelectionInv'
  BY StepSelection DEF AccountInv, Next
<1>4. PICK n \in Nat : n = Len(profiles) /\ DOMAIN profiles = 1 .. n /\ Listed(LeftOut, n)
  <2>1. DOMAIN profiles = 1 .. Len(profiles)
    BY DEF AccountInv, Lists
  <2> QED BY <2>1, LeftOutListed DEF AccountInv
<1>5. Lists'
  BY <1>1, <1>4 DEF AccountInv, Lists, Listed
<1>6. Progress'
  <2>1. Len(Pairs) \in Nat
    BY ScreenConfigAssumption
  <2> QED BY <1>1, <2>1 DEF AccountInv, Progress
<1>7. Tally'
  <2> SUFFICES ASSUME NEW p \in Names
               PROVE  Cardinality(AskedSoFar(p)')
                        = Cardinality(Waiting(p)') + Cardinality(Selected(p)')
                            + Cardinality(Named(p, excluded'))
    BY DEF Tally
  <2> DEFINE fit == {k \in left' : profiles[k].pair = p}
  <2>1. AskedSoFar(p)' = AskedSoFar(p)
    BY <1>1 DEF AskedSoFar, Whose
  <2>2. Waiting(p) = Named(p, profiles) /\ Waiting(p)' = fit
    BY <1>1 DEF Waiting
  <2>3. Named(p, profiles) = fit \union Unfit(p, n) /\ fit \intersect Unfit(p, n) = {}
    BY <1>1, <1>4 DEF Named, Unfit
  <2>4. fit \subseteq 1 .. n /\ Unfit(p, n) \subseteq 1 .. n
    BY <1>1, <1>4 DEF Unfit
  <2> HIDE DEF fit
  <2>5. /\ IsFiniteSet(fit) /\ Cardinality(fit) \in Nat
        /\ IsFiniteSet(Unfit(p, n)) /\ Cardinality(Unfit(p, n)) \in Nat
    BY <2>4, Positions
  <2>6. Cardinality(Named(p, profiles)) = Cardinality(fit) + Cardinality(Unfit(p, n))
    <3>1. Cardinality(fit \union Unfit(p, n))
            = Cardinality(fit) + Cardinality(Unfit(p, n)) - Cardinality(fit \intersect Unfit(p, n))
      BY <2>5, FS_Union
    <3>2. Cardinality(fit \intersect Unfit(p, n)) = 0
      BY <2>3, FS_EmptySet
    <3> QED BY <2>3, <2>5, <3>1, <3>2
  <2>7. Cardinality(Named(p, excluded')) = Cardinality(Named(p, excluded)) + Cardinality(Unfit(p, n))
    BY <1>1, <1>4 DEF Listed
  <2>8. Cardinality(Named(p, excluded)) \in Nat
    BY NamedAppended DEF AccountInv, Lists
  <2>9. Cardinality(AskedSoFar(p)) = Cardinality(Waiting(p)) + Cardinality(Selected(p)) + Cardinality(Named(p, excluded))
    BY <1>1 DEF AccountInv, Tally
  <2>10. Cardinality(Selected(p)) = 0 /\ Cardinality(Selected(p)') = 0
    BY <1>2, FS_EmptySet
  <2>11. /\ Cardinality(AskedSoFar(p)') = Cardinality(AskedSoFar(p))
         /\ Cardinality(Waiting(p)) = Cardinality(Named(p, profiles))
         /\ Cardinality(Waiting(p)') = Cardinality(fit)
    BY <2>1, <2>2
  <2> QED BY <2>5, <2>6, <2>7, <2>8, <2>9, <2>10, <2>11
<1>8. Reasons'
  <2> SUFFICES ASSUME NEW e \in ToSet(LeftOut)
               PROVE  Misnamed(e) \/ Explained(e)'
    BY <1>1 DEF Reasons, Misnamed
  <2>0. PICK i \in DOMAIN LeftOut : e = LeftOut[i]
    BY DEF ToSet
  <2>1. CASE \E m \in DOMAIN excluded : e = excluded[m]
    <3>1. e \in ToSet(excluded)
      BY <2>1 DEF ToSet
    <3> QED BY <1>1, <3>1 DEF AccountInv, Reasons
  <2>2. CASE \E k \in 1 .. n : Reason(k) # None /\ e = Exclusion(profiles[k].pair, Reason(k))
    <3>1. PICK k \in 1 .. n : Reason(k) # None /\ e = Exclusion(profiles[k].pair, Reason(k))
      BY <2>2
    <3>2. PICK reason : reason = Reason(k) /\ e.reason = reason /\ e.pair = profiles[k].pair
      BY <3>1 DEF Exclusion
    <3>3. k \in DOMAIN profiles' /\ k \notin left' /\ k \notin Range(shortlist')
      BY <1>1, <1>2, <1>4, <3>1 DEF Range
    <3>4. reason \in {"insufficient data", "coverage", "cost-to-move"}
      BY <3>1, <3>2 DEF Reason, Ineligibility
    <3>5. Lasting(k, reason)'
      BY <1>1, <3>2, <3>4 DEF Lasting, Reason
    <3> QED BY <1>1, <3>2, <3>3, <3>5 DEF Explained
  <2> QED BY <1>4, <2>0, <2>1, <2>2 DEF Listed
<1> QED BY <1>2, <1>3, <1>5, <1>6, <1>7, <1>8 DEF AccountInv

\* The order of the profiles is strict.
LEMMA Strict ==
  ASSUME Lists, NEW j \in DOMAIN profiles, NEW k \in DOMAIN profiles, Precedes(j, k)
  PROVE  ~Precedes(k, j)
<1>1. j \in Nat /\ k \in Nat
  BY DEF Lists
<1> QED BY <1>1 DEF Precedes

\* What every turn of the selection starts from.
LEMMA TurnFacts ==
  ASSUME AccountInv, NEW k \in left, Consider(k)
  PROVE  /\ stage = "selecting" /\ stage' = stage /\ left' = left \ {k}
         /\ UNCHANGED <<next, profiles, returns>>
         /\ \E n \in Nat : DOMAIN profiles = 1 .. n
         /\ k \in DOMAIN profiles /\ k \notin Range(shortlist)
         /\ shortlist \in Seq(DOMAIN profiles) /\ Range(shortlist) \subseteq DOMAIN profiles
         /\ \A j \in left' : Precedes(k, j)
         /\ \A j \in Range(shortlist) : Precedes(j, k)
         /\ \A p : AskedSoFar(p)' = AskedSoFar(p)
         /\ \A p \in Names : Cardinality(AskedSoFar(p))
              = Cardinality(Waiting(p)) + Cardinality(Selected(p)) + Cardinality(Named(p, excluded))
         /\ \A p : /\ Cardinality(Waiting(p)) \in Nat
                   /\ Cardinality(Waiting(p)')
                        = Cardinality(Waiting(p)) - (IF profiles[k].pair = p THEN 1 ELSE 0)
<1>1. /\ stage = "selecting" /\ stage' = stage /\ left' = left \ {k}
      /\ UNCHANGED <<next, profiles, returns>>
      /\ \A j \in left' : Precedes(k, j)
  BY DEF Consider, LeaveOutFull
<1>2. PICK n \in Nat : DOMAIN profiles = 1 .. n
  <2>1. DOMAIN profiles = 1 .. Len(profiles) /\ Len(profiles) \in Nat
    BY DEF AccountInv, Lists
  <2> QED BY <2>1
<1>3. left \subseteq 1 .. n /\ shortlist \in Seq(DOMAIN profiles)
  BY <1>2 DEF AccountInv, SelectionInv, LeftOver
<1>4. Range(shortlist) \subseteq DOMAIN profiles
  BY <1>3 DEF Range
<1>5. k \notin Range(shortlist) /\ \A j \in Range(shortlist) : Precedes(j, k)
  BY DEF AccountInv, Chosen
<1>6. \A p : AskedSoFar(p)' = AskedSoFar(p)
  BY <1>1 DEF AskedSoFar, Whose
<1>7. \A p \in Names : Cardinality(AskedSoFar(p))
        = Cardinality(Waiting(p)) + Cardinality(Selected(p)) + Cardinality(Named(p, excluded))
  BY <1>1 DEF AccountInv, Tally
<1>8. ASSUME NEW p
      PROVE  /\ Cardinality(Waiting(p)) \in Nat
             /\ Cardinality(Waiting(p)')
                  = Cardinality(Waiting(p)) - (IF profiles[k].pair = p THEN 1 ELSE 0)
  <2>1. /\ Waiting(p) = {j \in left : profiles[j].pair = p}
        /\ Waiting(p)' = {j \in left \ {k} : profiles[j].pair = p}
    BY <1>1 DEF Waiting
  <2>2. Waiting(p) \subseteq 1 .. n
    BY <1>3, <2>1
  <2>3. Cardinality(Waiting(p)) \in Nat
    BY <2>2, Positions
  <2>4. CASE profiles[k].pair = p
    <3>1. Waiting(p)' = Waiting(p) \ {k} /\ k \in Waiting(p)
      BY <2>1, <2>4
    <3>2. Cardinality(Waiting(p) \ {k}) = Cardinality(Waiting(p)) - 1
      BY <2>2, <3>1, OneLess
    <3> QED BY <2>3, <2>4, <3>1, <3>2
  <2>5. CASE profiles[k].pair # p
    <3>1. Waiting(p)' = Waiting(p)
      BY <2>1, <2>5
    <3> QED BY <2>3, <2>5, <3>1
  <2> QED BY <2>4, <2>5
<1> QED BY <1>1, <1>2, <1>3, <1>4, <1>5, <1>6, <1>7, <1>8

\* A profile left out for a reason that lasts.
LEMMA LeavingOutAccounts ==
  ASSUME AccountInv, NEW k \in left, Consider(k), NEW reason,
         excluded' = Append(excluded, Exclusion(profiles[k].pair, reason)),
         shortlist' = shortlist,
         Lasting(k, reason)'
  PROVE  AccountInv'
<1> DEFINE e == Exclusion(profiles[k].pair, reason)
<1>1. excluded' = Append(excluded, e) /\ e.pair = profiles[k].pair /\ e.reason = reason
  BY DEF Exclusion
<1> HIDE DEF e
<1>2. /\ stage = "selecting" /\ stage' = stage /\ left' = left \ {k}
      /\ UNCHANGED <<next, profiles, returns>>
      /\ k \in DOMAIN profiles /\ k \notin Range(shortlist)
      /\ \A p : AskedSoFar(p)' = AskedSoFar(p)
  BY TurnFacts
<1>3. SelectionInv'
  BY StepSelection DEF AccountInv, Next
<1>4. excluded \in Seq(ToSet(excluded)) /\ excluded' \in Seq(ToSet(excluded'))
  BY <1>1, Appended DEF AccountInv, Lists
<1>5. Lists' /\ Progress'
  BY <1>2, <1>4 DEF AccountInv, Lists, Progress
<1>6. Chosen'
  BY <1>2 DEF AccountInv, Chosen, Precedes
<1>7. Tally'
  <2> SUFFICES ASSUME NEW p \in Names
               PROVE  Cardinality(AskedSoFar(p)')
                        = Cardinality(Waiting(p)') + Cardinality(Selected(p)')
                            + Cardinality(Named(p, excluded'))
    BY DEF Tally
  <2>1. Selected(p)' = Selected(p)
    BY <1>2 DEF Selected
  <2>2. Cardinality(Selected(p)) \in Nat
    <3>1. Len(shortlist) \in Nat /\ DOMAIN shortlist = 1 .. Len(shortlist)
      BY TurnFacts
    <3>2. Selected(p) \subseteq 1 .. Len(shortlist)
      BY <3>1 DEF Selected
    <3> QED BY <3>1, <3>2, Positions
  <2>3. /\ Cardinality(Named(p, excluded)) \in Nat
        /\ Cardinality(Named(p, excluded')) = Cardinality(Named(p, excluded)) + (IF profiles[k].pair = p THEN 1 ELSE 0)
    BY <1>1, <1>4, NamedAppended
  <2>4. /\ Cardinality(Waiting(p)) \in Nat
        /\ Cardinality(Waiting(p)') = Cardinality(Waiting(p)) - (IF profiles[k].pair = p THEN 1 ELSE 0)
    BY TurnFacts
  <2>5. Cardinality(AskedSoFar(p))
          = Cardinality(Waiting(p)) + Cardinality(Selected(p)) + Cardinality(Named(p, excluded))
    BY TurnFacts
  <2>6. Cardinality(AskedSoFar(p)') = Cardinality(AskedSoFar(p)) /\ Cardinality(Selected(p)') = Cardinality(Selected(p))
    BY <1>2, <2>1
  <2> QED BY <2>2, <2>3, <2>4, <2>5, <2>6
<1>8. Reasons'
  <2> SUFFICES ASSUME NEW f \in ToSet(excluded') PROVE Misnamed(f) \/ Explained(f)'
    BY <1>2 DEF Reasons, Misnamed
  <2>1. f \in ToSet(excluded) \/ f = e
    BY <1>1, <1>4, Appended DEF ToSet
  <2>2. CASE f = e
    BY <1>1, <1>2, <2>2 DEF Explained
  <2>3. CASE f \in ToSet(excluded)
    <3>1. CASE Misnamed(f)
      BY <3>1
    <3>2. CASE Explained(f)
      <4>1. PICK j \in DOMAIN profiles \ (left \union Range(shortlist)) :
              profiles[j].pair = f.pair /\ Lasting(j, f.reason)
        BY <3>2 DEF Explained
      <4>2. Lasting(j, f.reason)'
        BY <1>2, <4>1 DEF Lasting, Full, Before, Precedes, TooCorrelated
      <4> QED BY <1>2, <4>1, <4>2 DEF Explained
    <3> QED BY <2>3, <3>1, <3>2 DEF AccountInv, Reasons
  <2> QED BY <2>1, <2>2, <2>3
<1> QED BY <1>3, <1>5, <1>6, <1>7, <1>8 DEF AccountInv

\* A profile selected leaves every reason given before it as it is.
LEMMA SelectingAccounts ==
  ASSUME AccountInv, NEW k \in left, Consider(k), ~Full,
         shortlist' = Append(shortlist, k), excluded' = excluded
  PROVE  AccountInv'
<1>1. /\ stage = "selecting" /\ stage' = stage /\ left' = left \ {k}
      /\ UNCHANGED <<next, profiles, returns>>
      /\ k \in DOMAIN profiles /\ k \notin Range(shortlist)
      /\ shortlist \in Seq(DOMAIN profiles) /\ Range(shortlist) \subseteq DOMAIN profiles
      /\ \A j \in left' : Precedes(k, j)
      /\ \A p : AskedSoFar(p)' = AskedSoFar(p)
  BY TurnFacts
<1>2. PICK n \in Nat : DOMAIN profiles = 1 .. n
  BY TurnFacts
<1>3. PICK l \in Nat : /\ l = Len(shortlist) /\ DOMAIN shortlist = 1 .. l
                       /\ DOMAIN shortlist' = 1 .. l + 1 /\ Len(shortlist') = l + 1
                       /\ \A i \in 1 .. l : shortlist'[i] = shortlist[i]
                       /\ shortlist'[l + 1] = k
  BY <1>1
<1>4. 1 .. l + 1 = (1 .. l) \union {l + 1} /\ l + 1 \notin 1 .. l
  OBVIOUS
<1>5. Range(shortlist') = Range(shortlist) \union {k}
  BY <1>3, <1>4 DEF Range
<1>6. SelectionInv'
  BY StepSelection DEF AccountInv, Next
<1>7. Lists' /\ Progress'
  BY <1>1 DEF AccountInv, Lists, Progress
<1>8. Chosen'
  <2>1. Range(shortlist) \subseteq 1 .. n
    BY <1>1, <1>2
  <2>2. Cardinality(Range(shortlist) \union {k}) = Cardinality(Range(shortlist)) + 1
    BY <1>1, <2>1, OneMore
  <2>3. Cardinality(Range(shortlist')) = Len(shortlist')
    BY <1>3, <1>5, <2>2 DEF AccountInv, Chosen
  <2>4. left' \intersect Range(shortlist') = {}
    BY <1>1, <1>5 DEF AccountInv, Chosen
  <2>5. \A j \in Range(shortlist'), i \in left' : Precedes(j, i)
    BY <1>1, <1>5 DEF AccountInv, Chosen
  <2> QED BY <1>1, <2>3, <2>4, <2>5 DEF Chosen, Precedes
<1>9. Tally'
  <2> SUFFICES ASSUME NEW p \in Names
               PROVE  Cardinality(AskedSoFar(p)')
                        = Cardinality(Waiting(p)') + Cardinality(Selected(p)')
                            + Cardinality(Named(p, excluded'))
    BY DEF Tally
  <2>1. /\ Cardinality(Waiting(p)) \in Nat
        /\ Cardinality(Waiting(p)') = Cardinality(Waiting(p)) - (IF profiles[k].pair = p THEN 1 ELSE 0)
    BY TurnFacts
  <2>2. Cardinality(AskedSoFar(p))
          = Cardinality(Waiting(p)) + Cardinality(Selected(p)) + Cardinality(Named(p, excluded))
    BY TurnFacts
  <2>3. Selected(p) \subseteq 1 .. l /\ l + 1 \notin Selected(p)
    BY <1>3, <1>4 DEF Selected
  <2>4. Cardinality(Selected(p)) \in Nat /\ Cardinality(Selected(p) \union {l + 1}) = Cardinality(Selected(p)) + 1
    BY <2>3, Positions, OneMore
  <2>5. Cardinality(Selected(p)') = Cardinality(Selected(p)) + (IF profiles[k].pair = p THEN 1 ELSE 0)
    <3>1. CASE profiles[k].pair = p
      <4>1. Selected(p)' = Selected(p) \union {l + 1}
        BY <1>1, <1>3, <1>4, <3>1 DEF Selected
      <4> QED BY <2>4, <3>1, <4>1
    <3>2. CASE profiles[k].pair # p
      <4>1. Selected(p)' = Selected(p)
        BY <1>1, <1>3, <1>4, <3>2 DEF Selected
      <4> QED BY <2>4, <3>2, <4>1
    <3> QED BY <3>1, <3>2
  <2>6. Cardinality(Named(p, excluded)) \in Nat
    BY NamedAppended DEF AccountInv, Lists
  <2>7. Cardinality(AskedSoFar(p)') = Cardinality(AskedSoFar(p))
    BY <1>1
  <2> QED BY <2>1, <2>2, <2>4, <2>5, <2>6, <2>7
<1>10. Reasons'
  <2> SUFFICES ASSUME NEW e \in ToSet(excluded), Explained(e) PROVE Explained(e)'
    BY <1>1 DEF AccountInv, Reasons, Misnamed
  <2>1. PICK j \in DOMAIN profiles \ (left \union Range(shortlist)) :
          profiles[j].pair = e.pair /\ Lasting(j, e.reason)
    BY DEF Explained
  <2>2. j \in DOMAIN profiles' \ (left' \union Range(shortlist'))
    BY <1>1, <1>5, <2>1
  <2>3. \A a, b : (Precedes(a, b)' <=> Precedes(a, b)) /\ (TooCorrelated(a, b)' <=> TooCorrelated(a, b))
    BY <1>1 DEF Precedes, TooCorrelated
  <2>4. CASE /\ e.reason = "correlation"
             /\ Cardinality(Before(j)) < ShortlistSize
             /\ \E i \in Before(j) : TooCorrelated(profiles[j].pair, profiles[i].pair)
             /\ \A i \in left : Precedes(j, i)
    <3>1. ~Precedes(k, j)
      BY <1>1, <2>1, <2>4, Strict DEF AccountInv
    <3>2. Before(j)' = Before(j)
      BY <1>5, <2>3, <3>1 DEF Before
    <3>3. Lasting(j, e.reason)'
      BY <1>1, <2>3, <2>4, <3>2 DEF Lasting
    <3> QED BY <1>1, <2>1, <2>2, <3>3 DEF Explained
  <2>5. CASE e.reason \in {"insufficient data", "coverage", "cost-to-move"} /\ Ineligibility(profiles[j]) = e.reason
    <3>1. Lasting(j, e.reason)'
      BY <1>1, <2>5 DEF Lasting
    <3> QED BY <1>1, <2>1, <2>2, <3>1 DEF Explained
  <2> QED BY <2>1, <2>4, <2>5 DEF Lasting
<1> QED BY <1>6, <1>7, <1>8, <1>9, <1>10 DEF AccountInv

LEMMA ConsiderAccounts ==
  ASSUME AccountInv, NEW k \in left, Consider(k)
  PROVE  AccountInv'
<1>1. /\ left' = left \ {k} /\ UNCHANGED <<profiles, returns>>
      /\ shortlist \in Seq(DOMAIN profiles)
      /\ \A j \in left' : Precedes(k, j)
      /\ \A j \in Range(shortlist) : Precedes(j, k)
  BY TurnFacts
<1>2. \A a, b : (Precedes(a, b)' <=> Precedes(a, b)) /\ (TooCorrelated(a, b)' <=> TooCorrelated(a, b))
  BY <1>1 DEF Precedes, TooCorrelated
<1>3. CASE Full /\ LeaveOutFull(k) /\ UNCHANGED shortlist
  <2>1. Lasting(k, "shortlist full")'
    BY <1>1, <1>2, <1>3 DEF Lasting, Full
  <2> QED BY <1>3, <2>1, LeavingOutAccounts DEF LeaveOutFull
<1>4. CASE /\ ~Full /\ ~Diverse(k) /\ UNCHANGED shortlist
           /\ excluded' = Append(excluded, Exclusion(profiles[k].pair, "correlation"))
  <2>1. Before(k) = Range(shortlist) /\ Before(k)' = Before(k)
    BY <1>1, <1>2, <1>4 DEF Before
  <2>2. Cardinality(Before(k)) < ShortlistSize
    <3>1. Len(shortlist) \in Nat /\ ShortlistSize \in Nat
      BY <1>1, ScreenConfigAssumption
    <3>2. Cardinality(Range(shortlist)) = Len(shortlist)
      BY DEF AccountInv, Chosen
    <3> QED BY <1>4, <2>1, <3>1, <3>2 DEF Full
  <2>3. \E i \in Before(k) : TooCorrelated(profiles[k].pair, profiles[i].pair)
    BY <1>4, <2>1 DEF Diverse, Range
  <2>4. Lasting(k, "correlation")'
    BY <1>1, <1>2, <2>1, <2>2, <2>3 DEF Lasting
  <2> QED BY <1>4, <2>4, LeavingOutAccounts
<1>5. CASE ~Full /\ shortlist' = Append(shortlist, k) /\ excluded' = excluded
  BY <1>5, SelectingAccounts
<1> QED BY <1>3, <1>4, <1>5 DEF Consider

\* The report, and steps that change nothing.
LEMMA QuietAccounts ==
  ASSUME AccountInv, Report \/ UNCHANGED vars
  PROVE  AccountInv'
<1>1. /\ UNCHANGED <<next, profiles, returns, left, shortlist, excluded>>
      /\ \/ stage' = stage
         \/ stage = "selecting" /\ stage' = "reported" /\ left = {}
  BY DEF Report, vars
<1>2. SelectionInv'
  BY StepSelection DEF AccountInv, Next
<1>3. Lists' /\ Progress' /\ Chosen'
  BY <1>1 DEF AccountInv, Lists, Progress, Chosen, Precedes
<1>4. Tally'
  BY <1>1 DEF AccountInv, Tally, AskedSoFar, Whose, Waiting, Selected
<1>5. \A e : Explained(e) => Explained(e)'
  <2>1. \A a, b : Precedes(a, b)' <=> Precedes(a, b)
    BY <1>1 DEF Precedes
  <2>2. \A a, b : TooCorrelated(a, b)' <=> TooCorrelated(a, b)
    BY <1>1 DEF TooCorrelated
  <2>3. \A k : Before(k)' = Before(k)
    BY <1>1, <2>1 DEF Before
  <2>4. Full' <=> Full
    BY <1>1 DEF Full
  <2>5. \A k, reason : Lasting(k, reason) => Lasting(k, reason)'
    BY <1>1, <2>1, <2>2, <2>3, <2>4 DEF Lasting
  <2> QED BY <1>1, <2>5 DEF Explained
<1>6. Reasons'
  BY <1>1, <1>5 DEF AccountInv, Reasons, Misnamed
<1> QED BY <1>2, <1>3, <1>4, <1>6 DEF AccountInv

LEMMA StepAccount == AccountInv /\ [Next]_vars => AccountInv'
<1> SUFFICES ASSUME AccountInv, [Next]_vars PROVE AccountInv'
  OBVIOUS
<1>1. CASE RefuseName
  BY <1>1, RefuseNameAccounts
<1>2. CASE ScreenPair
  BY <1>2, ScreenPairAccounts
<1>3. CASE ScreenRaises
  BY <1>3, ScreenRaisesAccounts
<1>4. CASE Assess
  BY <1>4, AssessAccounts
<1>5. CASE \E k \in left : Consider(k)
  BY <1>5, ConsiderAccounts
<1>6. CASE Report \/ UNCHANGED vars
  BY <1>6, QuietAccounts
<1> QED BY <1>1, <1>2, <1>3, <1>4, <1>5, <1>6 DEF Next

\* Whatever is asked for and answered, every pair is selected or left out as
\* often as it is asked for, and each one left out has a reason that still holds
\* of the whole shortlist (screen, _select_shortlist).
THEOREM EveryPairAlwaysAccounted == Spec => []EveryPairAccounted
<1>1. AccountInv => EveryPairAccounted
  <2> SUFFICES ASSUME AccountInv, stage = "reported" PROVE EveryPairAccounted
    BY DEF EveryPairAccounted
  <2>1. left = {} /\ next = Len(Pairs) + 1
    BY DEF AccountInv, Progress
  <2>2. Len(Pairs) \in Nat /\ DOMAIN Pairs = 1 .. Len(Pairs)
    BY ScreenConfigAssumption
  <2>3. ASSUME NEW p \in Names
        PROVE  Cardinality(Asked(p)) = Cardinality(Selected(p)) + Cardinality(Named(p, excluded))
    <3>1. next - 1 = Len(Pairs)
      BY <2>1, <2>2
    <3>2. Asked(p) = AskedSoFar(p)
      BY <2>2, <3>1 DEF Asked, AskedSoFar, Whose
    <3>3. Waiting(p) = {}
      BY <2>1 DEF Waiting
    <3>4. Cardinality(Waiting(p)) = 0
      BY <3>3, FS_EmptySet
    <3>5. Cardinality(AskedSoFar(p))
            = Cardinality(Waiting(p)) + Cardinality(Selected(p)) + Cardinality(Named(p, excluded))
      BY DEF AccountInv, Tally
    <3>6. Cardinality(Selected(p)) \in Nat
      <4>1. Len(shortlist) \in Nat /\ DOMAIN shortlist = 1 .. Len(shortlist)
        BY DEF AccountInv, SelectionInv
      <4>2. Selected(p) \subseteq 1 .. Len(shortlist)
        BY <4>1 DEF Selected
      <4> QED BY <4>1, <4>2, Positions
    <3> QED BY <3>2, <3>4, <3>5, <3>6
  <2>4. ASSUME NEW n \in DOMAIN excluded
        PROVE  IF excluded[n].reason = "invalid pair format"
               THEN \E i \in DOMAIN Pairs : Pairs[i] = excluded[n].pair /\ Pairs[i] \notin DOMAIN Canonical
               ELSE \E k \in DOMAIN profiles \ Range(shortlist) :
                      /\ profiles[k].pair = excluded[n].pair
                      /\ TrueReason(k, excluded[n].reason)
    <3> DEFINE e == excluded[n]
    <3>1. Misnamed(e) \/ Explained(e)
      BY DEF AccountInv, Reasons, ToSet
    <3> HIDE DEF e
    <3>2. CASE Misnamed(e)
      BY <3>2 DEF Misnamed, e
    <3>3. CASE Explained(e)
      <4>1. PICK k \in DOMAIN profiles \ Range(shortlist) :
              profiles[k].pair = e.pair /\ Lasting(k, e.reason)
        BY <3>3 DEF Explained
      <4>2. e.reason # "invalid pair format" /\ TrueReason(k, e.reason)
        <5>1. CASE e.reason = "shortlist full" /\ Full /\ \A j \in Range(shortlist) : Precedes(j, k)
          <6>1. Before(k) = Range(shortlist)
            BY <5>1 DEF Before
          <6>2. Cardinality(Range(shortlist)) = ShortlistSize
            <7>1. Len(shortlist) \in Nat /\ ShortlistSize \in Nat /\ Len(shortlist) <= ShortlistSize
              BY ScreenConfigAssumption DEF AccountInv, SelectionInv, ShortlistDiverse
            <7>2. Cardinality(Range(shortlist)) = Len(shortlist)
              BY DEF AccountInv, Chosen
            <7>3. Len(shortlist) >= ShortlistSize
              BY <5>1 DEF Full
            <7> QED BY <7>1, <7>2, <7>3
          <6> QED BY <5>1, <6>1, <6>2 DEF TrueReason, Before
        <5>2. CASE /\ e.reason = "correlation"
                   /\ Cardinality(Before(k)) < ShortlistSize
                   /\ \E j \in Before(k) : TooCorrelated(profiles[k].pair, profiles[j].pair)
          BY <5>2 DEF TrueReason, Before
        <5>3. CASE e.reason \in {"insufficient data", "coverage", "cost-to-move"} /\ Ineligibility(profiles[k]) = e.reason
          BY <5>3 DEF TrueReason
        <5> QED BY <4>1, <5>1, <5>2, <5>3 DEF Lasting
      <4> QED BY <4>1, <4>2 DEF e
    <3> QED BY <3>1, <3>2, <3>3
  <2> QED BY <2>3, <2>4 DEF EveryPairAccounted, Names
<1> QED BY <1>1, InitAccount, StepAccount, PTL DEF Spec

-----------------------------------------------------------------------------
(***************************************************************************)
(* The market context.  What a brief shows is a part of what the calendar  *)
(* holds, and all of it that matters, for any calendar and any windows;    *)
(* and each of its snapshots is true to the answer of its series.          *)
(*                                                                         *)
(* The lists are cut and sorted by the ranks of their items, so the proof  *)
(* begins with these.  The invariant says what the files hold that were    *)
(* fetched so far, while the week has not turned since the clock was read. *)
(***************************************************************************)

(***************************************************************************)
(* Ranks.  K is ordered; before[k] holds k and what comes before it.  Then *)
(* the sizes of these sets number the elements of K, in the same order.    *)
(***************************************************************************)
Ordered(K, before) ==
  /\ before \in [K -> SUBSET K]
  /\ \A k \in K : k \in before[k]
  /\ \A j, k \in K : j # k => (j \in before[k] <=> k \notin before[j])
  /\ \A j, k \in K : j \in before[k] => before[j] \subseteq before[k]

Ranked(K, before) ==
  /\ Cardinality(K) \in Nat
  /\ \A k \in K : Cardinality(before[k]) \in 1..Cardinality(K)
  /\ \A j, k \in K : j # k /\ j \in before[k] =>
       Cardinality(before[j]) < Cardinality(before[k])
  /\ \A n \in 1..Cardinality(K) : \E k \in K : Cardinality(before[k]) = n

LEMMA Ranking ==
  ASSUME NEW K, IsFiniteSet(K), NEW before, Ordered(K, before)
  PROVE  Ranked(K, before)
<1> DEFINE c == [k \in K |-> Cardinality(before[k])]
<1>1. /\ \A k \in K : before[k] \subseteq K /\ k \in before[k]
      /\ \A j, k \in K : j # k => (j \in before[k] <=> k \notin before[j])
      /\ \A j, k \in K : j \in before[k] => before[j] \subseteq before[k]
  BY DEF Ordered
<1>2. \A k \in K : /\ IsFiniteSet(before[k])
                   /\ Cardinality(before[k]) \in Nat
                   /\ Cardinality(before[k]) <= Cardinality(K)
  BY <1>1, FS_Subset, FS_CardinalityType
<1>3. Cardinality(K) \in Nat
  BY FS_CardinalityType
<1>4. \A k \in K : Cardinality(before[k]) # 0
  BY <1>1, <1>2, FS_EmptySet
<1>5. \A k \in K : Cardinality(before[k]) \in 1..Cardinality(K)
  BY <1>2, <1>3, <1>4
<1>6. ASSUME NEW j \in K, NEW k \in K, j # k, j \in before[k]
      PROVE  Cardinality(before[j]) < Cardinality(before[k])
  <2>1. before[j] \in SUBSET before[k] /\ before[j] # before[k]
    BY <1>1, <1>6
  <2>2. /\ Cardinality(before[j]) <= Cardinality(before[k])
        /\ Cardinality(before[k]) # Cardinality(before[j])
    BY <1>2, <2>1, FS_Subset
  <2> QED BY <1>2, <2>2
<1>7. \A j, k \in K : j # k => Cardinality(before[j]) # Cardinality(before[k])
  <2> SUFFICES ASSUME NEW j \in K, NEW k \in K, j # k
               PROVE  Cardinality(before[j]) # Cardinality(before[k])
    OBVIOUS
  <2>1. CASE j \in before[k]
    BY <1>2, <1>6, <2>1
  <2>2. CASE k \in before[j]
    BY <1>2, <1>6, <2>2
  <2> QED BY <1>1, <2>1, <2>2
<1>8. c \in Injection(K, 1..Cardinality(K))
  <2>1. c \in [K -> 1..Cardinality(K)]
    BY <1>5
  <2>2. \A j, k \in K : c[j] = c[k] => j = k
    BY <1>7
  <2> QED BY <2>1, <2>2 DEF Injection, IsInjective
<1>9. /\ IsFiniteSet(1..Cardinality(K))
      /\ Cardinality(1..Cardinality(K)) = Cardinality(K)
  BY <1>3, CountTo
<1>10. c \in Surjection(K, 1..Cardinality(K))
  <2> HIDE DEF c
  <2> QED BY <1>8, <1>9, FS_Injection
<1>11. \A n \in 1..Cardinality(K) : \E k \in K : Cardinality(before[k]) = n
  BY <1>10 DEF Surjection
<1> QED BY <1>3, <1>5, <1>6, <1>11 DEF Ranked

\* The n-th of a set of numbers.
UpToHere(K) == [k \in K |-> {j \in K : j <= k}]

LEMMA NthOf ==
  ASSUME NEW K \in SUBSET Nat, IsFiniteSet(K)
  PROVE  /\ Cardinality(K) \in Nat
         /\ \A n \in 1..Cardinality(K) :
              Nth(K, n) \in K /\ Cardinality({j \in K : j <= Nth(K, n)}) = n
         /\ \A m, n \in 1..Cardinality(K) : m < n => Nth(K, m) < Nth(K, n)
         /\ \A k \in K : /\ Cardinality({j \in K : j <= k}) \in 1..Cardinality(K)
                         /\ Nth(K, Cardinality({j \in K : j <= k})) = k
<1> DEFINE c(k) == Cardinality({j \in K : j <= k})
<1>1. \A k \in K : UpToHere(K)[k] = {j \in K : j <= k}
  BY DEF UpToHere
<1>2. Ordered(K, UpToHere(K))
  <2>1. UpToHere(K) \in [K -> SUBSET K]
    BY DEF UpToHere
  <2>2. \A j, k \in K : j \in UpToHere(K)[k] <=> j <= k
    BY <1>1
  <2>3. \A k \in K : k \in UpToHere(K)[k]
    BY <2>2
  <2>4. \A j, k \in K : j # k => (j \in UpToHere(K)[k] <=> k \notin UpToHere(K)[j])
    BY <2>2
  <2>5. \A j, k \in K : j \in UpToHere(K)[k] => UpToHere(K)[j] \subseteq UpToHere(K)[k]
    <3> SUFFICES ASSUME NEW i \in K, NEW j \in K, NEW k \in K, j <= k, i <= j
                 PROVE  i <= k
      BY <1>1, <2>2
    <3>1. i \in Nat /\ j \in Nat /\ k \in Nat
      OBVIOUS
    <3> QED BY <3>1
  <2> QED BY <2>1, <2>3, <2>4, <2>5 DEF Ordered
<1>3. /\ Cardinality(K) \in Nat
      /\ \A k \in K : c(k) \in 1..Cardinality(K)
      /\ \A j, k \in K : j # k /\ j <= k => c(j) < c(k)
      /\ \A n \in 1..Cardinality(K) : \E k \in K : c(k) = n
  <2> DEFINE b == UpToHere(K)
  <2>1. \A k \in K : c(k) = Cardinality(b[k])
    BY <1>1
  <2>2. \A j, k \in K : j <= k <=> j \in b[k]
    BY <1>1
  <2> HIDE DEF b, c
  <2>3. Ordered(K, b)
    BY <1>2 DEF b
  <2>4. /\ Cardinality(K) \in Nat
        /\ \A k \in K : Cardinality(b[k]) \in 1..Cardinality(K)
        /\ \A j, k \in K : j # k /\ j \in b[k] => Cardinality(b[j]) < Cardinality(b[k])
        /\ \A n \in 1..Cardinality(K) : \E k \in K : Cardinality(b[k]) = n
    <3>1. Ranked(K, b)
      BY <2>3, Ranking
    <3> QED BY <3>1 DEF Ranked
  <2> QED BY <2>1, <2>2, <2>4
<1>4. \A n \in 1..Cardinality(K) : Nth(K, n) \in K /\ c(Nth(K, n)) = n
  <2> SUFFICES ASSUME NEW n \in 1..Cardinality(K)
               PROVE  Nth(K, n) \in K /\ c(Nth(K, n)) = n
    OBVIOUS
  <2>1. PICK k \in K : c(k) = n
    BY <1>3
  <2> QED BY <2>1 DEF Nth
<1> HIDE DEF c
<1>5. \A j, k \in K : j < k \/ j = k \/ k < j
  OBVIOUS
<1>6. \A j, k \in K : j < k => c(j) < c(k)
  BY <1>3
<1>7. \A j, k \in K : c(j) < c(k) => j < k
  BY <1>3, <1>5, <1>6
<1>8. \A j, k \in K : c(j) = c(k) => j = k
  BY <1>3, <1>5, <1>6
<1>9. ASSUME NEW m \in 1..Cardinality(K), NEW n \in 1..Cardinality(K), m < n
      PROVE  Nth(K, m) < Nth(K, n)
  <2>1. c(Nth(K, m)) < c(Nth(K, n))
    BY <1>4, <1>9
  <2> QED BY <1>4, <1>7, <2>1
<1>10. \A k \in K : c(k) \in 1..Cardinality(K) /\ Nth(K, c(k)) = k
  BY <1>3, <1>4, <1>8
<1> QED BY <1>3, <1>4, <1>9, <1>10 DEF c

\* What is kept of a list: the items at the positions K, in their order.
LEMMA KeptItems ==
  ASSUME NEW S, NEW list \in Seq(S), NEW K \in SUBSET DOMAIN list
  PROVE  /\ IsFiniteSet(K) /\ K \in SUBSET Nat
         /\ Kept(list, K) \in Seq(S)
         /\ Len(Kept(list, K)) = Cardinality(K)
         /\ DOMAIN Kept(list, K) = 1..Cardinality(K)
         /\ \A n \in DOMAIN Kept(list, K) :
              Nth(K, n) \in K /\ Kept(list, K)[n] = list[Nth(K, n)]
         /\ \A m, n \in DOMAIN Kept(list, K) : m < n => Nth(K, m) < Nth(K, n)
         /\ \A k \in K : \E n \in DOMAIN Kept(list, K) : Kept(list, K)[n] = list[k]
<1>1. Len(list) \in Nat /\ DOMAIN list = 1..Len(list)
  OBVIOUS
<1>2. IsFiniteSet(K) /\ K \in SUBSET Nat
  BY <1>1, CountTo, FS_Subset
<1>3. PICK c \in Nat : c = Cardinality(K)
  BY <1>2, NthOf
<1>4. /\ \A n \in 1..c : Nth(K, n) \in K
      /\ \A m, n \in 1..c : m < n => Nth(K, m) < Nth(K, n)
      /\ \A k \in K : \E n \in 1..c : Nth(K, n) = k
  BY <1>2, <1>3, NthOf
<1>5. Kept(list, K) = [n \in 1..c |-> list[Nth(K, n)]]
  BY <1>3 DEF Kept
<1>6. \A n \in 1..c : list[Nth(K, n)] \in S
  BY <1>1, <1>4
<1>7. /\ Kept(list, K) \in Seq(S)
      /\ Len(Kept(list, K)) = c
      /\ DOMAIN Kept(list, K) = 1..c
      /\ \A n \in 1..c : Kept(list, K)[n] = list[Nth(K, n)]
  BY <1>5, <1>6
<1> QED BY <1>2, <1>3, <1>4, <1>7

(***************************************************************************)
(* The inductive invariant of the market context.                          *)
(***************************************************************************)
CalendarTasks == {Upcomings, Recents}
Fetching == weeks # << >>
FromCalendar == Seq(ToSet(calendar))

\* One reading of the clock and one list of events for each task that has
\* begun and ended.
Readings ==
  /\ calendar \in Calendars
  /\ now \in Nat
  /\ task \in 1..News
  /\ asked \in Seq(Nat)
  /\ \A i \in DOMAIN asked : asked[i] <= now
  /\ Len(events) = IF task <= Recents THEN task - 1 ELSE Recents
  /\ Len(asked) = Len(events) + (IF Fetching THEN 1 ELSE 0)
  /\ Fetching => task <= Recents
  /\ Briefed => task = News
  /\ outcome = "raised" => task \in CalendarTasks

\* What is served while the week has not turned since t.
Served(t, week, file) == SameWeek(t) => file = WeekFile(WeekOf(t) + week)

\* The rows fetched so far, and those that have just come.
Fetched ==
  Fetching =>
    /\ rows \in FromCalendar
    /\ \/ weeks = FilesOf(task) /\ rows = << >>
       \/ /\ FilesOf(task) = <<0, Head(weeks)>>
          /\ weeks = <<Head(weeks)>>
          /\ Served(Last(asked), 0, rows)
    /\ reply \notin {None, Failed, NotAList} =>
         reply \in FromCalendar /\ Served(Last(asked), Head(weeks), reply)

Idle ==
  /\ ~Fetching => rows = << >>
  /\ task <= Recents /\ ~Fetching => reply = None
  /\ task > Recents /\ task < News =>
       /\ reply \in {None, Failed, NotAList} \union SeriesAnswers
       /\ reply # None => Series \in DOMAIN FredSeries

From(i) == IF i = Upcomings THEN asked[i] ELSE asked[i] - RecentWindow
Until(i) == IF i = Upcomings THEN asked[i] + UpcomingWindow ELSE asked[i]
Read(i) == {WeekOf(asked[i]) + FilesOf(i)[f] : f \in DOMAIN FilesOf(i)}

\* Of what the files that were read hold for the window nothing is missing.
Whole(i) == SameWeek(asked[i]) =>
  \A k \in Due(From(i), Until(i), Read(i)) :
    ImpactOrder[EconomicEvent(calendar[k]).impact] >= Medium =>
      EconomicEvent(calendar[k]) \in ToSet(events[i])

\* What the rows of the calendar become.
Happenings == {EconomicEvent(calendar[k]) : k \in DOMAIN calendar}

Events ==
  /\ events \in Seq(Seq(Happenings))
  /\ \A i \in DOMAIN events : /\ Sound(events[i], From(i), Until(i))
                              /\ Whole(i)

Known == {k \in DOMAIN SeriesNames : SeriesNames[k] \in DOMAIN FredSeries}
Replies == SeriesAnswers \union {Failed, NotAList}
SeriesDone == IF task <= Recents THEN 0 ELSE task - (Recents + 1)
Snapshot(h) == SnapshotOf(h.name, h.reply)[1]

Heard == [name : ToSet(SeriesNames), reply : Replies]

\* A snapshot for each known series that was asked for, made of its answer.
Snapshots ==
  /\ heard \in Seq(Heard)
  /\ Len(heard) = Cardinality({k \in Known : k <= SeriesDone})
  /\ \A n \in 1..Len(heard) : heard[n].name = SeriesNames[Nth(Known, n)]
  /\ macro \in Seq({Snapshot(h) : h \in Heard})
  /\ Len(macro) = Len(heard)
  /\ \A n \in 1..Len(heard) : macro[n] = Snapshot(heard[n])

ContextInv ==
  /\ Readings
  /\ Fetched
  /\ Idle
  /\ Events
  /\ Snapshots

(***************************************************************************)
(* The releases of the rows fetched.                                       *)
(***************************************************************************)
NotLaterOf(list, K) == [k \in K |-> NotLater(list, K, k)]

\* The n-th of the positions K by time.
LEMMA NthSoonestOf ==
  ASSUME NEW list, NEW K \in SUBSET Nat, IsFiniteSet(K),
         \A k \in K : list[k].date \in Int
  PROVE  /\ Cardinality(K) \in Nat
         /\ \A n \in 1..Cardinality(K) : NthSoonest(list, K, n) \in K
         /\ \A m, n \in 1..Cardinality(K) : m < n =>
              Sooner(list, NthSoonest(list, K, m), NthSoonest(list, K, n))
         /\ \A k \in K : \E n \in 1..Cardinality(K) : NthSoonest(list, K, n) = k
<1> DEFINE b == NotLaterOf(list, K)
           c(k) == Cardinality(NotLater(list, K, k))
<1>1. \A k \in K : b[k] = NotLater(list, K, k)
  BY DEF NotLaterOf
<1>2. \A j, k \in K : j \in b[k] <=> j = k \/ Sooner(list, j, k)
  BY <1>1 DEF NotLater
<1>3. \A j, k \in K : j # k => (Sooner(list, j, k) <=> ~Sooner(list, k, j))
  BY DEF Sooner
<1>4. \A i, j, k \in K : Sooner(list, i, j) /\ Sooner(list, j, k) => Sooner(list, i, k)
  BY DEF Sooner
<1>5. Ordered(K, b)
  <2>1. b \in [K -> SUBSET K]
    BY DEF NotLaterOf, NotLater
  <2> HIDE DEF b
  <2>2. \A k \in K : k \in b[k]
    BY <1>2
  <2>3. \A j, k \in K : j # k => (j \in b[k] <=> k \notin b[j])
    BY <1>2, <1>3
  <2>4. ASSUME NEW j \in K, NEW k \in K, j \in b[k], NEW i \in b[j] PROVE i \in b[k]
    <3>1. i \in K
      BY <2>1
    <3> QED BY <1>2, <1>4, <2>4, <3>1
  <2> QED BY <2>1, <2>2, <2>3, <2>4 DEF Ordered
<1> HIDE DEF b
<1>6. Ranked(K, b)
  BY <1>5, Ranking
<1>7. \A k \in K : c(k) = Cardinality(b[k])
  BY <1>1
<1> HIDE DEF c
<1>8. /\ Cardinality(K) \in Nat
      /\ \A k \in K : c(k) \in 1..Cardinality(K)
      /\ \A n \in 1..Cardinality(K) : \E k \in K : c(k) = n
  BY <1>6, <1>7 DEF Ranked
<1>9. \A j, k \in K : Sooner(list, j, k) => c(j) < c(k)
  <2> SUFFICES ASSUME NEW j \in K, NEW k \in K, Sooner(list, j, k) PROVE c(j) < c(k)
    OBVIOUS
  <2>1. j # k
    <3>1. ~Sooner(list, k, k)
      <4>1. list[k].date \in Int /\ k \in Nat
        OBVIOUS
      <4> QED BY <4>1 DEF Sooner
    <3> QED BY <3>1
  <2>2. j \in b[k]
    BY <1>2
  <2> QED BY <1>6, <1>7, <2>1, <2>2 DEF Ranked
<1>10. ASSUME NEW j \in K, NEW k \in K, ~Sooner(list, j, k), j # k PROVE c(k) < c(j)
  BY <1>3, <1>9, <1>10
<1>11. \A j \in K : c(j) \in Nat
  BY <1>8
<1>12. \A j, k \in K : c(j) < c(k) => Sooner(list, j, k)
  <2> SUFFICES ASSUME NEW j \in K, NEW k \in K, c(j) < c(k), ~Sooner(list, j, k)
               PROVE  FALSE
    OBVIOUS
  <2>1. c(j) \in Nat /\ c(k) \in Nat
    BY <1>11
  <2>2. j # k
    BY <2>1
  <2> QED BY <1>10, <2>1, <2>2
<1>13. \A j, k \in K : c(j) = c(k) => j = k
  <2> SUFFICES ASSUME NEW j \in K, NEW k \in K, c(j) = c(k), j # k PROVE FALSE
    OBVIOUS
  <2>1. c(j) \in Nat /\ c(k) \in Nat
    BY <1>11
  <2>2. c(j) < c(k) \/ c(k) < c(j)
    BY <1>9, <1>10
  <2> QED BY <2>1, <2>2
<1>14. \A n \in 1..Cardinality(K) : NthSoonest(list, K, n) \in K /\ c(NthSoonest(list, K, n)) = n
  <2> SUFFICES ASSUME NEW n \in 1..Cardinality(K)
               PROVE  NthSoonest(list, K, n) \in K /\ c(NthSoonest(list, K, n)) = n
    OBVIOUS
  <2>1. PICK k \in K : c(k) = n
    BY <1>8
  <2> QED BY <2>1 DEF NthSoonest, c
<1>15. ASSUME NEW m \in 1..Cardinality(K), NEW n \in 1..Cardinality(K), m < n
       PROVE  Sooner(list, NthSoonest(list, K, m), NthSoonest(list, K, n))
  <2>1. c(NthSoonest(list, K, m)) < c(NthSoonest(list, K, n))
    BY <1>14, <1>15
  <2> QED BY <1>12, <1>14, <2>1
<1>16. ASSUME NEW k \in K PROVE \E n \in 1..Cardinality(K) : NthSoonest(list, K, n) = k
  <2>1. c(k) \in 1..Cardinality(K)
    BY <1>8
  <2>2. NthSoonest(list, K, c(k)) = k
    BY <1>13, <1>14, <2>1
  <2> QED BY <2>1, <2>2
<1> QED BY <1>8, <1>14, <1>15, <1>16

\* The rows that the calendar has, and what is readable of them.
LEMMA CalendarRows ==
  ASSUME calendar \in Calendars
  PROVE  /\ calendar \in FromCalendar
         /\ DOMAIN calendar = 1..Len(calendar) /\ Len(calendar) \in Nat
         /\ \A k \in DOMAIN calendar : calendar[k].week \in Int
         /\ \A k \in DOMAIN calendar : Readable(calendar[k]) => calendar[k].date \in Int
         /\ \A list \in FromCalendar :
              /\ DOMAIN list = 1..Len(list) /\ Len(list) \in Nat
              /\ \A k \in DOMAIN list : \E c \in DOMAIN calendar : list[k] = calendar[c]
<1>1. /\ calendar \in Seq(ToSet(calendar))
      /\ \A k \in DOMAIN calendar :
           calendar[k].week \in Int /\ calendar[k].date \in Int \union {None}
  BY ContextAssumption DEF IsList
<1>2. \A r \in ToSet(calendar) : \E c \in DOMAIN calendar : r = calendar[c]
  BY DEF ToSet
<1>3. \A k \in DOMAIN calendar : Readable(calendar[k]) => calendar[k].date \in Int
  BY <1>1 DEF Readable
<1>4. ASSUME NEW list \in Seq(ToSet(calendar))
      PROVE  /\ DOMAIN list = 1..Len(list) /\ Len(list) \in Nat
             /\ \A k \in DOMAIN list : \E c \in DOMAIN calendar : list[k] = calendar[c]
  <2>1. DOMAIN list = 1..Len(list) /\ Len(list) \in Nat
    OBVIOUS
  <2>2. \A k \in DOMAIN list : list[k] \in ToSet(calendar)
    OBVIOUS
  <2> QED BY <1>2, <2>1, <2>2
<1> QED BY <1>1, <1>3, <1>4 DEF FromCalendar

\* What Sound says of a list, without its window.
Key(e) == <<e.currency, e.when, e.name>>
Orderly(list) == \A m, n \in DOMAIN list :
  m < n => list[m].when <= list[n].when /\ Key(list[m]) # Key(list[n])
Sourced(list) == \A n \in DOMAIN list : \E k \in DOMAIN calendar :
  Readable(calendar[k]) /\ list[n] = EconomicEvent(calendar[k])
Within(list, from, until) == \A n \in DOMAIN list :
  from <= list[n].when /\ list[n].when <= until

LEMMA SoundParts ==
  ASSUME NEW list, NEW from, NEW until
  PROVE  Sound(list, from, until)
           <=> Orderly(list) /\ Sourced(list) /\ Within(list, from, until)
  BY DEF Sound, Orderly, Sourced, Within, Key

\* Each release of the rows once, by time.
LEMMA ReleasesOnce ==
  ASSUME calendar \in Calendars, NEW list \in FromCalendar
  PROVE  /\ Releases(list) \in Seq(Happenings)
         /\ Orderly(Releases(list))
         /\ Sourced(Releases(list))
         /\ \A k \in DOMAIN list : FirstOfRelease(list, k) =>
              EconomicEvent(list[k]) \in ToSet(Releases(list))
<1> DEFINE first == {k \in DOMAIN list : FirstOfRelease(list, k)}
           nth(n) == NthSoonest(list, first, n)
<1>1. /\ DOMAIN list = 1..Len(list) /\ Len(list) \in Nat
      /\ \A k \in DOMAIN list : \E c \in DOMAIN calendar : list[k] = calendar[c]
  BY CalendarRows
<1>2. first \in SUBSET Nat /\ IsFiniteSet(first)
  BY <1>1, CountTo, FS_Subset
<1>3. \A k \in first : Readable(list[k])
  BY DEF FirstOfRelease
<1>4. \A k \in first : list[k].date \in Int
  BY <1>1, <1>3, CalendarRows
<1>5. \A j, k \in first : j # k => ~SameRelease(list[j], list[k])
  <2> SUFFICES ASSUME NEW j \in first, NEW k \in first, j # k
               PROVE  ~SameRelease(list[j], list[k])
    OBVIOUS
  <2>1. Readable(list[j]) /\ Readable(list[k])
    BY <1>3
  <2>2. j \in 1..(k - 1) \/ k \in 1..(j - 1)
    BY <1>1
  <2> QED BY <2>1, <2>2 DEF FirstOfRelease, SameRelease
<1>6. Releases(list) = [n \in 1..Cardinality(first) |-> EconomicEvent(list[nth(n)])]
  BY DEF Releases
<1>7. \A k \in first : k \in DOMAIN list /\ (k \in DOMAIN list => FirstOfRelease(list, k))
  OBVIOUS
<1>8. \A k \in DOMAIN list : FirstOfRelease(list, k) => k \in first
  OBVIOUS
<1> HIDE DEF first
<1>9. PICK c \in Nat : c = Cardinality(first)
  BY <1>2, <1>4, NthSoonestOf
<1>10. /\ \A n \in 1..c : nth(n) \in first
       /\ \A m, n \in 1..c : m < n => Sooner(list, nth(m), nth(n))
       /\ \A k \in first : \E n \in 1..c : nth(n) = k
  BY <1>2, <1>4, <1>9, NthSoonestOf
<1> HIDE DEF nth
<1> DEFINE released == [n \in 1..c |-> EconomicEvent(list[nth(n)])]
<1>11. Releases(list) = released
  BY <1>6, <1>9
<1>12. /\ DOMAIN released = 1..c
       /\ \A n \in 1..c : released[n] = EconomicEvent(list[nth(n)])
  OBVIOUS
<1>13. \A k \in first : EconomicEvent(list[k]) \in Happenings
  BY <1>1, <1>7 DEF Happenings
<1>14. released \in Seq(Happenings)
  BY <1>10, <1>13
<1> HIDE DEF released
<1>15. Orderly(released)
  <2> SUFFICES ASSUME NEW m \in 1..c, NEW n \in 1..c, m < n
               PROVE  /\ released[m].when <= released[n].when
                      /\ Key(released[m]) # Key(released[n])
    BY <1>12 DEF Orderly
  <2>1. PICK j \in first : j = nth(m)
    BY <1>10
  <2>2. PICK k \in first : k = nth(n)
    BY <1>10
  <2>3. Sooner(list, j, k) /\ list[j].date \in Int /\ list[k].date \in Int
    BY <1>4, <1>10, <2>1, <2>2
  <2>4. list[j].date <= list[k].date /\ j # k
    BY <2>3, <1>2 DEF Sooner
  <2>5. released[m] = EconomicEvent(list[j]) /\ released[n] = EconomicEvent(list[k])
    BY <1>12, <2>1, <2>2
  <2>6. ~SameRelease(list[j], list[k])
    BY <1>5, <2>4
  <2>7. Key(released[m]) # Key(released[n])
    BY <2>5, <2>6 DEF EconomicEvent, SameRelease, Key
  <2>8. released[m].when <= released[n].when
    BY <2>4, <2>5 DEF EconomicEvent
  <2> QED BY <2>7, <2>8
<1>16. Sourced(released)
  BY <1>1, <1>3, <1>7, <1>10, <1>12 DEF Sourced
<1>17. \A k \in first : EconomicEvent(list[k]) \in ToSet(released)
  BY <1>10, <1>12 DEF ToSet
<1> QED BY <1>8, <1>11, <1>14, <1>15, <1>16, <1>17

\* What is kept of an orderly list is orderly, and comes from where it came.
LEMMA KeptOrderly ==
  ASSUME NEW list \in Seq(Happenings), Orderly(list), Sourced(list),
         NEW K \in SUBSET DOMAIN list
  PROVE  Orderly(Kept(list, K)) /\ Sourced(Kept(list, K))
<1> DEFINE kept == Kept(list, K)
<1>1. /\ \A n \in DOMAIN kept : Nth(K, n) \in K /\ kept[n] = list[Nth(K, n)]
      /\ \A m, n \in DOMAIN kept : m < n => Nth(K, m) < Nth(K, n)
  BY KeptItems
<1> HIDE DEF kept
<1>2. \A n \in DOMAIN kept : Nth(K, n) \in DOMAIN list
  BY <1>1
<1>3. Orderly(kept)
  <2> SUFFICES ASSUME NEW m \in DOMAIN kept, NEW n \in DOMAIN kept, m < n
               PROVE  kept[m].when <= kept[n].when /\ Key(kept[m]) # Key(kept[n])
    BY DEF Orderly
  <2>1. PICK i \in DOMAIN list : i = Nth(K, m)
    BY <1>2
  <2>2. PICK j \in DOMAIN list : j = Nth(K, n)
    BY <1>2
  <2>3. i < j /\ kept[m] = list[i] /\ kept[n] = list[j]
    BY <1>1, <2>1, <2>2
  <2> QED BY <2>3 DEF Orderly
<1>4. Sourced(kept)
  BY <1>1, <1>2 DEF Sourced
<1> QED BY <1>3, <1>4 DEF kept

\* A part of a list that is sound is sound.
LEMMA KeptSound ==
  ASSUME NEW list \in Seq(Happenings), NEW from, NEW until, Sound(list, from, until),
         NEW K \in SUBSET DOMAIN list
  PROVE  Sound(Kept(list, K), from, until)
<1>1. Orderly(list) /\ Sourced(list) /\ Within(list, from, until)
  BY SoundParts
<1>2. Orderly(Kept(list, K)) /\ Sourced(Kept(list, K))
  BY <1>1, KeptOrderly
<1>3. \A n \in DOMAIN Kept(list, K) : Nth(K, n) \in DOMAIN list /\ Kept(list, K)[n] = list[Nth(K, n)]
  BY KeptItems
<1>4. Within(Kept(list, K), from, until)
  BY <1>1, <1>3 DEF Within
<1> QED BY <1>2, <1>4, SoundParts

\* The events in a window of what was released, and none is left out that is of
\* medium impact at least.
LEMMA FilteredReleases ==
  ASSUME calendar \in Calendars, NEW list \in FromCalendar, NEW from, NEW until
  PROVE  LET cut == FilterEvents(Releases(list), from, until, Medium)
         IN  /\ cut \in Seq(Happenings)
             /\ Sound(cut, from, until)
             /\ \A k \in DOMAIN list :
                  LET e == EconomicEvent(list[k])
                  IN  /\ FirstOfRelease(list, k)
                      /\ from <= e.when
                      /\ e.when <= until
                      /\ ImpactOrder[e.impact] >= Medium
                      => e \in ToSet(cut)
<1> DEFINE all == Releases(list)
           inside(e) == from <= e.when /\ e.when <= until /\ ImpactOrder[e.impact] >= Medium
           K == {k \in DOMAIN all : inside(all[k])}
<1>1. /\ all \in Seq(Happenings)
      /\ Orderly(all) /\ Sourced(all)
      /\ \A k \in DOMAIN list : FirstOfRelease(list, k) => EconomicEvent(list[k]) \in ToSet(all)
  BY ReleasesOnce
<1>2. FilterEvents(all, from, until, Medium) = Kept(all, K)
  BY DEF FilterEvents
<1>3. \A k \in DOMAIN all : k \in K <=> inside(all[k])
  OBVIOUS
<1>4. K \in SUBSET DOMAIN all
  OBVIOUS
<1> HIDE DEF all, K
<1> DEFINE cut == Kept(all, K)
<1>5. /\ cut \in Seq(Happenings)
      /\ \A n \in DOMAIN cut : Nth(K, n) \in K /\ cut[n] = all[Nth(K, n)]
      /\ \A k \in K : \E n \in DOMAIN cut : cut[n] = all[k]
  BY <1>1, <1>4, KeptItems
<1>6. Orderly(cut) /\ Sourced(cut)
  BY <1>1, <1>4, KeptOrderly
<1> HIDE DEF cut
<1>7. Within(cut, from, until)
  <2> SUFFICES ASSUME NEW n \in DOMAIN cut PROVE from <= cut[n].when /\ cut[n].when <= until
    BY DEF Within
  <2>1. PICK k \in K : cut[n] = all[k]
    BY <1>5
  <2> QED BY <1>3, <1>4, <2>1
<1>8. ASSUME NEW e, e \in ToSet(all), inside(e) PROVE e \in ToSet(cut)
  <2>1. PICK k \in DOMAIN all : e = all[k]
    BY <1>8 DEF ToSet
  <2>2. k \in K
    BY <1>3, <1>8, <2>1
  <2> QED BY <1>5, <2>1, <2>2 DEF ToSet
<1>9. Sound(cut, from, until)
  BY <1>6, <1>7, SoundParts
<1>10. ASSUME NEW k \in DOMAIN list, FirstOfRelease(list, k), inside(EconomicEvent(list[k]))
       PROVE  EconomicEvent(list[k]) \in ToSet(cut)
  BY <1>1, <1>8, <1>10
<1>11. FilterEvents(Releases(list), from, until, Medium) = cut
  BY <1>2 DEF all, cut
<1> QED BY <1>5, <1>9, <1>10, <1>11

\* A row of the calendar that is the only one of its release is the first of it
\* in any list of rows that has it.
LEMMA OnlyIsFirst ==
  ASSUME calendar \in Calendars, NEW list \in FromCalendar,
         NEW from, NEW until, NEW files, NEW k \in Due(from, until, files),
         NEW i \in DOMAIN list, list[i] = calendar[k]
  PROVE  \E m \in DOMAIN list : list[m] = calendar[k] /\ FirstOfRelease(list, m)
<1> DEFINE T == {m \in DOMAIN list : list[m] = calendar[k]}
<1>1. /\ DOMAIN list = 1..Len(list) /\ Len(list) \in Nat
      /\ \A m \in DOMAIN list : \E c \in DOMAIN calendar : list[m] = calendar[c]
  BY CalendarRows
<1>2. T \in SUBSET Nat /\ T # {}
  BY <1>1
<1>3. PICK m \in T : \A n \in T : m <= n
  <2> HIDE DEF T
  <2> QED BY <1>2, LeastElement
<1>4. m \in DOMAIN list /\ list[m] = calendar[k]
  OBVIOUS
<1>5. /\ Readable(calendar[k])
      /\ \A c \in DOMAIN calendar \ {k} : ~SameRelease(calendar[c], calendar[k])
  BY DEF Due
<1>6. ASSUME NEW j \in 1..(m - 1), SameRelease(list[j], list[m]) PROVE FALSE
  <2>1. j \in DOMAIN list /\ ~(m <= j)
    BY <1>1, <1>4
  <2>2. PICK c \in DOMAIN calendar : list[j] = calendar[c]
    BY <1>1, <2>1
  <2>3. c = k
    BY <1>4, <1>5, <1>6, <2>2
  <2>4. j \in T
    BY <2>1, <2>2, <2>3
  <2> QED BY <1>3, <2>1, <2>4
<1>7. FirstOfRelease(list, m)
  BY <1>4, <1>5, <1>6 DEF FirstOfRelease
<1> QED BY <1>4, <1>7

\* A weekly file has the rows of its week.
LEMMA WeekFileRows ==
  ASSUME calendar \in Calendars, NEW week
  PROVE  /\ WeekFile(week) \in FromCalendar
         /\ \A k \in DOMAIN calendar : calendar[k].week = week =>
              \E i \in DOMAIN WeekFile(week) : WeekFile(week)[i] = calendar[k]
<1> DEFINE K == {k \in DOMAIN calendar : calendar[k].week = week}
<1>1. calendar \in Seq(ToSet(calendar))
  BY CalendarRows DEF FromCalendar
<1>2. K \in SUBSET DOMAIN calendar /\ \A k \in DOMAIN calendar : calendar[k].week = week => k \in K
  OBVIOUS
<1>3. WeekFile(week) = Kept(calendar, K)
  BY DEF WeekFile
<1> HIDE DEF K
<1>4. /\ Kept(calendar, K) \in Seq(ToSet(calendar))
      /\ \A k \in K : \E n \in DOMAIN Kept(calendar, K) : Kept(calendar, K)[n] = calendar[k]
  BY <1>1, <1>2, KeptItems
<1> QED BY <1>2, <1>3, <1>4 DEF FromCalendar

(***************************************************************************)
(* The invariant holds at first and through every step.                    *)
(***************************************************************************)
LEMMA SeriesAsked ==
  /\ News \in Nat /\ News > Recents
  /\ SeriesNames \in Seq(ToSet(SeriesNames))
  /\ DOMAIN SeriesNames = 1..Len(SeriesNames) /\ Len(SeriesNames) \in Nat
  /\ Known \in SUBSET Nat /\ IsFiniteSet(Known) /\ Known \subseteq DOMAIN SeriesNames
<1>1. /\ SeriesNames \in Seq(ToSet(SeriesNames))
      /\ DOMAIN SeriesNames = 1..Len(SeriesNames) /\ Len(SeriesNames) \in Nat
  BY ContextAssumption DEF IsList
<1>2. Known \in SUBSET Nat /\ IsFiniteSet(Known) /\ Known \subseteq DOMAIN SeriesNames
  BY <1>1, CountTo, FS_Subset DEF Known
<1> QED BY <1>1, <1>2 DEF News, Recents

\* The week is still that of an earlier time if it is so later.
LEMMA WeekKept ==
  ASSUME NEW t \in Nat, NEW m \in Nat, NEW n \in Nat, t <= m, m <= n,
         WeekOf(n) = WeekOf(t)
  PROVE  WeekOf(m) = WeekOf(t)
<1>1. t \div 7 <= m \div 7 /\ m \div 7 <= n \div 7 /\ m \div 7 \in Int /\ t \div 7 \in Int
  OBVIOUS
<1> QED BY <1>1 DEF WeekOf

LEMMA ContextStarts == ContextInit => ContextInv
<1> SUFFICES ASSUME ContextInit PROVE ContextInv
  OBVIOUS
<1> USE DEF ContextInit, RequestInit, Upcomings, Recents
<1>1. Readings
  <2>1. calendar \in Calendars /\ now \in Nat /\ task = 1 /\ asked = << >> /\ events = << >>
    BY ContextAssumption
  <2>2. outcome = None /\ weeks = << >>
    OBVIOUS
  <2>3. ~Briefed /\ outcome # "raised"
    BY <2>2, ContextAssumption DEF Briefed
  <2> QED BY <2>1, <2>2, <2>3, SeriesAsked DEF Readings, Fetching
<1>2. Fetched /\ Idle
  BY DEF Fetched, Idle, Fetching
<1>3. Events
  BY DEF Events
<1>4. Snapshots
  <2>1. {k \in Known : k <= SeriesDone} = {}
    BY SeriesAsked DEF Known, SeriesDone
  <2>2. Cardinality({k \in Known : k <= SeriesDone}) = 0
    BY <2>1, FS_EmptySet
  <2> QED BY <2>2 DEF Snapshots
<1> QED BY <1>1, <1>2, <1>3, <1>4 DEF ContextInv

\* What was returned stays right while the clock runs.
LEMMA EventStays ==
  ASSUME Readings, NEW i \in DOMAIN events, i \in DOMAIN asked,
         Sound(events[i], From(i), Until(i)), Whole(i),
         calendar' = calendar, events'[i] = events[i], asked'[i] = asked[i],
         now' \in Nat, now <= now'
  PROVE  Sound(events[i], From(i), Until(i))' /\ Whole(i)'
<1>1. /\ From(i)' = From(i) /\ Until(i)' = Until(i) /\ Read(i)' = Read(i)
      /\ asked[i] \in Nat /\ asked[i] <= now /\ now \in Nat
  BY DEF Readings, From, Until, Read, FilesOf
<1>2. Sound(events[i], From(i), Until(i))'
  BY <1>1 DEF Sound
<1>3. Whole(i)'
  <2> SUFFICES ASSUME SameWeek(asked[i])',
                      NEW k \in Due(From(i), Until(i), Read(i))',
                      ImpactOrder[EconomicEvent(calendar[k]).impact] >= Medium
               PROVE  EconomicEvent(calendar[k]) \in ToSet(events[i])
    BY DEF Whole, Medium
  <2>1. SameWeek(asked[i])
    BY <1>1, WeekKept DEF SameWeek
  <2>2. k \in Due(From(i), Until(i), Read(i))
    BY <1>1 DEF Due
  <2> QED BY <2>1, <2>2 DEF Whole
<1> QED BY <1>2, <1>3

LEMMA EventsStay ==
  ASSUME Readings, Events, calendar' = calendar, events' = events,
         DOMAIN events \subseteq DOMAIN asked,
         \A i \in DOMAIN events : asked'[i] = asked[i],
         now' \in Nat, now <= now'
  PROVE  Events'
<1>1. ASSUME NEW i \in DOMAIN events
      PROVE  Sound(events[i], From(i), Until(i))' /\ Whole(i)'
  BY EventStays DEF Events
<1>2. (events \in Seq(Seq(Happenings)))'
  BY DEF Events, Happenings
<1> QED BY <1>1, <1>2 DEF Events

\* Nor do the snapshots change while no series answers.
LEMMA SnapshotsStay ==
  ASSUME Snapshots, macro' = macro, heard' = heard,
         Cardinality({k \in Known : k <= SeriesDone})'
           = Cardinality({k \in Known : k <= SeriesDone})
  PROVE  Snapshots'
<1>1. Len(heard)' = Cardinality({k \in Known : k <= SeriesDone})'
  BY DEF Snapshots
<1>2. (\A n \in 1..Len(heard) : heard[n].name = SeriesNames[Nth(Known, n)])'
  BY DEF Snapshots, Known
<1>3. (heard \in Seq(Heard))' /\ (macro \in Seq({Snapshot(h) : h \in Heard}))'
  BY DEF Snapshots
<1>4. (Len(macro) = Len(heard))' /\ (\A n \in 1..Len(heard) : macro[n] = Snapshot(heard[n]))'
  BY DEF Snapshots
<1> QED BY <1>1, <1>2, <1>3, <1>4 DEF Snapshots

\* There is a reading of the clock for each list of events.
LEMMA AskedFirst ==
  ASSUME Readings, events \in Seq(Seq(Happenings))
  PROVE  /\ DOMAIN events \subseteq DOMAIN asked
         /\ Len(events) \in Nat /\ DOMAIN events = 1..Len(events)
         /\ Len(asked) \in Nat /\ DOMAIN asked = 1..Len(asked)
         /\ Fetching => Last(asked) \in Nat /\ Last(asked) <= now
<1> DEFINE S == Seq(Happenings)
<1>1. asked \in Seq(Nat) /\ events \in Seq(S)
      /\ Len(asked) = Len(events) + (IF Fetching THEN 1 ELSE 0)
  BY DEF Readings
<1> HIDE DEF S
<1>2. /\ Len(events) \in Nat /\ DOMAIN events = 1..Len(events)
      /\ Len(asked) \in Nat /\ DOMAIN asked = 1..Len(asked)
  BY <1>1
<1>3. DOMAIN events \subseteq DOMAIN asked
  BY <1>1, <1>2
<1>4. Fetching => Len(asked) \in DOMAIN asked
  BY <1>1, <1>2
<1>5. Fetching => Last(asked) \in Nat /\ Last(asked) <= now
  BY <1>4 DEF Readings, Last
<1> QED BY <1>2, <1>3, <1>5

\* The clock runs, or the brief comes to an end.
LEMMA NothingFetched ==
  ASSUME ContextInv,
         UNCHANGED <<httpVars, calendar, task, asked, weeks, rows, events, macro, heard>>,
         now' \in Nat, now <= now',
         Briefed' => task = News,
         outcome' = "raised" => task \in CalendarTasks
  PROVE  ContextInv'
<1>1. Readings /\ Fetched /\ Idle /\ Events /\ Snapshots
  BY DEF ContextInv
<1>2. /\ DOMAIN events \subseteq DOMAIN asked
      /\ Fetching => Last(asked) \in Nat /\ Last(asked) <= now
  BY <1>1, AskedFirst DEF Events
<1>3. Readings'
  <2>1. \A i \in DOMAIN asked : asked[i] <= now'
    BY <1>1 DEF Readings
  <2> QED BY <1>1, <2>1 DEF Readings, Fetching, CalendarTasks, News, Recents, Upcomings
<1>4. Fetched'
  <2> SUFFICES ASSUME Fetching PROVE Fetched'
    BY DEF Fetched, Fetching
  <2>1. \A week, file : (Served(Last(asked), week, file) =>
          (WeekOf(now') = WeekOf(Last(asked)) => file = WeekFile(WeekOf(Last(asked)) + week)))
    BY <1>1, <1>2, WeekKept DEF Served, SameWeek, Readings
  <2>2. \A week : WeekFile(week)' = WeekFile(week)
    BY DEF WeekFile
  <2>3. reply' = reply /\ Last(asked)' = Last(asked) /\ FilesOf(task)' = FilesOf(task)
    BY DEF httpVars, FilesOf
  <2>4. Served(Last(asked), 0, rows) => Served(Last(asked), 0, rows)'
    BY <2>1, <2>2, <2>3 DEF Served, SameWeek
  <2>5. Served(Last(asked), Head(weeks), reply) => Served(Last(asked), Head(weeks), reply)'
    BY <2>1, <2>2, <2>3 DEF Served, SameWeek
  <2> QED BY <1>1, <2>3, <2>4, <2>5 DEF Fetched, Fetching, FromCalendar
<1>5. Idle'
  BY <1>1 DEF Idle, Fetching, httpVars, News, Recents, Series
<1>6. Events'
  BY <1>1, <1>2, EventsStay
<1>7. Snapshots'
  BY <1>1, SnapshotsStay DEF SeriesDone, Known
<1> QED BY <1>3, <1>4, <1>5, <1>6, <1>7 DEF ContextInv

LEMMA QuietStep ==
  ASSUME ContextInv, Tick \/ CalendarFails \/ NewsEnds \/ Describe \/ UNCHANGED contextVars
  PROVE  ContextInv'
<1>1. Readings
  BY DEF ContextInv
<1>2. UNCHANGED <<httpVars, calendar, task, asked, weeks, rows, events, macro, heard>>
  BY DEF Tick, CalendarFails, NewsEnds, Describe, contextVars
<1>3. now' \in Nat /\ now <= now'
  BY <1>1 DEF Readings, Tick, CalendarFails, NewsEnds, Describe, contextVars
<1>4. Briefed' => task = News
  <2>1. CASE Tick
    BY <1>1, <2>1 DEF Readings, Tick, Briefed
  <2>2. CASE CalendarFails
    BY <2>2 DEF CalendarFails, Briefed
  <2>3. CASE NewsEnds
    BY <2>3 DEF NewsEnds, OnNews
  <2>4. CASE Describe
    BY <1>1, <2>4 DEF Readings, Describe, Briefed
  <2>5. CASE UNCHANGED contextVars
    BY <1>1, <2>5 DEF Readings, Briefed, contextVars
  <2> QED BY <2>1, <2>2, <2>3, <2>4, <2>5
<1>5. outcome' = "raised" => task \in CalendarTasks
  <2>1. CASE Tick
    BY <1>1, <2>1 DEF Readings, Tick
  <2>2. CASE CalendarFails
    BY <2>2 DEF CalendarFails, OnCalendar, CalendarTasks
  <2>3. CASE NewsEnds
    BY <2>3 DEF NewsEnds
  <2>4. CASE Describe
    BY <2>4 DEF Describe
  <2>5. CASE UNCHANGED contextVars
    BY <1>1, <2>5 DEF Readings, contextVars
  <2> QED BY <2>1, <2>2, <2>3, <2>4, <2>5
<1> QED BY <1>2, <1>3, <1>4, <1>5, NothingFetched

\* upcoming or recent reads the clock.
LEMMA StartCalendarKeeps ==
  ASSUME ContextInv, StartCalendar
  PROVE  ContextInv'
<1>1. Readings /\ Fetched /\ Idle /\ Events /\ Snapshots
  BY DEF ContextInv
<1>2. /\ asked' = Append(asked, now) /\ weeks' = FilesOf(task) /\ weeks = << >>
      /\ UNCHANGED <<httpVars, calendar, now, task, rows, events, macro, outcome, heard>>
      /\ task \in {Upcomings, Recents}
  BY DEF StartCalendar, OnCalendar
<1>3. /\ Len(events) \in Nat /\ DOMAIN events = 1..Len(events)
      /\ Len(asked) \in Nat /\ DOMAIN asked = 1..Len(asked)
      /\ DOMAIN events \subseteq DOMAIN asked
  BY <1>1, AskedFirst DEF Events
<1>4. asked \in Seq(Nat) /\ now \in Nat /\ task \in Nat /\ Len(asked) = Len(events)
  BY <1>1, <1>2, <1>3, SeriesAsked DEF Readings, Fetching
<1>5. /\ asked' \in Seq(Nat) /\ Len(asked') = Len(asked) + 1
      /\ DOMAIN asked' = 1..(Len(asked) + 1)
      /\ \A i \in DOMAIN asked : asked'[i] = asked[i]
      /\ asked'[Len(asked) + 1] = now
  BY <1>2, <1>4
<1>6. weeks' # << >> /\ FilesOf(task)' = FilesOf(task)
  BY <1>2 DEF FilesOf, Upcoming, Recent
<1>7. Readings'
  <2>1. \A i \in DOMAIN asked' : asked'[i] <= now
    <3>1. \A i \in DOMAIN asked : asked[i] <= now
      BY <1>1 DEF Readings
    <3>2. \A i \in DOMAIN asked' : i \in DOMAIN asked \/ i = Len(asked) + 1
      BY <1>3, <1>5
    <3> QED BY <1>4, <1>5, <3>1, <3>2
  <2>2. Len(events)' = IF task <= Recents THEN task - 1 ELSE Recents
    BY <1>1, <1>2 DEF Readings
  <2>3. Len(asked)' = Len(events)' + 1 /\ task <= Recents
    BY <1>2, <1>3, <1>4, <1>5 DEF Upcomings, Recents
  <2>4. (Briefed => task = News)' /\ (outcome = "raised" => task \in CalendarTasks)'
    BY <1>1, <1>2 DEF Readings, Briefed, CalendarTasks, News, Recents, Upcomings
  <2> QED BY <1>1, <1>2, <1>5, <1>6, <2>1, <2>2, <2>3, <2>4 DEF Readings, Fetching, News, Recents
<1>8. reply = None /\ rows = << >>
  BY <1>1, <1>2 DEF Idle, Fetching, Upcomings, Recents
<1>9. Fetched'
  <2>1. rows' \in FromCalendar'
    BY <1>2, <1>8 DEF FromCalendar
  <2>2. weeks' = FilesOf(task)' /\ rows' = << >> /\ reply' = None
    BY <1>2, <1>6, <1>8 DEF httpVars
  <2> QED BY <2>1, <2>2 DEF Fetched
<1>10. Idle'
  BY <1>2, <1>6 DEF Idle, Fetching, Upcomings, Recents
<1>11. Events'
  BY <1>1, <1>2, <1>3, <1>4, <1>5, EventsStay
<1>12. Snapshots'
  BY <1>1, <1>2, SnapshotsStay DEF SeriesDone, Known
<1> QED BY <1>7, <1>9, <1>10, <1>11, <1>12 DEF ContextInv

\* What an attempt may bring: nothing yet, an error, or what the server sends.
LEMMA Attempted ==
  ASSUME Attempt
  PROVE  /\ reply = None
         /\ reply' \in {None, Failed} \union (Bodies \ {NotJson})
         /\ UNCHANGED <<calendar, now, task, asked, weeks, rows, events, macro, headlines,
                        outcome, heard>>
<1>1. UNCHANGED <<calendar, now, task, asked, weeks, rows, events, macro, headlines,
                  outcome, heard>>
  BY DEF Attempt
<1>2. \/ TransportError
      \/ \E status \in Statuses : Answered(status, NotJson)
      \/ \E body \in Bodies : Answered(200, body)
  BY DEF Attempt
<1>3. CASE TransportError
  BY <1>1, <1>3 DEF TransportError
<1>4. ASSUME NEW status \in Statuses, Answered(status, NotJson)
      PROVE  reply = None /\ reply' \in {None, Failed}
  BY <1>4 DEF Answered
<1>5. ASSUME NEW body \in Bodies, Answered(200, body)
      PROVE  reply = None /\ reply' \in {None, Failed} \union (Bodies \ {NotJson})
  BY <1>5 DEF Answered
<1> QED BY <1>1, <1>2, <1>3, <1>4, <1>5

\* A request is tried, or tried again.
LEMMA AttemptKeeps ==
  ASSUME ContextInv, Attempt
  PROVE  ContextInv'
<1>1. Readings /\ Fetched /\ Idle /\ Events /\ Snapshots
  BY DEF ContextInv
<1>2. /\ reply = None
      /\ reply' \in {None, Failed} \union (Bodies \ {NotJson})
      /\ UNCHANGED <<calendar, now, task, asked, weeks, rows, events, macro, outcome, heard>>
  BY Attempted
<1>3. Requesting
  BY DEF Attempt
<1>4. /\ DOMAIN events \subseteq DOMAIN asked
      /\ now \in Nat /\ calendar \in Calendars /\ task \in Nat /\ task >= 1
  BY <1>1, AskedFirst, SeriesAsked DEF Events, Readings
<1>5. Readings'
  BY <1>1, <1>2 DEF Readings, Briefed, Fetching, CalendarTasks, News, Recents, Upcomings
<1>6. Fetched'
  <2> SUFFICES ASSUME Fetching PROVE Fetched'
    BY <1>2 DEF Fetched, Fetching
  <2>1. OnCalendar
    BY <1>1, <1>3, <1>4 DEF Requesting, OnCalendar, Readings, Upcomings, Recents
  <2>2. /\ \A week : WeekFile(week)' = WeekFile(week)
        /\ FilesOf(task)' = FilesOf(task) /\ FromCalendar' = FromCalendar
        /\ Last(asked)' = Last(asked)
    BY <1>2 DEF WeekFile, FilesOf, FromCalendar
  <2>3. rows \in FromCalendar /\ \/ weeks = FilesOf(task) /\ rows = << >>
                                 \/ /\ FilesOf(task) = <<0, Head(weeks)>>
                                    /\ weeks = <<Head(weeks)>>
                                    /\ Served(Last(asked), 0, rows)
    BY <1>1 DEF Fetched
  <2>4. Served(Last(asked), 0, rows) => Served(Last(asked), 0, rows)'
    BY <1>2, <2>2 DEF Served, SameWeek
  <2>5. ASSUME reply' \notin {None, Failed, NotAList}
        PROVE  reply' \in FromCalendar /\ Served(Last(asked), Head(weeks), reply)'
    <3>1. reply' = WeekFile(WeekOf(now) + Head(weeks))
      BY <1>2, <2>1, <2>5 DEF Bodies
    <3>2. reply' \in FromCalendar
      BY <1>4, <3>1, WeekFileRows
    <3>3. Served(Last(asked), Head(weeks), reply)'
      BY <1>2, <2>2, <3>1 DEF Served, SameWeek
    <3> QED BY <3>2, <3>3
  <2> QED BY <1>2, <2>2, <2>3, <2>4, <2>5 DEF Fetched
<1>7. Idle'
  <2>1. ~Fetching => rows = << >>
    BY <1>1 DEF Idle
  <2>2. task <= Recents => Fetching
    BY <1>3, <1>4 DEF Requesting, OnCalendar, Fetching, Upcomings, Recents
  <2>3. task > Recents /\ task < News =>
          /\ reply' \in {None, Failed, NotAList} \union SeriesAnswers
          /\ Series \in DOMAIN FredSeries
    <3> SUFFICES ASSUME task > Recents, task < News
                 PROVE  /\ reply' \in {None, Failed, NotAList} \union SeriesAnswers
                        /\ Series \in DOMAIN FredSeries
      OBVIOUS
    <3>1. OnSeries /\ ~OnCalendar
      BY <1>3, <1>4 DEF Requesting, OnSeries, OnCalendar, Upcomings, Recents
    <3> QED BY <1>2, <1>3, <3>1 DEF Bodies, Requesting
  <2> QED BY <1>2, <2>1, <2>2, <2>3 DEF Idle, Fetching, News, Recents, Series
<1>8. Events'
  BY <1>1, <1>2, <1>4, EventsStay
<1>9. Snapshots'
  BY <1>1, <1>2, SnapshotsStay DEF SeriesDone, Known
<1> QED BY <1>5, <1>6, <1>7, <1>8, <1>9 DEF ContextInv

\* A series that is not known takes no place among the snapshots.
LEMMA SeriesPosition ==
  ASSUME ContextInv, OnSeries
  PROVE  /\ task - Recents \in DOMAIN SeriesNames
         /\ SeriesDone = task - Recents - 1
         /\ task \in Nat /\ task + 1 \in 1..News /\ ~Fetching /\ rows = << >>
<1>1. task \in 1..News /\ (Fetching => task <= Recents) /\ (~Fetching => rows = << >>)
  BY DEF ContextInv, Readings, Idle
<1>2. task > Recents /\ task < News
  BY DEF OnSeries
<1> QED BY <1>1, <1>2, SeriesAsked DEF SeriesDone, Recents, News

LEMMA KnownSoFar ==
  ASSUME NEW k \in DOMAIN SeriesNames
  PROVE  /\ k \notin Known => {j \in Known : j <= k} = {j \in Known : j <= k - 1}
         /\ k \in Known => /\ Cardinality({j \in Known : j <= k - 1}) \in Nat
                           /\ Cardinality({j \in Known : j <= k})
                                = Cardinality({j \in Known : j <= k - 1}) + 1
                           /\ Nth(Known, Cardinality({j \in Known : j <= k})) = k
<1>1. k \in Nat /\ Known \in SUBSET Nat /\ IsFiniteSet(Known)
  BY SeriesAsked
<1>2. /\ k \notin Known => {j \in Known : j <= k} = {j \in Known : j <= k - 1}
      /\ k \in Known => {j \in Known : j <= k} = {j \in Known : j <= k - 1} \union {k}
  <2>1. \A j \in Known : j <= k <=> j <= k - 1 \/ j = k
    BY <1>1
  <2> QED BY <2>1
<1>3. k \notin {j \in Known : j <= k - 1}
  BY <1>1
<1>4. IsFiniteSet({j \in Known : j <= k - 1})
  BY <1>1, FS_Subset
<1>5. k \in Known => /\ Cardinality({j \in Known : j <= k - 1}) \in Nat
                     /\ Cardinality({j \in Known : j <= k})
                          = Cardinality({j \in Known : j <= k - 1}) + 1
  BY <1>2, <1>3, <1>4, FS_AddElement, FS_CardinalityType
<1>6. k \in Known => Nth(Known, Cardinality({j \in Known : j <= k})) = k
  BY <1>1, NthOf
<1> QED BY <1>2, <1>5, <1>6

\* A series passes, known or not.
LEMMA SeriesPasses ==
  ASSUME ContextInv, OnSeries,
         UNCHANGED <<calendar, now, asked, weeks, rows, events, outcome>>,
         task' = task + 1, reply' = None
  PROVE  Readings' /\ Fetched' /\ Idle' /\ Events'
<1>1. Readings /\ Fetched /\ Idle /\ Events
  BY DEF ContextInv
<1>2. task \in Nat /\ task + 1 \in 1..News /\ ~Fetching /\ rows = << >> /\ task > Recents
  BY SeriesPosition DEF OnSeries
<1>3. outcome = None
  BY DEF OnSeries, Working
<1>4. Readings'
  <2>1. Len(events) = Recents /\ Len(asked) = Len(events) + 0
    BY <1>1, <1>2 DEF Readings, Recents
  <2>2. (Len(events) = IF task <= Recents THEN task - 1 ELSE Recents)'
    BY <1>2, <2>1 DEF Recents
  <2>3. (Len(asked) = Len(events) + (IF Fetching THEN 1 ELSE 0))'
    BY <1>2, <2>1 DEF Fetching
  <2>4. (Briefed => task = News)' /\ (outcome = "raised" => task \in CalendarTasks)'
    BY <1>3, ContextAssumption DEF Briefed
  <2> QED BY <1>1, <1>2, <2>2, <2>3, <2>4 DEF Readings, Fetching, News
<1>5. Fetched'
  BY <1>2 DEF Fetched, Fetching
<1>6. Idle'
  BY <1>2 DEF Idle, Recents
<1>7. Events'
  <2>1. DOMAIN events \subseteq DOMAIN asked /\ now \in Nat
    BY <1>1, AskedFirst DEF Events, Readings
  <2> QED BY <1>1, <2>1, EventsStay
<1> QED BY <1>4, <1>5, <1>6, <1>7

LEMMA SkipKeeps ==
  ASSUME ContextInv, SkipUnknownSeries
  PROVE  ContextInv'
<1>1. /\ OnSeries /\ Series \notin DOMAIN FredSeries /\ task' = task + 1
      /\ UNCHANGED <<httpVars, calendar, now, asked, weeks, rows, events, macro, outcome, heard>>
  BY DEF SkipUnknownSeries
<1>2. PICK k \in DOMAIN SeriesNames : k = task - Recents
  BY <1>1, SeriesPosition
<1>3. k \notin Known
  BY <1>1, <1>2 DEF Known, Series
<1>4. task \in Nat /\ k \in Nat /\ SeriesDone = k - 1 /\ SeriesDone' = k
  BY <1>1, <1>2, SeriesPosition, SeriesAsked DEF SeriesDone, Recents, OnSeries
<1>5. Cardinality({j \in Known : j <= SeriesDone})' = Cardinality({j \in Known : j <= SeriesDone})
  <2>1. {j \in Known : j <= k} = {j \in Known : j <= k - 1}
    BY <1>3, KnownSoFar
  <2> QED BY <1>4, <2>1 DEF Known
<1>6. Snapshots'
  BY <1>1, <1>5, SnapshotsStay DEF ContextInv
<1>7. reply' = None
  BY <1>1, <1>4 DEF ContextInv, Idle, OnSeries, httpVars
<1>8. Readings' /\ Fetched' /\ Idle' /\ Events'
  BY <1>1, <1>7, SeriesPasses
<1> QED BY <1>6, <1>8 DEF ContextInv

\* Every answer about a series that is known makes one snapshot.
LEMMA OneSnapshot ==
  ASSUME NEW name, NEW answer
  PROVE  SnapshotOf(name, answer) = <<Snapshot([name |-> name, reply |-> answer])>>
  BY DEF SnapshotOf, Snapshot

LEMMA AppendSnapshot ==
  ASSUME NEW S, NEW s \in Seq(S), NEW x \in S
  PROVE  /\ s \o <<x>> \in Seq(S)
         /\ Len(s \o <<x>>) = Len(s) + 1 /\ Len(s) \in Nat
         /\ \A n \in 1..Len(s) : (s \o <<x>>)[n] = s[n]
         /\ (s \o <<x>>)[Len(s) + 1] = x
<1>1. Len(s) \in Nat
  OBVIOUS
<1> QED BY <1>1

LEMMA SeriesEndsKeeps ==
  ASSUME ContextInv, SeriesEnds
  PROVE  ContextInv'
<1> DEFINE h == [name |-> Series, reply |-> reply]
<1>1. /\ OnSeries /\ reply # None /\ task' = task + 1 /\ reply' = None
      /\ macro' = macro \o SnapshotOf(Series, reply) /\ heard' = Append(heard, h)
      /\ UNCHANGED <<calendar, now, asked, weeks, rows, events, outcome>>
  BY DEF SeriesEnds, NewRequest
<1>2. PICK k \in DOMAIN SeriesNames : k = task - Recents
  BY <1>1, SeriesPosition
<1>3. task \in Nat /\ k \in Nat /\ SeriesDone = k - 1 /\ SeriesDone' = k
  BY <1>1, <1>2, SeriesPosition, SeriesAsked DEF SeriesDone, Recents, OnSeries
<1>4. reply \in Replies
  BY <1>1, <1>3 DEF ContextInv, Idle, OnSeries, Replies
<1>5. Series = SeriesNames[k] /\ Series \in ToSet(SeriesNames)
  BY <1>2, SeriesAsked DEF Series
<1>6. h \in Heard
  BY <1>4, <1>5 DEF Heard
<1>7. k \in Known
  <2>1. Series \in DOMAIN FredSeries
    BY <1>1, <1>3 DEF ContextInv, Idle, OnSeries
  <2> QED BY <1>5, <2>1 DEF Known
<1> DEFINE S == {Snapshot(g) : g \in Heard}
           x == Snapshot(h)
           C == Cardinality({j \in Known : j <= k - 1})
<1>8. /\ heard \in Seq(Heard) /\ Len(heard) = C /\ C \in Nat
      /\ \A n \in 1..Len(heard) : heard[n].name = SeriesNames[Nth(Known, n)]
      /\ macro \in Seq(S) /\ Len(macro) = Len(heard)
      /\ \A n \in 1..Len(heard) : macro[n] = Snapshot(heard[n])
  BY <1>3, <1>7, KnownSoFar DEF ContextInv, Snapshots
<1>9. /\ Cardinality({j \in Known : j <= k}) = C + 1
      /\ Nth(Known, C + 1) = k
  BY <1>7, KnownSoFar
<1>10. macro' = macro \o <<x>> /\ x \in S /\ h.name = SeriesNames[k]
  BY <1>1, <1>5, <1>6, OneSnapshot
<1>11. {j \in Known : j <= SeriesDone}' = {j \in Known : j <= k}
  BY <1>3 DEF Known
<1> HIDE DEF S, x, C, h
<1>12. /\ macro' \in Seq(S) /\ Len(macro') = C + 1
       /\ \A n \in 1..C : macro'[n] = macro[n]
       /\ macro'[C + 1] = x
  BY <1>8, <1>10, AppendSnapshot
<1>13. /\ heard' \in Seq(Heard) /\ Len(heard') = C + 1
       /\ \A n \in 1..C : heard'[n] = heard[n]
       /\ heard'[C + 1] = h
  BY <1>1, <1>6, <1>8
<1>14. \A n \in 1..(C + 1) : n \in 1..C \/ n = C + 1
  BY <1>8
<1>15. \A n \in 1..(C + 1) : heard'[n].name = SeriesNames[Nth(Known, n)]
  BY <1>8, <1>9, <1>10, <1>13, <1>14
<1>16. \A n \in 1..(C + 1) : macro'[n] = Snapshot(heard'[n])
  BY <1>8, <1>12, <1>13, <1>14 DEF x
<1>17. Snapshots'
  <2>1. Len(heard)' = Cardinality({j \in Known : j <= SeriesDone})'
    BY <1>9, <1>11, <1>13
  <2>2. (\A n \in 1..Len(heard) : heard[n].name = SeriesNames[Nth(Known, n)])'
    BY <1>13, <1>15 DEF Known
  <2>3. (\A n \in 1..Len(heard) : macro[n] = Snapshot(heard[n]))'
    BY <1>13, <1>16
  <2>4. (macro \in Seq({Snapshot(g) : g \in Heard}))'
    BY <1>12 DEF S
  <2>5. (Len(macro) = Len(heard))' /\ (heard \in Seq(Heard))'
    BY <1>12, <1>13
  <2> QED BY <2>1, <2>2, <2>3, <2>4, <2>5 DEF Snapshots
<1>18. Readings' /\ Fetched' /\ Idle' /\ Events'
  BY <1>1, SeriesPasses
<1> QED BY <1>17, <1>18 DEF ContextInv

\* The rows of an answer that ends a file.
LEMMA AnswerRows ==
  ASSUME ContextInv, OnCalendar, weeks # << >>, Arrived
  PROVE  /\ Fetching /\ reply \in FromCalendar /\ rows \in FromCalendar
         /\ rows \o reply \in FromCalendar
         /\ Served(Last(asked), Head(weeks), reply)
         /\ \/ weeks = FilesOf(task) /\ rows = << >>
            \/ /\ FilesOf(task) = <<0, Head(weeks)>>
               /\ weeks = <<Head(weeks)>>
               /\ Served(Last(asked), 0, rows)
         /\ Len(asked) = task /\ Len(events) = task - 1 /\ task \in {1, 2}
         /\ Last(asked) = asked[task] /\ task \in DOMAIN asked
<1>1. Fetching /\ reply \notin {None, Failed, NotAList}
  BY DEF Fetching, Arrived
<1>2. /\ reply \in FromCalendar /\ rows \in FromCalendar
      /\ Served(Last(asked), Head(weeks), reply)
      /\ \/ weeks = FilesOf(task) /\ rows = << >>
         \/ /\ FilesOf(task) = <<0, Head(weeks)>>
            /\ weeks = <<Head(weeks)>>
            /\ Served(Last(asked), 0, rows)
  BY <1>1 DEF ContextInv, Fetched
<1>3. rows \o reply \in FromCalendar
  BY <1>2 DEF FromCalendar
<1>4. task \in {1, 2}
  BY DEF OnCalendar, Upcomings, Recents
<1>5. Len(asked) = task /\ Len(events) = task - 1
  BY <1>1, <1>4 DEF ContextInv, Readings, Recents
<1>6. Last(asked) = asked[task] /\ task \in DOMAIN asked
  <2>1. asked \in Seq(Nat)
    BY DEF ContextInv, Readings
  <2>2. task \in DOMAIN asked
    BY <1>4, <1>5, <2>1
  <2> QED BY <1>5, <2>2 DEF Last
<1> QED BY <1>1, <1>2, <1>3, <1>4, <1>5, <1>6

\* Everything the files hold is among the rows after the last of them.
LEMMA AllRows ==
  ASSUME ContextInv, OnCalendar, weeks # << >>, Arrived, Tail(weeks) = << >>,
         SameWeek(asked[task]),
         NEW k \in DOMAIN calendar, calendar[k].week \in Read(task)
  PROVE  \E i \in DOMAIN (rows \o reply) : (rows \o reply)[i] = calendar[k]
<1> DEFINE W == WeekOf(asked[task])
           S == ToSet(calendar)
<1>1. /\ reply \in Seq(S) /\ rows \in Seq(S) /\ calendar \in Calendars
      /\ Served(asked[task], Head(weeks), reply)
      /\ \/ weeks = FilesOf(task) /\ rows = << >>
         \/ /\ FilesOf(task) = <<0, Head(weeks)>>
            /\ weeks = <<Head(weeks)>>
            /\ Served(asked[task], 0, rows)
  BY AnswerRows DEF FromCalendar, ContextInv, Readings
<1>2. /\ DOMAIN (rows \o reply) = 1..(Len(rows) + Len(reply))
      /\ Len(rows) \in Nat /\ Len(reply) \in Nat
      /\ DOMAIN rows = 1..Len(rows) /\ DOMAIN reply = 1..Len(reply)
      /\ \A i \in 1..Len(rows) : (rows \o reply)[i] = rows[i]
      /\ \A i \in 1..Len(reply) : (rows \o reply)[Len(rows) + i] = reply[i]
  BY <1>1
<1>3. reply = WeekFile(W + Head(weeks))
  BY <1>1 DEF Served
<1>4. ASSUME NEW i \in DOMAIN reply, reply[i] = calendar[k]
      PROVE  \E j \in DOMAIN (rows \o reply) : (rows \o reply)[j] = calendar[k]
  <2>1. PICK j \in Nat : j = Len(rows) + i
    BY <1>2
  <2>2. j \in DOMAIN (rows \o reply) /\ (rows \o reply)[j] = reply[i]
    BY <1>2, <2>1
  <2> QED BY <1>4, <2>2
<1>5. ASSUME NEW i \in DOMAIN rows, rows[i] = calendar[k]
      PROVE  \E j \in DOMAIN (rows \o reply) : (rows \o reply)[j] = calendar[k]
  <2>1. i \in DOMAIN (rows \o reply) /\ (rows \o reply)[i] = rows[i]
    BY <1>2
  <2> QED BY <1>5, <2>1
<1>6. CASE calendar[k].week = W + Head(weeks)
  BY <1>1, <1>3, <1>4, <1>6, WeekFileRows
<1>7. CASE calendar[k].week # W + Head(weeks)
  <2>1. PICK f \in DOMAIN FilesOf(task) : calendar[k].week = W + FilesOf(task)[f]
    BY DEF Read
  <2>2. CASE weeks = FilesOf(task)
    <3>1. FilesOf(task) = <<0>>
      BY <2>2 DEF FilesOf, Upcoming, Recent
    <3>2. f = 1 /\ FilesOf(task)[f] = Head(weeks)
      BY <2>1, <2>2, <3>1
    <3> QED BY <1>7, <2>1, <3>2
  <2>3. CASE FilesOf(task) = <<0, Head(weeks)>> /\ rows = WeekFile(W + 0)
    <3>1. FilesOf(task)[f] \in {0, Head(weeks)}
      BY <2>1, <2>3
    <3>2. calendar[k].week = W + 0
      BY <1>7, <2>1, <3>1
    <3> QED BY <1>1, <1>5, <2>3, <3>2, WeekFileRows
  <2> QED BY <1>1, <2>2, <2>3 DEF Served
<1> QED BY <1>6, <1>7

\* A file arrives and another has to be fetched.
LEMMA NextFile ==
  ASSUME ContextInv, FileArrives, Tail(weeks) # << >>
  PROVE  ContextInv'
<1>1. Readings /\ Fetched /\ Idle /\ Events /\ Snapshots
  BY DEF ContextInv
<1>2. /\ OnCalendar /\ weeks # << >> /\ Arrived /\ weeks' = Tail(weeks) /\ rows' = rows \o reply
      /\ reply' = None
      /\ UNCHANGED <<calendar, now, task, asked, events, macro, outcome, heard>>
  BY DEF FileArrives, NewRequest
<1>3. PICK d : FilesOf(task) = <<0, d>> /\ weeks = <<0, d>> /\ rows = << >>
  <2>1. FilesOf(task) \in {<<0>>, <<0, 1>>, <<0, -1>>}
    BY DEF FilesOf, Upcoming, Recent
  <2>2. weeks = FilesOf(task) /\ rows = << >>
    <3>1. ~(weeks = <<Head(weeks)>>)
      <4> SUFFICES ASSUME weeks = <<Head(weeks)>> PROVE FALSE
        OBVIOUS
      <4>1. PICK w : w = Head(weeks)
        OBVIOUS
      <4>2. weeks = <<w>>
        BY <4>1
      <4>3. Tail(<<w>>) = << >>
        OBVIOUS
      <4> QED BY <4>2, <4>3
    <3> QED BY <1>2, <3>1, AnswerRows
  <2>3. FilesOf(task) # <<0>>
    <3>1. Tail(<<0>>) = << >>
      OBVIOUS
    <3> QED BY <2>2, <3>1
  <2> QED BY <2>1, <2>2, <2>3
<1>4. Tail(<<0, d>>) = <<d>> /\ Head(<<0, d>>) = 0 /\ Head(<<d>>) = d
  OBVIOUS
<1>5. weeks' = <<d>> /\ Head(weeks') = d /\ weeks' # << >>
  BY <1>2, <1>3, <1>4
<1>6. /\ reply \in FromCalendar /\ Served(Last(asked), 0, reply) /\ Fetching /\ task \in {1, 2}
  BY <1>2, <1>3, <1>4, AnswerRows
<1>7. << >> \o reply = reply
  BY <1>6 DEF FromCalendar
<1>8. rows' = reply
  BY <1>2, <1>3, <1>7
<1>9. Readings'
  BY <1>1, <1>2, <1>5, <1>6 DEF Readings, Briefed, Fetching, CalendarTasks, News, Recents, Upcomings
<1>10. Fetched'
  <2>1. (rows \in FromCalendar)'
    BY <1>2, <1>6, <1>8 DEF FromCalendar
  <2>2. Served(Last(asked), 0, rows)'
    BY <1>2, <1>6, <1>8 DEF Served, SameWeek, WeekFile
  <2>3. (FilesOf(task) = <<0, Head(weeks)>> /\ weeks = <<Head(weeks)>>)'
    BY <1>2, <1>3, <1>5 DEF FilesOf
  <2> QED BY <1>2, <2>1, <2>2, <2>3 DEF Fetched
<1>11. Idle'
  BY <1>2, <1>5, <1>6 DEF Idle, Fetching, Recents
<1>12. Events'
  <2>1. DOMAIN events \subseteq DOMAIN asked /\ now \in Nat
    BY <1>1, AskedFirst DEF Events, Readings
  <2> QED BY <1>1, <1>2, <2>1, EventsStay
<1>13. Snapshots'
  BY <1>1, <1>2, SnapshotsStay DEF SeriesDone, Known
<1> QED BY <1>9, <1>10, <1>11, <1>12, <1>13 DEF ContextInv

\* What upcoming or recent returns.
Returned == FilterEvents(Releases(rows \o reply), From(task), Until(task), Medium)

LEMMA ReturnedIsWhole ==
  ASSUME ContextInv, OnCalendar, weeks # << >>, Arrived, Tail(weeks) = << >>
  PROVE  /\ Returned \in Seq(Happenings)
         /\ Sound(Returned, From(task), Until(task))
         /\ SameWeek(asked[task]) => \A k \in Due(From(task), Until(task), Read(task)) :
              ImpactOrder[EconomicEvent(calendar[k]).impact] >= Medium =>
                EconomicEvent(calendar[k]) \in ToSet(Returned)
<1> DEFINE list == rows \o reply
<1>1. calendar \in Calendars /\ list \in FromCalendar
  BY AnswerRows DEF ContextInv, Readings
<1>2. /\ Returned \in Seq(Happenings)
      /\ Sound(Returned, From(task), Until(task))
      /\ \A m \in DOMAIN list :
           LET e == EconomicEvent(list[m])
           IN  /\ FirstOfRelease(list, m)
               /\ From(task) <= e.when
               /\ e.when <= Until(task)
               /\ ImpactOrder[e.impact] >= Medium
               => e \in ToSet(Returned)
  BY <1>1, FilteredReleases DEF Returned
<1>3. ASSUME SameWeek(asked[task]), NEW k \in Due(From(task), Until(task), Read(task)),
             ImpactOrder[EconomicEvent(calendar[k]).impact] >= Medium
      PROVE  EconomicEvent(calendar[k]) \in ToSet(Returned)
  <2>1. /\ k \in DOMAIN calendar /\ calendar[k].week \in Read(task)
        /\ From(task) <= calendar[k].date /\ calendar[k].date <= Until(task)
    BY DEF Due
  <2>2. PICK i \in DOMAIN list : list[i] = calendar[k]
    BY <1>3, <2>1, AllRows
  <2> HIDE DEF list
  <2>3. PICK m \in DOMAIN list : list[m] = calendar[k] /\ FirstOfRelease(list, m)
    BY <1>1, <2>2, OnlyIsFirst
  <2>4. EconomicEvent(list[m]) = EconomicEvent(calendar[k])
    BY <2>3
  <2>5. EconomicEvent(calendar[k]).when = calendar[k].date
    BY DEF EconomicEvent
  <2> QED BY <1>2, <1>3, <2>1, <2>3, <2>4, <2>5
<1> QED BY <1>2, <1>3

\* The last file arrives, and the events are returned.
LEMMA LastFile ==
  ASSUME ContextInv, FileArrives, Tail(weeks) = << >>
  PROVE  ContextInv'
<1> DEFINE S == Seq(Happenings)
           R == Returned
<1>1. Readings /\ Fetched /\ Idle /\ Events /\ Snapshots
  BY DEF ContextInv
<1>2. /\ OnCalendar /\ weeks # << >> /\ Arrived /\ weeks' = << >> /\ rows' = << >>
      /\ reply' = None /\ task' = task + 1
      /\ UNCHANGED <<calendar, now, asked, macro, outcome, heard>>
  BY DEF FileArrives, NewRequest
<1>3. /\ Len(asked) = task /\ Len(events) = task - 1 /\ task \in {1, 2}
      /\ Last(asked) = asked[task] /\ task \in DOMAIN asked
  BY <1>2, AnswerRows
<1>4. events' = Append(events, R)
  <2>1. \E all \in {Releases(rows \o reply)}, read \in {Last(asked)} :
          events' = Append(events,
            IF task = Upcomings
            THEN FilterEvents(all, read, read + UpcomingWindow, Medium)
            ELSE FilterEvents(all, read - RecentWindow, read, Medium))
    BY DEF FileArrives
  <2>2. events' = Append(events,
          IF task = Upcomings
          THEN FilterEvents(Releases(rows \o reply), asked[task], asked[task] + UpcomingWindow, Medium)
          ELSE FilterEvents(Releases(rows \o reply), asked[task] - RecentWindow, asked[task], Medium))
    BY <1>3, <2>1
  <2> QED BY <2>2 DEF Returned, From, Until
<1>5. events \in Seq(S) /\ R \in S
  BY <1>1, <1>2, ReturnedIsWhole DEF Events
<1> HIDE DEF S, R
<1>6. /\ events' \in Seq(S) /\ Len(events') = task /\ DOMAIN events' = 1..task
      /\ DOMAIN events = 1..(task - 1)
      /\ \A i \in 1..(task - 1) : events'[i] = events[i]
      /\ events'[task] = R
  BY <1>3, <1>4, <1>5
<1>7. Readings'
  <2>1. (Len(events) = IF task <= Recents THEN task - 1 ELSE Recents)'
    BY <1>2, <1>3, <1>6 DEF Recents
  <2>2. (Len(asked) = Len(events) + (IF Fetching THEN 1 ELSE 0))'
    BY <1>2, <1>3, <1>6 DEF Fetching
  <2>3. (Briefed => task = News)' /\ (outcome = "raised" => task \in CalendarTasks)'
    BY <1>2, ContextAssumption DEF Briefed, OnCalendar, Working
  <2>4. task' \in 1..News'
    BY <1>2, <1>3, SeriesAsked DEF Recents, News
  <2> QED BY <1>1, <1>2, <2>1, <2>2, <2>3, <2>4 DEF Readings, Fetching
<1>8. Fetched'
  BY <1>2 DEF Fetched, Fetching
<1>9. Idle'
  BY <1>2 DEF Idle, Fetching
<1>10. Events'
  <2>1. (events \in Seq(Seq(Happenings)))'
    BY <1>2, <1>6 DEF S, Happenings
  <2>2. ASSUME NEW i \in 1..(task - 1) PROVE Sound(events[i], From(i), Until(i))' /\ Whole(i)'
    <3>1. i \in DOMAIN events /\ i \in DOMAIN asked /\ now \in Nat
      BY <1>1, <1>6, AskedFirst DEF Events, Readings
    <3>2. Sound(events[i], From(i), Until(i)) /\ Whole(i)
      BY <1>1, <3>1 DEF Events
    <3>3. asked'[i] = asked[i] /\ events'[i] = events[i] /\ now <= now' /\ now' \in Nat
      BY <1>2, <1>6, <3>1
    <3> QED BY <1>1, <1>2, <3>1, <3>2, <3>3, EventStays
  <2>3. ASSUME NEW i \in {1, 2}, i = task PROVE Sound(events[i], From(i), Until(i))' /\ Whole(i)'
    <3>1. /\ Sound(R, From(i), Until(i))
          /\ SameWeek(asked[i]) => \A k \in Due(From(i), Until(i), Read(i)) :
               ImpactOrder[EconomicEvent(calendar[k]).impact] >= Medium =>
                 EconomicEvent(calendar[k]) \in ToSet(R)
      BY <1>2, <2>3, ReturnedIsWhole DEF R
    <3>2. From(i)' = From(i) /\ Until(i)' = Until(i) /\ Read(i)' = Read(i) /\ events'[i] = R
      BY <1>2, <1>6, <2>3 DEF From, Until, Read, FilesOf
    <3>3. Sound(events[i], From(i), Until(i))'
      BY <1>2, <3>1, <3>2 DEF Sound
    <3>4. Whole(i)'
      <4>1. SameWeek(asked[i])' <=> SameWeek(asked[i])
        BY <1>2 DEF SameWeek
      <4>2. Due(From(i), Until(i), Read(i))' = Due(From(i), Until(i), Read(i))
        BY <1>2, <3>2 DEF Due
      <4> QED BY <1>2, <3>1, <3>2, <4>1, <4>2 DEF Whole, Medium
    <3> QED BY <3>3, <3>4
  <2>4. \A i \in DOMAIN events' : i \in 1..(task - 1) \/ (i \in {1, 2} /\ i = task)
    BY <1>3, <1>6
  <2> QED BY <2>1, <2>2, <2>3, <2>4 DEF Events
<1>11. Snapshots'
  <2>1. SeriesDone' = SeriesDone
    BY <1>2, <1>3 DEF SeriesDone, Recents
  <2> QED BY <1>1, <1>2, <2>1, SnapshotsStay DEF Known
<1> QED BY <1>7, <1>8, <1>9, <1>10, <1>11 DEF ContextInv

LEMMA ContextSteps == ContextInv /\ [ContextNext]_contextVars => ContextInv'
<1> SUFFICES ASSUME ContextInv, [ContextNext]_contextVars PROVE ContextInv'
  OBVIOUS
<1>1. CASE Tick \/ CalendarFails \/ NewsEnds \/ Describe \/ UNCHANGED contextVars
  BY <1>1, QuietStep
<1>2. CASE StartCalendar
  BY <1>2, StartCalendarKeeps
<1>3. CASE Attempt
  BY <1>3, AttemptKeeps
<1>4. CASE FileArrives
  BY <1>4, NextFile, LastFile
<1>5. CASE SkipUnknownSeries
  BY <1>5, SkipKeeps
<1>6. CASE SeriesEnds
  BY <1>6, SeriesEndsKeeps
<1> QED BY <1>1, <1>2, <1>3, <1>4, <1>5, <1>6 DEF ContextNext, Assemble

\* The invariant of a run of the market context: what each reading of the clock
\* returned is sound and whole, and the snapshots are those of the answers
\* (market_context_agent.assemble_brief).
THEOREM ContextInvariant == ContextSpec => []ContextInv
<1>1. ContextInit => ContextInv
  BY ContextStarts
<1>2. ContextInv /\ [ContextNext]_contextVars => ContextInv'
  BY ContextSteps
<1> QED BY <1>1, <1>2, PTL DEF ContextSpec

(***************************************************************************)
(* What the brief shows.                                                   *)
(***************************************************************************)
LEMMA ReadBeside ==
  ASSUME NEW week \in Int
  PROVE  /\ UpcomingWindow > FarWindow =>
              {week + FilesOf(Upcomings)[f] : f \in DOMAIN FilesOf(Upcomings)} = {week, week + 1}
         /\ RecentWindow > FarWindow =>
              {week + FilesOf(Recents)[f] : f \in DOMAIN FilesOf(Recents)} = {week - 1, week}
<1>1. ASSUME NEW d \in Int
      PROVE  {week + <<0, d>>[f] : f \in DOMAIN <<0, d>>} = {week, week + d}
  <2>1. DOMAIN <<0, d>> = {1, 2} /\ <<0, d>>[1] = 0 /\ <<0, d>>[2] = d
    OBVIOUS
  <2>2. week + 0 = week
    OBVIOUS
  <2> QED BY <2>1, <2>2
<1>2. UpcomingWindow > FarWindow => FilesOf(Upcomings) = <<0, 1>>
  BY DEF FilesOf, Upcoming
<1>3. RecentWindow > FarWindow => FilesOf(Recents) = <<0, -1>>
  BY DEF FilesOf, Recent, Upcomings, Recents
<1>4. -1 \in Int /\ week + (-1) = week - 1
  OBVIOUS
<1> QED BY <1>1, <1>2, <1>3, <1>4

\* An item of a list is kept when its position is.
LEMMA KeptItem ==
  ASSUME NEW S, NEW list \in Seq(S), NEW K \in SUBSET DOMAIN list,
         NEW k \in K
  PROVE  list[k] \in ToSet(Kept(list, K))
<1>1. \E n \in DOMAIN Kept(list, K) : Kept(list, K)[n] = list[k]
  BY KeptItems
<1> QED BY <1>1 DEF ToSet

LEMMA BriefIsExact == ContextInv => BriefExact
<1> SUFFICES ASSUME ContextInv, Briefed
             PROVE  /\ Sound(UpcomingEvents, asked[1], asked[1] + UpcomingWindow)
                    /\ Sound(RecentSurprises, asked[2] - RecentWindow, asked[2])
                    /\ UpcomingWindow > FarWindow /\ SameWeek(asked[1]) => AllUpcoming
                    /\ RecentWindow > FarWindow /\ SameWeek(asked[2]) => AllRecent
  BY DEF BriefExact
<1> DEFINE K1 == {k \in DOMAIN events[1] : Material(events[1][k])}
           K2 == {k \in DOMAIN events[2] : HasSurprise(events[2][k])}
           S == Seq(Happenings)
<1>1. /\ Readings /\ Events
      /\ events \in Seq(S)
      /\ Len(events) = 2
  BY SeriesAsked DEF ContextInv, Readings, Events, Recents
<1>2. 1 \in DOMAIN events /\ 2 \in DOMAIN events /\ events[1] \in S /\ events[2] \in S
  <2> HIDE DEF S
  <2> QED BY <1>1
<1>3. /\ Sound(events[1], asked[1], asked[1] + UpcomingWindow) /\ Whole(1)
      /\ Sound(events[2], asked[2] - RecentWindow, asked[2]) /\ Whole(2)
  BY <1>1, <1>2 DEF Events, From, Until, Upcomings
<1>4. asked[1] \in Nat /\ asked[2] \in Nat /\ WeekOf(asked[1]) \in Int /\ WeekOf(asked[2]) \in Int
  <2>1. DOMAIN events \subseteq DOMAIN asked /\ asked \in Seq(Nat)
    BY <1>1, AskedFirst DEF Readings
  <2>2. asked[1] \in Nat /\ asked[2] \in Nat
    BY <1>2, <2>1
  <2> QED BY <2>2 DEF WeekOf
<1>5. K1 \in SUBSET DOMAIN events[1] /\ K2 \in SUBSET DOMAIN events[2]
  OBVIOUS
<1>6. UpcomingEvents = Kept(events[1], K1) /\ RecentSurprises = Kept(events[2], K2)
  BY DEF UpcomingEvents, RecentSurprises
<1>7. \A k \in DOMAIN events[1] : Material(events[1][k]) => k \in K1
  OBVIOUS
<1>8. \A k \in DOMAIN events[2] : HasSurprise(events[2][k]) => k \in K2
  OBVIOUS
<1> HIDE DEF K1, K2
<1>9. /\ Sound(UpcomingEvents, asked[1], asked[1] + UpcomingWindow)
      /\ Sound(RecentSurprises, asked[2] - RecentWindow, asked[2])
  BY <1>2, <1>3, <1>5, <1>6, KeptSound
<1>10. ASSUME NEW e \in ToSet(events[1]), Material(e) PROVE e \in ToSet(UpcomingEvents)
  <2>1. PICK k \in DOMAIN events[1] : e = events[1][k]
    BY DEF ToSet
  <2> QED BY <1>2, <1>5, <1>6, <1>7, <1>10, <2>1, KeptItem
<1>11. ASSUME NEW e \in ToSet(events[2]), HasSurprise(e) PROVE e \in ToSet(RecentSurprises)
  <2>1. PICK k \in DOMAIN events[2] : e = events[2][k]
    BY DEF ToSet
  <2> QED BY <1>2, <1>5, <1>6, <1>8, <1>11, <2>1, KeptItem
<1>12. ASSUME UpcomingWindow > FarWindow, SameWeek(asked[1]) PROVE AllUpcoming
  <2> DEFINE w == WeekOf(asked[1])
  <2>1. Read(1) = {w, w + 1}
    BY <1>4, <1>12, ReadBeside DEF Read, Upcomings
  <2> SUFFICES ASSUME NEW k \in Due(asked[1], asked[1] + UpcomingWindow, {w, w + 1}),
                      Material(EconomicEvent(calendar[k]))
               PROVE  EconomicEvent(calendar[k]) \in ToSet(UpcomingEvents)
    BY DEF AllUpcoming
  <2> HIDE DEF w
  <2>2. k \in Due(From(1), Until(1), Read(1))
    BY <2>1 DEF From, Until, Upcomings
  <2>3. ImpactOrder[EconomicEvent(calendar[k]).impact] >= Medium
    BY DEF Material, Medium, ImpactOrder
  <2> QED BY <1>3, <1>10, <1>12, <2>2, <2>3 DEF Whole
<1>13. ASSUME RecentWindow > FarWindow, SameWeek(asked[2]) PROVE AllRecent
  <2> DEFINE w == WeekOf(asked[2])
  <2>1. Read(2) = {w - 1, w}
    BY <1>4, <1>13, ReadBeside DEF Read, Recents
  <2> SUFFICES ASSUME NEW k \in Due(asked[2] - RecentWindow, asked[2], {w - 1, w}),
                      HasSurprise(EconomicEvent(calendar[k])),
                      ImpactOrder[EconomicEvent(calendar[k]).impact] >= Medium
               PROVE  EconomicEvent(calendar[k]) \in ToSet(RecentSurprises)
    BY DEF AllRecent
  <2> HIDE DEF w
  <2>2. k \in Due(From(2), Until(2), Read(2))
    BY <2>1 DEF From, Until, Upcomings
  <2> QED BY <1>3, <1>11, <1>13, <2>2 DEF Whole
<1> QED BY <1>9, <1>12, <1>13

\* The brief shows releases of the calendar inside its windows, once and in
\* order, and misses none that matters while the week does not turn, whatever
\* the calendar holds and the windows are (BriefExact; context_data.upcoming,
\* recent; market_context_agent.assemble_brief).
THEOREM BriefAlwaysExact == ContextSpec => []BriefExact
  BY ContextInvariant, BriefIsExact, PTL

(***************************************************************************)
(* What a snapshot shows of an answer.                                     *)
(***************************************************************************)
SnapshotTrue(s, answer) ==
  /\ s.latest # None =>
       /\ answer \notin {Failed, NotAList}
       /\ \E k \in DOMAIN answer :
            /\ s.date = answer[k].date
            /\ s.latest = answer[k].value
            /\ \A j \in DOMAIN answer : answer[j].value # None => j <= k
            /\ s.previous # None =>
                 \E j \in 1..(k - 1) :
                   /\ s.previous = answer[j].value
                   /\ \A i \in (j + 1)..(k - 1) : ~(answer[i].value # None)
  /\ s.latest = None /\ answer \notin {Failed, NotAList} =>
       MalformedSeries(answer) \/ \A k \in DOMAIN answer : ~(answer[k].value # None)

\* Nothing of a set lies beyond its last, or between the last two.
LEMMA LastTwo ==
  ASSUME NEW K \in SUBSET Nat, IsFiniteSet(K), NEW n \in Nat, n = Cardinality(K)
  PROVE  /\ n >= 1 => Nth(K, n) \in K /\ \A j \in K : j <= Nth(K, n)
         /\ n >= 2 => /\ Nth(K, n - 1) \in K /\ Nth(K, n - 1) < Nth(K, n)
                      /\ \A j \in K : j <= Nth(K, n - 1) \/ j = Nth(K, n)
         /\ n = 0 => K = {}
<1> DEFINE c(k) == Cardinality({j \in K : j <= k})
<1>1. /\ \A m \in 1..n : Nth(K, m) \in K
      /\ \A l, m \in 1..n : l < m => Nth(K, l) < Nth(K, m)
      /\ \A k \in K : c(k) \in 1..n /\ Nth(K, c(k)) = k
  BY NthOf
<1> HIDE DEF c
<1>2. \A k \in K : k \in Nat
  OBVIOUS
<1>3. n >= 1 => \A j \in K : j <= Nth(K, n)
  <2> SUFFICES ASSUME n >= 1, NEW j \in K PROVE j <= Nth(K, n)
    OBVIOUS
  <2>1. PICK l \in 1..n : Nth(K, l) = j
    BY <1>1
  <2>2. CASE l = n
    BY <1>2, <2>1, <2>2
  <2>3. CASE l < n
    <3>1. n \in 1..n
      BY <2>1
    <3>2. Nth(K, l) < Nth(K, n) /\ Nth(K, n) \in Nat
      BY <1>1, <1>2, <2>1, <2>3, <3>1
    <3> QED BY <1>2, <2>1, <3>2
  <2> QED BY <2>2, <2>3
<1>4. n >= 2 => \A j \in K : j <= Nth(K, n - 1) \/ j = Nth(K, n)
  <2> SUFFICES ASSUME n >= 2, NEW j \in K PROVE j <= Nth(K, n - 1) \/ j = Nth(K, n)
    OBVIOUS
  <2>1. PICK m \in 1..n : m = n - 1 /\ m < n
    OBVIOUS
  <2>2. PICK l \in 1..n : Nth(K, l) = j
    BY <1>1
  <2>3. CASE l = n
    BY <2>2, <2>3
  <2>4. CASE l = m
    BY <1>2, <2>1, <2>2, <2>4
  <2>5. CASE l < m
    <3>1. Nth(K, l) < Nth(K, m) /\ Nth(K, m) \in Nat
      BY <1>1, <1>2, <2>5
    <3> QED BY <1>2, <2>1, <2>2, <3>1
  <2> QED BY <2>1, <2>3, <2>4, <2>5
<1>5. n >= 1 => Nth(K, n) \in K
  BY <1>1
<1>6. n >= 2 => Nth(K, n - 1) \in K /\ Nth(K, n - 1) < Nth(K, n)
  BY <1>1
<1>7. n = 0 => K = {}
  BY FS_EmptySet
<1> QED BY <1>3, <1>4, <1>5, <1>6, <1>7

\* A snapshot holds the last two values of its answer, or nothing.
LEMMA SummaryTrue ==
  ASSUME NEW name, NEW answer, IsList(answer), answer \notin {Failed, NotAList}
  PROVE  /\ SummariseSeries(name, answer).name = name
         /\ SnapshotTrue(SummariseSeries(name, answer), answer)
<1> DEFINE K == {k \in DOMAIN answer : answer[k].value # None}
           s == SummariseSeries(name, answer)
<1>1. DOMAIN answer = 1..Len(answer) /\ Len(answer) \in Nat
  BY DEF IsList
<1>2. K \in SUBSET Nat /\ IsFiniteSet(K) /\ K \subseteq DOMAIN answer
  BY <1>1, CountTo, FS_Subset
<1>3. \A k \in DOMAIN answer : k \in K <=> answer[k].value # None
  OBVIOUS
<1>4. PICK n \in Nat : n = Cardinality(K)
  BY <1>2, FS_CardinalityType
<1>5. s = IF n = 0 THEN NoSnapshot(name)
          ELSE [name |-> name, date |-> answer[Nth(K, n)].date, latest |-> answer[Nth(K, n)].value,
                previous |-> IF n >= 2 THEN answer[Nth(K, n - 1)].value ELSE None]
  BY <1>4 DEF SummariseSeries
<1>6. /\ n >= 1 => Nth(K, n) \in K /\ \A j \in K : j <= Nth(K, n)
      /\ n >= 2 => /\ Nth(K, n - 1) \in K /\ Nth(K, n - 1) < Nth(K, n)
                   /\ \A j \in K : j <= Nth(K, n - 1) \/ j = Nth(K, n)
      /\ n = 0 => K = {}
  BY <1>2, <1>4, LastTwo
<1> HIDE DEF K, s
<1>7. CASE n = 0
  <2>1. s.name = name /\ s.latest = None
    BY <1>5, <1>7 DEF NoSnapshot
  <2>2. \A k \in DOMAIN answer : ~(answer[k].value # None)
    BY <1>3, <1>6, <1>7
  <2> QED BY <2>1, <2>2 DEF SnapshotTrue, s
<1>8. CASE n >= 1
  <2>1. PICK k \in K : k = Nth(K, n) /\ \A j \in K : j <= k
    BY <1>6, <1>8
  <2>2. /\ s.name = name /\ s.date = answer[k].date /\ s.latest = answer[k].value
        /\ s.previous = IF n >= 2 THEN answer[Nth(K, n - 1)].value ELSE None
    BY <1>5, <1>8, <2>1
  <2>3. k \in DOMAIN answer /\ answer[k].value # None
    BY <1>2, <1>3
  <2>4. \A j \in DOMAIN answer : answer[j].value # None => j <= k
    BY <1>3, <2>1
  <2>5. ASSUME s.previous # None
        PROVE  \E j \in 1..(k - 1) :
                 /\ s.previous = answer[j].value
                 /\ \A i \in (j + 1)..(k - 1) : ~(answer[i].value # None)
    <3>1. n >= 2
      BY <2>2, <2>5
    <3>2. PICK j \in K : j = Nth(K, n - 1) /\ j < k /\ \A i \in K : i <= j \/ i = k
      BY <1>6, <2>1, <3>1
    <3>3. s.previous = answer[j].value
      BY <2>2, <3>1, <3>2
    <3>4. j \in 1..(k - 1)
      BY <1>1, <1>2, <2>3, <3>2
    <3>5. ASSUME NEW i \in (j + 1)..(k - 1) PROVE ~(answer[i].value # None)
      <4>1. i \in DOMAIN answer /\ ~(i <= j) /\ i # k
        BY <1>1, <1>2, <2>3, <3>4
      <4> QED BY <1>3, <3>2, <4>1
    <3> QED BY <3>3, <3>4, <3>5
  <2> QED BY <2>2, <2>3, <2>4, <2>5 DEF SnapshotTrue, s
<1> QED BY <1>7, <1>8

LEMMA SnapshotRight ==
  ASSUME NEW h \in Heard
  PROVE  Snapshot(h).name = h.name /\ SnapshotTrue(Snapshot(h), h.reply)
<1> DEFINE name == h.name
           answer == h.reply
<1>1. answer \in SeriesAnswers \union {Failed, NotAList}
  BY DEF Heard, Replies
<1>2. CASE answer \in {Failed, NotAList} \/ MalformedSeries(answer)
  <2>1. Snapshot(h) = NoSnapshot(name)
    BY <1>2 DEF Snapshot, SnapshotOf
  <2>2. NoSnapshot(name).name = name /\ NoSnapshot(name).latest = None
    BY DEF NoSnapshot
  <2> HIDE DEF name, answer
  <2>3. SnapshotTrue(Snapshot(h), answer)
    BY <1>2, <2>1, <2>2 DEF SnapshotTrue
  <2> QED BY <2>1, <2>2, <2>3 DEF name, answer
<1>3. CASE ~(answer \in {Failed, NotAList} \/ MalformedSeries(answer))
  <2>1. Snapshot(h) = SummariseSeries(name, answer)
    BY <1>3 DEF Snapshot, SnapshotOf
  <2>2. IsList(answer)
    BY <1>1, <1>3, ContextAssumption
  <2> HIDE DEF name, answer
  <2>3. SummariseSeries(name, answer).name = name /\ SnapshotTrue(SummariseSeries(name, answer), answer)
    BY <1>3, <2>2, SummaryTrue
  <2> QED BY <2>1, <2>3 DEF name, answer
<1> QED BY <1>2, <1>3

LEMMA FailureIsContained == ContextInv => FailureContained
<1> SUFFICES ASSUME ContextInv PROVE FailureContained
  OBVIOUS
<1> DEFINE S == {Snapshot(h) : h \in Heard}
<1>1. outcome = "raised" => task \in {Upcomings, Recents}
  BY DEF ContextInv, Readings, CalendarTasks
<1>2. ASSUME Briefed
      PROVE  /\ [n \in DOMAIN macro |-> macro[n].name] = Kept(SeriesNames, Known)
             /\ \A n \in DOMAIN macro : /\ heard[n].name = macro[n].name
                                        /\ SnapshotTrue(macro[n], heard[n].reply)
  <2> DEFINE C == Cardinality(Known)
  <2>1. /\ heard \in Seq(Heard) /\ macro \in Seq(S) /\ Len(macro) = Len(heard)
        /\ Len(heard) = Cardinality({k \in Known : k <= SeriesDone})
        /\ \A n \in 1..Len(heard) : heard[n].name = SeriesNames[Nth(Known, n)]
        /\ \A n \in 1..Len(heard) : macro[n] = Snapshot(heard[n])
    BY DEF ContextInv, Snapshots
  <2>2. task = News
    BY <1>2 DEF ContextInv, Readings
  <2>3. SeriesDone = Len(SeriesNames)
    BY <2>2, SeriesAsked DEF SeriesDone, News, Recents
  <2>4. {k \in Known : k <= SeriesDone} = Known
    <3>1. \A k \in Known : k \in 1..Len(SeriesNames)
      BY SeriesAsked
    <3>2. \A k \in Known : k <= SeriesDone
      BY <2>3, <3>1, SeriesAsked
    <3> QED BY <3>2
  <2> HIDE DEF S, C
  <2>5. DOMAIN macro = 1..C /\ Len(heard) = C /\ DOMAIN heard = 1..C
    <3>1. DOMAIN macro = 1..Len(macro) /\ DOMAIN heard = 1..Len(heard)
      BY <2>1
    <3>2. Len(heard) = C
      BY <2>1, <2>4 DEF C
    <3> QED BY <2>1, <3>1, <3>2
  <2>6. ASSUME NEW n \in 1..C
        PROVE  /\ macro[n].name = SeriesNames[Nth(Known, n)]
               /\ heard[n].name = macro[n].name
               /\ SnapshotTrue(macro[n], heard[n].reply)
    <3>1. heard[n] \in Heard
      BY <2>1, <2>5
    <3>2. macro[n] = Snapshot(heard[n]) /\ heard[n].name = SeriesNames[Nth(Known, n)]
      BY <2>1, <2>5
    <3> QED BY <3>1, <3>2, SnapshotRight
  <2>7. [n \in DOMAIN macro |-> macro[n].name] = Kept(SeriesNames, Known)
    BY <2>5, <2>6 DEF Kept, C
  <2> QED BY <2>5, <2>6, <2>7
<1>3. Known = {k \in DOMAIN SeriesNames : SeriesNames[k] \in DOMAIN FredSeries}
  BY DEF Known
<1> QED BY <1>1, <1>2, <1>3 DEF FailureContained, SnapshotTrue

\* Whatever the series and the news answer, a brief is made, with a snapshot
\* for each known series, in order and true to its answer, for every list of
\* series and answers; only the calendar ends a run (FailureContained;
\* market_context_agent.assemble_brief, _fetch_macro).
THEOREM FailureAlwaysContained == ContextSpec => []FailureContained
  BY ContextInvariant, FailureIsContained, PTL

(***************************************************************************)
(* A run of the market context comes to its end: what is left of it falls  *)
(* with every step but that of the clock.  It is left to do: the tasks,    *)
(* and the report; the files of the task, three before it chose them; and  *)
(* the attempts of the request.                                            *)
(***************************************************************************)
TasksLeft == News - task + (IF outcome = None THEN 2 ELSE IF outcome = "briefed" THEN 1 ELSE 0)
FilesLeft == IF Fetching THEN Len(weeks) ELSE 3
AttemptsLeft == IF reply = None THEN Retries + 1 - attempt ELSE 0
BriefLeft == <<TasksLeft, FilesLeft, AttemptsLeft>>

AttemptsBounded == attempt \in 0..Retries

LEMMA AttemptsFall ==
  ASSUME ContextInv, AttemptsBounded, Attempt
  PROVE  /\ AttemptsBounded'
         /\ AttemptsLeft' < AttemptsLeft
<1>1. Retries \in Nat /\ attempt \in 0..Retries /\ Failed # None
  BY HttpAssumption, ContextAssumption DEF AttemptsBounded
<1>2. reply = None /\ AttemptsLeft = Retries + 1 - attempt
  BY Attempted DEF AttemptsLeft
<1>3. None \notin Bodies \ {NotJson}
  <2>1. calendar \in Calendars /\ None \notin Seq(ToSet(calendar))
    BY ContextAssumption DEF ContextInv, Readings
  <2>2. \A week : WeekFile(week) # None
    BY <2>1, WeekFileRows DEF FromCalendar
  <2>3. None \notin {NotAList} \union SeriesAnswers \union NewsAnswers
    BY ContextAssumption
  <2> QED BY <2>2, <2>3 DEF Bodies
<1>4. \/ /\ attempt < Retries /\ attempt' = attempt + 1 /\ reply' = None
      \/ attempt' = attempt /\ reply' # None
  <2>1. ASSUME TransportError
        PROVE  \/ attempt < Retries /\ attempt' = attempt + 1 /\ reply' = None
               \/ attempt' = attempt /\ reply' # None
    BY <1>1, <1>2, <2>1 DEF TransportError
  <2>2. ASSUME NEW status, NEW body \in Bodies \union {NotJson}, Answered(status, body)
        PROVE  \/ attempt < Retries /\ attempt' = attempt + 1 /\ reply' = None
               \/ attempt' = attempt /\ reply' # None
    BY <1>1, <1>2, <1>3, <2>2 DEF Answered
  <2> QED BY <2>1, <2>2 DEF Attempt
<1> QED BY <1>1, <1>2, <1>4 DEF AttemptsBounded, AttemptsLeft

\* A request that has not begun has all its attempts before it.
LEMMA AttemptsMost ==
  ASSUME AttemptsBounded
  PROVE  AttemptsLeft \in 0..(Retries + 1)
<1>1. Retries \in Nat /\ attempt \in 0..Retries
  BY HttpAssumption DEF AttemptsBounded
<1> QED BY <1>1 DEF AttemptsLeft

LEMMA FewFiles ==
  /\ FilesOf(task) \in Seq(Int) /\ Len(FilesOf(task)) \in {1, 2}
  /\ (ContextInv /\ Fetching) => (weeks \in Seq(Int) /\ Len(weeks) \in {1, 2})
<1>1. FilesOf(task) \in {<<0>>, <<0, 1>>, <<0, -1>>}
  BY DEF FilesOf, Upcoming, Recent
<1>2. FilesOf(task) \in Seq(Int) /\ Len(FilesOf(task)) \in {1, 2}
  <2>1. <<0>> \in Seq(Int) /\ Len(<<0>>) = 1
    OBVIOUS
  <2>2. <<0, 1>> \in Seq(Int) /\ Len(<<0, 1>>) = 2
    OBVIOUS
  <2>3. <<0, -1>> \in Seq(Int) /\ Len(<<0, -1>>) = 2
    OBVIOUS
  <2> QED BY <1>1, <2>1, <2>2, <2>3
<1>3. ASSUME ContextInv, Fetching
      PROVE  \/ weeks = FilesOf(task)
             \/ /\ weeks = <<Head(weeks)>>
                /\ FilesOf(task) = <<0, Head(weeks)>>
  BY <1>3 DEF ContextInv, Fetched
<1>4. \A w : <<0, w>> \in {<<0>>, <<0, 1>>, <<0, -1>>} => w \in Int /\ Len(<<w>>) = 1 /\ <<w>> \in Seq(Int)
  OBVIOUS
<1>5. ASSUME weeks = <<Head(weeks)>>, FilesOf(task) = <<0, Head(weeks)>>
      PROVE  weeks \in Seq(Int) /\ Len(weeks) \in {1, 2}
  <2>1. PICK w : w = Head(weeks)
    OBVIOUS
  <2> QED BY <1>1, <1>4, <1>5, <2>1
<1> QED BY <1>2, <1>3, <1>5

LEMMA LeftTriple ==
  ASSUME ContextInv, AttemptsBounded
  PROVE  /\ TasksLeft \in Nat /\ FilesLeft \in 1..3 /\ AttemptsLeft \in Nat
         /\ BriefLeft \in Triple
         /\ Fetching => FilesLeft < 3
<1>1. TasksLeft \in Nat
  <2>1. task \in 1..News /\ News \in Nat
    BY SeriesAsked DEF ContextInv, Readings
  <2> QED BY <2>1 DEF TasksLeft
<1>2. FilesLeft \in 1..3 /\ (Fetching => FilesLeft < 3)
  <2>1. Fetching => Len(weeks) \in {1, 2}
    BY FewFiles
  <2>2. CASE Fetching
    <3>1. FilesLeft = Len(weeks) /\ Len(weeks) \in {1, 2}
      BY <2>1, <2>2 DEF FilesLeft
    <3> HIDE DEF FilesLeft
    <3>2. FilesLeft \in {1, 2}
      BY <3>1
    <3> QED BY <3>2
  <2>3. CASE ~Fetching
    BY <2>3 DEF FilesLeft
  <2> QED BY <2>2, <2>3
<1>3. AttemptsLeft \in Nat
  BY AttemptsMost, HttpAssumption
<1> QED BY <1>1, <1>2, <1>3 DEF BriefLeft, Triple

LEMMA BriefFalls ==
  ASSUME ContextInv, AttemptsBounded, [ContextNext]_contextVars
  PROVE  /\ AttemptsBounded'
         /\ Assemble => Falls(BriefLeft, BriefLeft')
         /\ ~Assemble => BriefLeft' = BriefLeft
<1>1. /\ BriefLeft[1] = TasksLeft /\ BriefLeft'[1] = TasksLeft'
      /\ BriefLeft[2] = FilesLeft /\ BriefLeft'[2] = FilesLeft'
      /\ BriefLeft[3] = AttemptsLeft /\ BriefLeft'[3] = AttemptsLeft'
  BY DEF BriefLeft
<1>2. /\ TasksLeft \in Nat /\ FilesLeft \in 1..3 /\ AttemptsLeft \in Nat
      /\ Fetching => FilesLeft < 3
      /\ Retries \in Nat /\ attempt \in 0..Retries /\ task \in Nat
  BY LeftTriple, HttpAssumption, SeriesAsked DEF AttemptsBounded, ContextInv, Readings
<1>3. ASSUME TasksLeft' < TasksLeft PROVE Falls(BriefLeft, BriefLeft')
  BY <1>1, <1>3 DEF Falls
<1>4. None \notin {"briefed", "raised", "reported", "rejected"}
  BY ContextAssumption
<1>5. ASSUME NewRequest PROVE AttemptsBounded'
  BY <1>2, <1>5 DEF NewRequest, AttemptsBounded
<1>6. ASSUME UNCHANGED httpVars PROVE AttemptsBounded' /\ AttemptsLeft' = AttemptsLeft
  BY <1>2, <1>6 DEF httpVars, AttemptsBounded, AttemptsLeft
<1>7. ASSUME Tick \/ UNCHANGED contextVars
      PROVE  AttemptsBounded' /\ BriefLeft' = BriefLeft
  <2>1. UNCHANGED httpVars /\ UNCHANGED <<task, weeks, outcome>>
    BY <1>7 DEF Tick, contextVars
  <2>2. TasksLeft' = TasksLeft /\ FilesLeft' = FilesLeft
    BY <2>1 DEF TasksLeft, FilesLeft, Fetching, News
  <2> QED BY <1>6, <2>1, <2>2 DEF BriefLeft
<1>8. ASSUME StartCalendar PROVE AttemptsBounded' /\ Falls(BriefLeft, BriefLeft')
  <2>1. /\ UNCHANGED httpVars /\ UNCHANGED <<task, outcome>> /\ ~Fetching /\ Fetching'
    BY <1>8 DEF StartCalendar, Fetching, FilesOf, Upcoming, Recent
  <2>2. TasksLeft' = TasksLeft
    BY <2>1 DEF TasksLeft, News
  <2>3. FilesLeft = 3 /\ FilesLeft' < 3
    <3>1. weeks' = FilesOf(task)
      BY <1>8 DEF StartCalendar
    <3>2. Len(FilesOf(task)) \in {1, 2}
      BY FewFiles
    <3>3. FilesLeft' = Len(FilesOf(task)) /\ FilesLeft = 3
      BY <2>1, <3>1 DEF FilesLeft
    <3>4. \A n \in {1, 2} : n < 3
      OBVIOUS
    <3> QED BY <3>2, <3>3, <3>4
  <2> QED BY <1>1, <1>6, <2>1, <2>2, <2>3 DEF Falls
<1>9. ASSUME Attempt PROVE AttemptsBounded' /\ Falls(BriefLeft, BriefLeft')
  <2>1. UNCHANGED <<task, weeks, outcome>>
    BY <1>9, Attempted
  <2>2. TasksLeft' = TasksLeft /\ FilesLeft' = FilesLeft
    BY <2>1 DEF TasksLeft, FilesLeft, Fetching, News
  <2> QED BY <1>1, <1>9, <2>2, AttemptsFall DEF Falls
<1>10. ASSUME task' = task + 1, outcome' = outcome PROVE TasksLeft' < TasksLeft
  BY <1>2, <1>10, SeriesAsked DEF TasksLeft, News
<1>11. ASSUME FileArrives PROVE AttemptsBounded' /\ Falls(BriefLeft, BriefLeft')
  <2>1. NewRequest /\ outcome' = outcome /\ weeks # << >> /\ weeks' = Tail(weeks)
    BY <1>11 DEF FileArrives
  <2>2. CASE Tail(weeks) = << >>
    <3>1. task' = task + 1
      BY <1>11, <2>2 DEF FileArrives
    <3> QED BY <1>3, <1>5, <1>10, <2>1, <3>1
  <2>3. CASE Tail(weeks) # << >>
    <3>1. TasksLeft' = TasksLeft
      BY <1>11, <2>1, <2>3 DEF FileArrives, TasksLeft, News
    <3>2. FilesLeft' < FilesLeft
      <4>1. weeks \in Seq(Int) /\ Len(weeks) \in Nat /\ Len(weeks) # 0
        BY <2>1, FewFiles DEF Fetching
      <4>2. Len(Tail(weeks)) = Len(weeks) - 1
        BY <4>1
      <4> QED BY <2>1, <2>3, <4>1, <4>2 DEF FilesLeft, Fetching
    <3> QED BY <1>1, <1>5, <2>1, <3>1, <3>2 DEF Falls
  <2> QED BY <2>2, <2>3
<1>12. ASSUME SkipUnknownSeries PROVE AttemptsBounded' /\ Falls(BriefLeft, BriefLeft')
  BY <1>3, <1>6, <1>10, <1>12 DEF SkipUnknownSeries
<1>13. ASSUME SeriesEnds PROVE AttemptsBounded' /\ Falls(BriefLeft, BriefLeft')
  BY <1>3, <1>5, <1>10, <1>13 DEF SeriesEnds
<1>14. ASSUME CalendarFails \/ NewsEnds \/ Describe
       PROVE  AttemptsBounded' /\ Falls(BriefLeft, BriefLeft')
  <2>1. UNCHANGED httpVars /\ task' = task
    BY <1>14 DEF CalendarFails, NewsEnds, Describe
  <2>2. \/ outcome = None /\ outcome' \in {"raised", "briefed"}
        \/ outcome = "briefed" /\ outcome' \in {"reported", "rejected"}
    BY <1>14 DEF CalendarFails, NewsEnds, Describe, OnCalendar, OnNews, Working
  <2>3. TasksLeft' < TasksLeft
    BY <1>2, <1>4, <2>1, <2>2, SeriesAsked DEF TasksLeft, News
  <2> QED BY <1>3, <1>6, <2>1, <2>3
<1> QED BY <1>7, <1>8, <1>9, <1>11, <1>12, <1>13, <1>14 DEF ContextNext, Assemble

\* What is left of a run falls with each of its steps, and waits while the clock
\* runs: it ends, with a brief or without, for any number of series, retries
\* and answers (market_context_agent.assemble_brief, context_data._http_get_json).
THEOREM BriefCountsDown ==
  ContextSpec => /\ [](BriefLeft \in Triple)
                 /\ [][/\ Assemble => Falls(BriefLeft, BriefLeft')
                       /\ ~Assemble => BriefLeft' = BriefLeft]_contextVars
<1>1. ContextInit => AttemptsBounded
  BY HttpAssumption DEF ContextInit, RequestInit, AttemptsBounded
<1>2. ContextInv /\ AttemptsBounded => BriefLeft \in Triple
  BY LeftTriple
<1>3. ContextInv /\ AttemptsBounded /\ [ContextNext]_contextVars =>
        /\ AttemptsBounded'
        /\ Assemble => Falls(BriefLeft, BriefLeft')
        /\ ~Assemble => BriefLeft' = BriefLeft
  BY BriefFalls
<1> QED BY <1>1, <1>2, <1>3, ContextInvariant, PTL DEF ContextSpec
=============================================================================
