------------------------------- MODULE Totals -------------------------------
(***************************************************************************)
(* The sum of a finite family of integers, as Python's sum() computes it.  *)
(*                                                                         *)
(* A sum is usually written as a fold, which the provers used in this      *)
(* project cannot expand, so nothing could be proved of it.                *)
(* Total counts unit tokens instead: an entry f[i] = 3 contributes the     *)
(* tokens <<i,1>>, <<i,2>>, <<i,3>>.  Totals_proofs derives its type and   *)
(* its value on the empty and on the extended family, which make it the    *)
(* sum.                                                                    *)
(***************************************************************************)
EXTENDS Integers, FiniteSets

Tokens(f) == UNION {{i} \X (1 .. f[i]) : i \in DOMAIN f}

Negated(f) == [i \in DOMAIN f |-> -f[i]]

\* The sum of the values of f, for a function f with a finite domain.
Total(f) == Cardinality(Tokens(f)) - Cardinality(Tokens(Negated(f)))

\* a / b as decimal division rounds it to the last digit kept: to the nearest,
\* ties to the even one.
RoundedQuotient(a, b) ==
  LET q == a \div b
      twiceRest == 2 * (a - q * b)
  IN IF twiceRest > b \/ (twiceRest = b /\ q % 2 = 1) THEN q + 1 ELSE q

Larger(a, b) == IF a > b THEN a ELSE b

Abs(n) == IF n < 0 THEN -n ELSE n
=============================================================================
