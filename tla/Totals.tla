------------------------------- MODULE Totals -------------------------------
(***************************************************************************)
(* Sums of natural-number quantities over a finite set, the way the        *)
(* services compute them with sum(...) over rows.  The sum of f over S is   *)
(* the number of units of f: one pair <<x, k>> for each x in S and each k   *)
(* in 1..f[x].  Counting units rather than folding keeps every fact about  *)
(* sums a fact about cardinalities, which TotalTheorems proves.            *)
(***************************************************************************)
EXTENDS Naturals, FiniteSets

Units(S, f) == UNION { {x} \X (1..f[x]) : x \in S }

Total(S, f) == Cardinality(Units(S, f))

\* Pointwise sum and difference of two quantity functions.
Plus(f, g)  == [x \in DOMAIN f |-> f[x] + g[x]]
Minus(f, g) == [x \in DOMAIN f |-> f[x] - g[x]]
=============================================================================
