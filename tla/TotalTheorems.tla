---------------------------- MODULE TotalTheorems ---------------------------
(***************************************************************************)
(* Facts about sums over finite sets: what the proofs about stock and      *)
(* money need to know of sum(...) over rows.                               *)
(***************************************************************************)
EXTENDS Totals, FiniteSetTheorems, TLAPS

\* The units of f are the pairs of an element and a number up to its quantity.
LEMMA UnitsMember ==
  ASSUME NEW S, NEW f, NEW u
  PROVE  u \in Units(S, f) <=> \E x \in S : \E k \in 1..f[x] : u = <<x, k>>
  BY DEF Units

LEMMA UnitsParts ==
  ASSUME NEW S, NEW f, NEW u \in Units(S, f)
  PROVE  u[1] \in S /\ u[2] \in 1..f[u[1]] /\ u = <<u[1], u[2]>>
  BY UnitsMember

LEMMA UnitsPair ==
  ASSUME NEW S, NEW f, NEW x \in S, NEW k
  PROVE  <<x, k>> \in Units(S, f) <=> k \in 1..f[x]
  BY UnitsMember

\* A finite set has finitely many units.
LEMMA UnitsFinite ==
  ASSUME NEW S, IsFiniteSet(S), NEW f, \A x \in S : f[x] \in Nat
  PROVE  IsFiniteSet(Units(S, f))
<1> DEFINE T == {{x} \X (1..f[x]) : x \in S}
           g == [x \in S |-> {x} \X (1..f[x])]
<1>1. g \in Surjection(S, T)
  BY DEF Surjection
<1>2. IsFiniteSet(T)
  BY <1>1, FS_Surjection
<1>3. ASSUME NEW x \in S PROVE IsFiniteSet({x} \X (1..f[x]))
  <2>1. IsFiniteSet({x})
    BY FS_Singleton
  <2>2. IsFiniteSet(1..f[x])
    BY <1>3, FS_Interval
  <2> QED BY <2>1, <2>2, FS_Product
<1>4. IsFiniteSet(UNION T)
  BY <1>2, <1>3, FS_UNION
<1> QED BY <1>4 DEF Units

\* A sum of quantities is a quantity.
THEOREM TotalNat ==
  ASSUME NEW S, IsFiniteSet(S), NEW f, \A x \in S : f[x] \in Nat
  PROVE  Total(S, f) \in Nat
  BY UnitsFinite, FS_CardinalityType DEF Total

\* Nothing adds up to nothing.
THEOREM TotalEmpty ==
  ASSUME NEW f
  PROVE  Total({}, f) = 0
  BY FS_EmptySet DEF Total, Units

\* One row's sum is its quantity.
THEOREM TotalSingleton ==
  ASSUME NEW x, NEW f, f[x] \in Nat
  PROVE  Total({x}, f) = f[x]
<1>1. Units({x}, f) = {x} \X (1..f[x])
  BY DEF Units
<1>2. IsFiniteSet({x}) /\ Cardinality({x}) = 1
  BY FS_Singleton
<1>3. IsFiniteSet(1..f[x])
  BY FS_Interval
<1>4. Cardinality(1..f[x]) = f[x]
  <2>1. Cardinality(1..f[x]) = IF 1 > f[x] THEN 0 ELSE f[x] - 1 + 1
    BY FS_Interval
  <2> QED BY <2>1
<1>5. Cardinality({x} \X (1..f[x])) = Cardinality({x}) * Cardinality(1..f[x])
  BY <1>2, <1>3, FS_Product
<1>6. Cardinality({x} \X (1..f[x])) = f[x]
  BY <1>2, <1>4, <1>5
<1> QED BY <1>1, <1>6 DEF Total

\* The sum depends on the quantities of the summed rows alone.
THEOREM TotalCongruence ==
  ASSUME NEW S, NEW f, NEW g, \A x \in S : f[x] = g[x]
  PROVE  Total(S, f) = Total(S, g)
<1>1. ASSUME NEW u PROVE u \in Units(S, f) <=> u \in Units(S, g)
  BY UnitsMember
<1>2. Units(S, f) = Units(S, g)
  BY <1>1
<1> QED BY <1>2 DEF Total

\* Sums over disjoint sets of rows add up.
THEOREM TotalUnion ==
  ASSUME NEW S, IsFiniteSet(S), NEW T, IsFiniteSet(T), S \cap T = {},
         NEW f, \A x \in S \cup T : f[x] \in Nat
  PROVE  Total(S \cup T, f) = Total(S, f) + Total(T, f)
<1>1. Units(S \cup T, f) = Units(S, f) \cup Units(T, f)
  BY UnitsMember
<1>2. Units(S, f) \cap Units(T, f) = {}
  BY UnitsMember
<1>3. IsFiniteSet(Units(S, f)) /\ IsFiniteSet(Units(T, f))
  BY UnitsFinite
<1>4. Cardinality(Units(S, f) \cap Units(T, f)) = 0
  BY <1>2, FS_EmptySet
<1>5. Cardinality(Units(S, f)) \in Nat /\ Cardinality(Units(T, f)) \in Nat
  BY <1>3, FS_CardinalityType
<1>6. Cardinality(Units(S, f) \cup Units(T, f))
        = Cardinality(Units(S, f)) + Cardinality(Units(T, f)) - 0
  BY <1>3, <1>4, FS_Union
<1>7. Cardinality(Units(S, f) \cup Units(T, f))
        = Cardinality(Units(S, f)) + Cardinality(Units(T, f))
  BY <1>5, <1>6
<1>8. Cardinality(Units(S \cup T, f))
        = Cardinality(Units(S, f)) + Cardinality(Units(T, f))
  BY <1>1, <1>7
<1> QED BY <1>8 DEF Total

\* Taking rows out of a sum takes out their sum.
THEOREM TotalSplit ==
  ASSUME NEW S, IsFiniteSet(S), NEW T \in SUBSET S,
         NEW f, \A x \in S : f[x] \in Nat
  PROVE  /\ Total(S, f) = Total(T, f) + Total(S \ T, f)
         /\ Total(S \ T, f) = Total(S, f) - Total(T, f)
         /\ Total(T, f) <= Total(S, f)
<1>1. IsFiniteSet(T) /\ IsFiniteSet(S \ T)
  BY FS_Subset, FS_Difference
<1>2. S = T \cup (S \ T) /\ T \cap (S \ T) = {}
  OBVIOUS
<1>3. Total(S, f) = Total(T, f) + Total(S \ T, f)
  <2>1. \A x \in T \cup (S \ T) : f[x] \in Nat
    OBVIOUS
  <2>2. Total(T \cup (S \ T), f) = Total(T, f) + Total(S \ T, f)
    BY <1>1, <1>2, <2>1, TotalUnion
  <2> QED BY <1>2, <2>2
<1>4. Total(T, f) \in Nat /\ Total(S \ T, f) \in Nat
  BY <1>1, TotalNat
<1> QED BY <1>3, <1>4

\* The sum of pointwise sums is the sum of the sums.
THEOREM TotalPlus ==
  ASSUME NEW S, IsFiniteSet(S), NEW f, NEW g, NEW h,
         \A x \in S : f[x] \in Nat /\ g[x] \in Nat /\ h[x] = f[x] + g[x]
  PROVE  Total(S, h) = Total(S, f) + Total(S, g)
<1> DEFINE F == Units(S, f)
           G == Units(S, g)
           H == Units(S, h)
           b == [u \in G |-> <<u[1], f[u[1]] + u[2]>>]
<1>1. IsFiniteSet(F) /\ IsFiniteSet(G) /\ IsFiniteSet(H)
  BY UnitsFinite
<1>2. F \subseteq H
  <2> SUFFICES ASSUME NEW u \in F PROVE u \in H
    OBVIOUS
  <2>1. u[1] \in S /\ u[2] \in 1..f[u[1]] /\ u = <<u[1], u[2]>>
    BY UnitsParts
  <2>2. u[2] \in 1..h[u[1]]
    BY <2>1
  <2>3. <<u[1], u[2]>> \in H
    BY <2>1, <2>2, UnitsPair
  <2> QED BY <2>1, <2>3
<1>3. ASSUME NEW u \in G PROVE b[u] \in H \ F
  <2>1. u[1] \in S /\ u[2] \in 1..g[u[1]]
    BY UnitsParts
  <2>2. f[u[1]] + u[2] \in 1..h[u[1]] /\ f[u[1]] + u[2] \notin 1..f[u[1]]
    BY <2>1
  <2> QED BY <2>1, <2>2, UnitsPair
<1>4. ASSUME NEW u \in G, NEW v \in G, b[u] = b[v] PROVE u = v
  <2>1. u[1] \in S /\ u[2] \in 1..g[u[1]] /\ u = <<u[1], u[2]>>
    BY UnitsParts
  <2>2. v[1] \in S /\ v[2] \in 1..g[v[1]] /\ v = <<v[1], v[2]>>
    BY UnitsParts
  <2>3. u[1] = v[1] /\ f[u[1]] + u[2] = f[v[1]] + v[2]
    BY <1>4
  <2>4. u[2] = v[2]
    BY <2>1, <2>2, <2>3
  <2> QED BY <2>1, <2>2, <2>3, <2>4
<1>5. ASSUME NEW w \in H \ F PROVE \E u \in G : b[u] = w
  <2> DEFINE u == <<w[1], w[2] - f[w[1]]>>
  <2>1. w[1] \in S /\ w[2] \in 1..h[w[1]] /\ w = <<w[1], w[2]>>
    BY UnitsParts
  <2>2. w[2] \notin 1..f[w[1]]
    BY <2>1, <1>5, UnitsPair
  <2>3. w[2] - f[w[1]] \in 1..g[w[1]] /\ f[w[1]] + (w[2] - f[w[1]]) = w[2]
    BY <2>1, <2>2
  <2>4. u \in G
    BY <2>1, <2>3, UnitsPair
  <2>5. b[u] = w
    BY <2>1, <2>3, <2>4
  <2> QED BY <2>4, <2>5
<1>6. ExistsBijection(G, H \ F)
  <2>1. b \in Injection(G, H \ F)
    BY <1>3, <1>4 DEF Injection, IsInjective
  <2>2. b \in Surjection(G, H \ F)
    BY <1>3, <1>5 DEF Surjection
  <2> QED BY <2>1, <2>2 DEF Bijection, ExistsBijection
<1>7. Cardinality(H \ F) = Cardinality(G)
  BY <1>1, <1>6, FS_Bijection
<1>8. Cardinality(H \ F) = Cardinality(H) - Cardinality(H \cap F)
  BY <1>1, FS_Difference
<1>9. H \cap F = F
  BY <1>2
<1>10. Cardinality(H) \in Nat /\ Cardinality(F) \in Nat /\ Cardinality(G) \in Nat
  BY <1>1, FS_CardinalityType
<1>11. Cardinality(H) = Cardinality(F) + Cardinality(G)
  BY <1>7, <1>8, <1>9, <1>10
<1> QED BY <1>11 DEF Total

\* What is taken pointwise out of quantities that cover it leaves their sum
\* by its own sum.
THEOREM TotalMinus ==
  ASSUME NEW S, IsFiniteSet(S), NEW f, NEW g, NEW h,
         \A x \in S : f[x] \in Nat /\ g[x] \in Nat /\ g[x] <= f[x]
                      /\ h[x] = f[x] - g[x]
  PROVE  /\ Total(S, h) = Total(S, f) - Total(S, g)
         /\ Total(S, g) <= Total(S, f)
<1>1. \A x \in S : h[x] \in Nat /\ g[x] \in Nat /\ f[x] = h[x] + g[x]
  OBVIOUS
<1>2. Total(S, f) = Total(S, h) + Total(S, g)
  BY <1>1, TotalPlus
<1>3. Total(S, h) \in Nat /\ Total(S, g) \in Nat
  BY <1>1, TotalNat
<1> QED BY <1>2, <1>3

\* Larger quantities have a larger sum.
THEOREM TotalMonotone ==
  ASSUME NEW S, IsFiniteSet(S), NEW f, NEW g,
         \A x \in S : f[x] \in Nat /\ g[x] \in Nat /\ g[x] <= f[x]
  PROVE  Total(S, g) <= Total(S, f)
<1> DEFINE h == [x \in S |-> f[x] - g[x]]
<1>1. \A x \in S : h[x] = f[x] - g[x]
  OBVIOUS
<1> QED BY <1>1, TotalMinus

\* A quantity is at most any sum it is part of.
THEOREM TotalBoundsPart ==
  ASSUME NEW S, IsFiniteSet(S), NEW x \in S, NEW f, \A y \in S : f[y] \in Nat
  PROVE  f[x] <= Total(S, f)
<1>1. Total({x}, f) = f[x]
  BY TotalSingleton
<1>2. Total({x}, f) <= Total(S, f)
  BY TotalSplit
<1> QED BY <1>1, <1>2

\* Zeros add up to zero.
THEOREM TotalZero ==
  ASSUME NEW S, NEW f, \A x \in S : f[x] = 0
  PROVE  Total(S, f) = 0
<1>1. Units(S, f) = {}
  BY DEF Units
<1> QED BY <1>1, FS_EmptySet DEF Total

\* A sum that one row alone contributes to is that row's quantity.
THEOREM TotalOne ==
  ASSUME NEW S, IsFiniteSet(S), NEW x \in S, NEW f, f[x] \in Nat,
         \A y \in S \ {x} : f[y] = 0
  PROVE  Total(S, f) = f[x]
<1>1. \A y \in S : f[y] \in Nat
  OBVIOUS
<1>2. Total(S, f) = Total({x}, f) + Total(S \ {x}, f)
  BY <1>1, TotalSplit
<1>3. Total({x}, f) = f[x]
  BY TotalSingleton
<1>4. Total(S \ {x}, f) = 0
  BY TotalZero
<1> QED BY <1>2, <1>3, <1>4

\* Quantities that grow by w on the rows T grow in sum by the sum of w.
THEOREM TotalGrowsOn ==
  ASSUME NEW S, IsFiniteSet(S), NEW T \in SUBSET S, NEW f, NEW g, NEW w,
         \A x \in S : f[x] \in Nat,
         \A x \in T : w[x] \in Nat /\ g[x] = f[x] + w[x],
         \A x \in S \ T : g[x] = f[x]
  PROVE  Total(S, g) = Total(S, f) + Total(T, w)
<1>1. IsFiniteSet(T)
  BY FS_Subset
<1>2. Total(T, g) = Total(T, f) + Total(T, w)
  BY <1>1, TotalPlus
<1>3. Total(S \ T, g) = Total(S \ T, f)
  BY TotalCongruence
<1>4. Total(S, f) = Total(T, f) + Total(S \ T, f)
  BY TotalSplit
<1>5. Total(S, g) = Total(T, g) + Total(S \ T, g)
  <2>1. \A x \in S : g[x] \in Nat
    OBVIOUS
  <2> QED BY <2>1, TotalSplit
<1>6. /\ Total(T, f) \in Nat /\ Total(T, w) \in Nat
      /\ Total(S \ T, f) \in Nat
  <2>1. IsFiniteSet(S \ T)
    BY FS_Difference
  <2> QED BY <1>1, <2>1, TotalNat
<1> QED BY <1>2, <1>3, <1>4, <1>5, <1>6

\* One quantity that grows by q makes the sum grow by q.
THEOREM TotalGrowsAt ==
  ASSUME NEW S, IsFiniteSet(S), NEW x \in S, NEW q \in Nat, NEW f, NEW g,
         \A y \in S : f[y] \in Nat,
         g[x] = f[x] + q, \A y \in S \ {x} : g[y] = f[y]
  PROVE  Total(S, g) = Total(S, f) + q
<1> DEFINE w == [y \in {x} |-> q]
<1>1. Total({x}, w) = q
  <2>1. w[x] = q
    OBVIOUS
  <2> HIDE DEF w
  <2> QED BY <2>1, TotalSingleton
<1>2. \A y \in {x} : w[y] \in Nat /\ g[y] = f[y] + w[y]
  OBVIOUS
<1> HIDE DEF w
<1>3. Total(S, g) = Total(S, f) + Total({x}, w)
  BY <1>2, TotalGrowsOn
<1> QED BY <1>1, <1>3

\* Renaming the rows one to one leaves the sum as it is.
THEOREM TotalReindex ==
  ASSUME NEW S, IsFiniteSet(S), NEW T, NEW e \in Bijection(S, T),
         NEW f, NEW g, \A x \in S : f[x] \in Nat /\ g[e[x]] = f[x]
  PROVE  Total(T, g) = Total(S, f)
<1> DEFINE F == Units(S, f)
           G == Units(T, g)
           b == [u \in F |-> <<e[u[1]], u[2]>>]
<1>0. /\ e \in [S -> T]
      /\ \A x, y \in S : e[x] = e[y] => x = y
      /\ \A y \in T : \E x \in S : e[x] = y
  BY DEF Bijection, Injection, Surjection, IsInjective
<1>1. ASSUME NEW u \in F PROVE b[u] \in G
  <2>1. u[1] \in S /\ u[2] \in 1..f[u[1]]
    BY UnitsParts
  <2>2. e[u[1]] \in T /\ u[2] \in 1..g[e[u[1]]]
    BY <1>0, <2>1
  <2>3. <<e[u[1]], u[2]>> \in G
    BY <2>2, UnitsPair
  <2> QED BY <2>3
<1>2. ASSUME NEW u \in F, NEW v \in F, b[u] = b[v] PROVE u = v
  <2>1. u[1] \in S /\ u = <<u[1], u[2]>>
    BY UnitsParts
  <2>2. v[1] \in S /\ v = <<v[1], v[2]>>
    BY UnitsParts
  <2>3. e[u[1]] = e[v[1]] /\ u[2] = v[2]
    BY <1>2
  <2> QED BY <1>0, <2>1, <2>2, <2>3
<1>3. ASSUME NEW w \in G PROVE \E u \in F : b[u] = w
  <2>1. w[1] \in T /\ w[2] \in 1..g[w[1]] /\ w = <<w[1], w[2]>>
    BY UnitsParts
  <2>2. PICK x \in S : e[x] = w[1]
    BY <1>0, <2>1
  <2>3. w[2] \in 1..f[x]
    BY <2>1, <2>2
  <2>4. <<x, w[2]>> \in F
    BY <2>3, UnitsPair
  <2>5. b[<<x, w[2]>>] = w
    BY <2>1, <2>2, <2>4
  <2> QED BY <2>4, <2>5
<1>4. ExistsBijection(F, G)
  <2>1. b \in Injection(F, G)
    BY <1>1, <1>2 DEF Injection, IsInjective
  <2>2. b \in Surjection(F, G)
    BY <1>1, <1>3 DEF Surjection
  <2> QED BY <2>1, <2>2 DEF Bijection, ExistsBijection
<1>5. IsFiniteSet(F)
  BY UnitsFinite
<1> QED BY <1>4, <1>5, FS_Bijection DEF Total

\* The sums of the rows of the table r.
RowTotals(A, B, r) == [a \in A |-> Total(B, r[a])]

\* A sum over pairs is the sum of the sums of its rows.
THEOREM TotalPairs ==
  ASSUME NEW A, IsFiniteSet(A), NEW B, IsFiniteSet(B),
         NEW f, NEW r,
         \A a \in A, c \in B : f[<<a, c>>] \in Nat /\ r[a][c] = f[<<a, c>>]
  PROVE  Total(A \X B, f) = Total(A, RowTotals(A, B, r))
<1> DEFINE h == RowTotals(A, B, r)
           e(a) == CHOOSE m \in Bijection(1..h[a], Units(B, r[a])) : TRUE
           H == Units(A, h)
           F == Units(A \X B, f)
           b == [u \in H |-> <<<<u[1], e(u[1])[u[2]][1]>>, e(u[1])[u[2]][2]>>]
<1>0. \A a \in A : h[a] = Total(B, r[a])
  BY DEF RowTotals
<1> HIDE DEF h
<1>1. ASSUME NEW a \in A
      PROVE  /\ e(a) \in [1..h[a] -> Units(B, r[a])]
             /\ \A j, k \in 1..h[a] : e(a)[j] = e(a)[k] => j = k
             /\ \A v \in Units(B, r[a]) : \E k \in 1..h[a] : e(a)[k] = v
  <2>1. \A c \in B : r[a][c] \in Nat
    OBVIOUS
  <2>2. IsFiniteSet(Units(B, r[a]))
    BY <2>1, UnitsFinite
  <2>3. h[a] = Cardinality(Units(B, r[a]))
    BY <1>0 DEF Total
  <2>4. ExistsBijection(1..h[a], Units(B, r[a]))
    BY <2>2, <2>3, FS_CardinalityType
  <2>5. e(a) \in Bijection(1..h[a], Units(B, r[a]))
    BY <2>4 DEF ExistsBijection
  <2> HIDE DEF e
  <2> QED BY <2>5 DEF Bijection, Injection, Surjection, IsInjective
<1>2. \A a \in A : h[a] \in Nat
  <2> SUFFICES ASSUME NEW a \in A PROVE h[a] \in Nat
    OBVIOUS
  <2>1. \A c \in B : r[a][c] \in Nat
    OBVIOUS
  <2> QED BY <1>0, <2>1, TotalNat
<1>3. ASSUME NEW u \in H
      PROVE  /\ u[1] \in A /\ u[2] \in 1..h[u[1]] /\ u = <<u[1], u[2]>>
             /\ e(u[1])[u[2]] \in Units(B, r[u[1]])
             /\ e(u[1])[u[2]][1] \in B
             /\ e(u[1])[u[2]][2] \in 1..f[<<u[1], e(u[1])[u[2]][1]>>]
             /\ e(u[1])[u[2]] = <<e(u[1])[u[2]][1], e(u[1])[u[2]][2]>>
  <2>1. u[1] \in A /\ u[2] \in 1..h[u[1]] /\ u = <<u[1], u[2]>>
    BY UnitsParts
  <2>2. e(u[1]) \in [1..h[u[1]] -> Units(B, r[u[1]])]
    BY <1>1, <2>1
  <2> DEFINE v == e(u[1])[u[2]]
  <2>3. v \in Units(B, r[u[1]])
    <3> HIDE DEF e
    <3> QED BY <2>1, <2>2
  <2> HIDE DEF v
  <2>4. v[1] \in B /\ v[2] \in 1..r[u[1]][v[1]] /\ v = <<v[1], v[2]>>
    BY <2>3, UnitsParts
  <2>5. v[1] \in B /\ v[2] \in 1..f[<<u[1], v[1]>>] /\ v = <<v[1], v[2]>>
    BY <2>1, <2>4
  <2> QED BY <2>1, <2>3, <2>5 DEF v
<1> HIDE DEF e
<1>4. ASSUME NEW u \in H PROVE b[u] \in F
  <2> DEFINE v == e(u[1])[u[2]]
  <2>1. u[1] \in A /\ v[1] \in B /\ v[2] \in 1..f[<<u[1], v[1]>>]
    BY <1>3
  <2>2. <<u[1], v[1]>> \in A \X B
    BY <2>1
  <2>3. <<<<u[1], v[1]>>, v[2]>> \in F
    BY <2>1, <2>2, UnitsPair
  <2> QED BY <2>3
<1>5. ASSUME NEW u \in H, NEW w \in H, b[u] = b[w] PROVE u = w
  <2> DEFINE v == e(u[1])[u[2]]
             z == e(w[1])[w[2]]
  <2>1. u[1] = w[1] /\ v[1] = z[1] /\ v[2] = z[2]
    BY <1>5
  <2>2. v = <<v[1], v[2]>> /\ z = <<z[1], z[2]>>
    BY <1>3
  <2>3. v = z
    BY <2>1, <2>2
  <2>4. e(u[1])[u[2]] = e(u[1])[w[2]]
    BY <2>1, <2>3
  <2>5. u[1] \in A /\ u[2] \in 1..h[u[1]] /\ w[2] \in 1..h[u[1]]
    BY <1>3, <2>1
  <2>6. u[2] = w[2]
    BY <1>1, <2>4, <2>5
  <2>7. u = <<u[1], u[2]>> /\ w = <<w[1], w[2]>>
    BY <1>3
  <2> QED BY <2>1, <2>6, <2>7
<1>6. ASSUME NEW w \in F PROVE \E u \in H : b[u] = w
  <2>1. w[1] \in A \X B /\ w[2] \in 1..f[w[1]] /\ w = <<w[1], w[2]>>
    BY UnitsParts
  <2> DEFINE a == w[1][1]
             c == w[1][2]
             v == <<c, w[2]>>
  <2>2. a \in A /\ c \in B /\ w[1] = <<a, c>> /\ w[2] \in 1..f[<<a, c>>]
    BY <2>1
  <2>3. w[2] \in 1..r[a][c]
    BY <2>2
  <2>4. v \in Units(B, r[a])
    BY <2>2, <2>3, UnitsPair
  <2> HIDE DEF v
  <2>5. PICK k \in 1..h[a] : e(a)[k] = v
    BY <1>1, <2>2, <2>4
  <2>6. <<a, k>> \in H
    BY <2>2, <2>5, UnitsPair
  <2>7. b[<<a, k>>] = w
    BY <2>1, <2>2, <2>5, <2>6 DEF v
  <2> QED BY <2>6, <2>7
<1>7. ExistsBijection(H, F)
  <2>1. b \in Injection(H, F)
    <3> HIDE DEF H, F
    <3>1. b \in [H -> F]
      BY <1>4
    <3> QED BY <1>5, <3>1 DEF Injection, IsInjective
  <2>2. b \in Surjection(H, F)
    <3> HIDE DEF H, F
    <3>1. b \in [H -> F]
      BY <1>4
    <3> QED BY <1>6, <3>1 DEF Surjection
  <2> QED BY <2>1, <2>2 DEF Bijection, ExistsBijection
<1>8. IsFiniteSet(H)
  BY <1>2, UnitsFinite
<1> QED BY <1>7, <1>8, FS_Bijection DEF Total, h

\* The two orders of summation agree.
THEOREM TotalExchange ==
  ASSUME NEW A, IsFiniteSet(A), NEW B, IsFiniteSet(B), NEW r, NEW k,
         \A a \in A, c \in B : r[a][c] \in Nat /\ k[c][a] = r[a][c]
  PROVE  Total(A, RowTotals(A, B, r)) = Total(B, RowTotals(B, A, k))
<1> DEFINE f == [x \in A \X B |-> r[x[1]][x[2]]]
           t == [x \in B \X A |-> r[x[2]][x[1]]]
           e == [x \in A \X B |-> <<x[2], x[1]>>]
<1>1. Total(A \X B, f) = Total(A, RowTotals(A, B, r))
  <2>1. \A a \in A, c \in B : f[<<a, c>>] \in Nat /\ r[a][c] = f[<<a, c>>]
    OBVIOUS
  <2> HIDE DEF f
  <2> QED BY <2>1, TotalPairs
<1>2. Total(B \X A, t) = Total(B, RowTotals(B, A, k))
  <2>1. \A c \in B, a \in A : t[<<c, a>>] \in Nat /\ k[c][a] = t[<<c, a>>]
    OBVIOUS
  <2> HIDE DEF t
  <2> QED BY <2>1, TotalPairs
<1>3. Total(B \X A, t) = Total(A \X B, f)
  <2>1. e \in Bijection(A \X B, B \X A)
    <3>1. e \in [A \X B -> B \X A]
      OBVIOUS
    <3>2. ASSUME NEW x \in A \X B, NEW y \in A \X B, e[x] = e[y] PROVE x = y
      <4>1. x = <<x[1], x[2]>> /\ y = <<y[1], y[2]>>
        OBVIOUS
      <4>2. <<x[2], x[1]>> = <<y[2], y[1]>>
        BY <3>2
      <4> QED BY <4>1, <4>2
    <3>3. ASSUME NEW y \in B \X A PROVE \E x \in A \X B : e[x] = y
      <4>1. <<y[2], y[1]>> \in A \X B /\ e[<<y[2], y[1]>>] = y
        OBVIOUS
      <4> QED BY <4>1
    <3> HIDE DEF e
    <3>4. e \in Injection(A \X B, B \X A)
      BY <3>1, <3>2 DEF Injection, IsInjective
    <3>5. e \in Surjection(A \X B, B \X A)
      BY <3>1, <3>3 DEF Surjection
    <3> QED BY <3>4, <3>5 DEF Bijection
  <2>2. \A x \in A \X B : f[x] \in Nat /\ t[e[x]] = f[x]
    OBVIOUS
  <2>3. IsFiniteSet(A \X B)
    BY FS_Product
  <2> HIDE DEF t, e, f
  <2> QED BY <2>1, <2>2, <2>3, TotalReindex
<1> QED BY <1>1, <1>2, <1>3
=============================================================================
