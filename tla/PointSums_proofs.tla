-------------------------- MODULE PointSums_proofs --------------------------
(***************************************************************************)
(* Facts about sums of points over finite sets, from counting the points.  *)
(***************************************************************************)
EXTENDS PointSums, FiniteSetTheorems, TLAPS

\* The points a sum counts.
Points(S, f) == UNION {PointsOf(x, f[x]) : x \in S}

LEMMA PointsAre ==
    ASSUME NEW S, NEW f
    PROVE  /\ Sum(S, f) = Cardinality(Points(S, f))
           /\ \A p : p \in Points(S, f) <=> \E x \in S : p \in {x} \X (1 .. f[x])
  BY DEF Sum, Points, PointsOf

\* Finitely many summands have finitely many points.
LEMMA PointsFinite ==
    ASSUME NEW D, IsFiniteSet(D), NEW f \in [D -> Nat], NEW S \in SUBSET D
    PROVE  IsFiniteSet(Points(S, f))
<1> DEFINE P == {PointsOf(x, f[x]) : x \in S}
           g == [x \in S |-> PointsOf(x, f[x])]
<1>1. IsFiniteSet(S)
  BY FS_Subset
<1>2. g \in Surjection(S, P)
  <2>1. g \in [S -> P]
    OBVIOUS
  <2>2. \A p \in P : \E x \in S : g[x] = p
    OBVIOUS
  <2> QED
    BY <2>1, <2>2 DEF Surjection
<1>3. IsFiniteSet(P)
  <2> HIDE DEF g, P
  <2> QED
    BY <1>1, <1>2, FS_Surjection
<1>4. ASSUME NEW Q \in P PROVE IsFiniteSet(Q)
  <2>1. PICK x \in S : Q = {x} \X (1 .. f[x])
    BY DEF PointsOf
  <2>2. IsFiniteSet(1 .. f[x])
    BY FS_Interval
  <2>3. IsFiniteSet({x})
    BY FS_Singleton
  <2> QED
    BY <2>1, <2>2, <2>3, FS_Product, Zenon
<1>5. Points(S, f) = UNION P
  BY Zenon DEF Points
<1> HIDE DEF P
<1> QED
  BY <1>3, <1>4, <1>5, FS_UNION, Zenon

LEMMA SumType ==
    ASSUME NEW D, IsFiniteSet(D), NEW f \in [D -> Nat],
           NEW S \in SUBSET D
    PROVE  Sum(S, f) \in Nat
  BY PointsFinite, PointsAre, FS_CardinalityType

LEMMA SumEmpty == ASSUME NEW f PROVE Sum({}, f) = 0
<1>1. Points({}, f) = {}
  BY PointsAre
<1> QED
  BY <1>1, PointsAre, FS_EmptySet

\* A sum depends on the summands it takes, and on no other.
LEMMA SumSame ==
    ASSUME NEW S, NEW f, NEW g, \A x \in S : f[x] = g[x]
    PROVE  Sum(S, f) = Sum(S, g)
<1>1. Points(S, f) = Points(S, g)
  BY PointsAre
<1> QED
  BY <1>1, PointsAre

\* More summands never sum to less.
LEMMA SumMono ==
    ASSUME NEW D, IsFiniteSet(D), NEW f \in [D -> Nat],
           NEW T \in SUBSET D, NEW S \in SUBSET T
    PROVE  Sum(S, f) <= Sum(T, f)
<1>1. Points(S, f) \subseteq Points(T, f)
  BY PointsAre
<1>2. IsFiniteSet(Points(T, f))
  BY PointsFinite
<1> QED
  BY <1>1, <1>2, PointsAre, FS_Subset

\* One summand more adds its points.
LEMMA SumAdd ==
    ASSUME NEW D, IsFiniteSet(D), NEW f \in [D -> Nat],
           NEW S \in SUBSET D, NEW x \in D, x \notin S
    PROVE  Sum(S \union {x}, f) = Sum(S, f) + f[x]
<1> DEFINE own == {x} \X (1 .. f[x])
<1>1. f[x] \in Nat
  OBVIOUS
<1>2. IsFiniteSet(own) /\ Cardinality(own) = f[x]
  <2>1. IsFiniteSet(1 .. f[x]) /\ Cardinality(1 .. f[x]) = f[x]
    BY <1>1, FS_Interval
  <2>2. IsFiniteSet({x}) /\ Cardinality({x}) = 1
    BY FS_Singleton
  <2>3. /\ IsFiniteSet(own)
        /\ Cardinality(own) = Cardinality({x}) * Cardinality(1 .. f[x])
    BY <2>1, <2>2, FS_Product, Zenon
  <2> QED
    BY <1>1, <2>1, <2>2, <2>3
<1>3. Points(S \union {x}, f) = Points(S, f) \union own
  BY PointsAre
<1>4. Points(S, f) \cap own = {}
  BY PointsAre
<1>5. IsFiniteSet(Points(S, f)) /\ Cardinality(Points(S, f)) \in Nat
  BY PointsFinite, FS_CardinalityType
<1>6. Cardinality(Points(S, f) \cap own) = 0
  BY <1>4, FS_EmptySet
<1> HIDE DEF own
<1>7. Cardinality(Points(S, f) \union own) = Cardinality(Points(S, f)) + f[x]
  <2>1. Cardinality(Points(S, f) \union own)
            = Cardinality(Points(S, f)) + Cardinality(own)
              - Cardinality(Points(S, f) \cap own)
    BY <1>2, <1>5, FS_Union, Zenon
  <2> QED
    BY <1>1, <1>2, <1>5, <1>6, <2>1
<1> QED
  BY <1>3, <1>7, PointsAre

\* One summand less takes its points.
LEMMA SumRemove ==
    ASSUME NEW D, IsFiniteSet(D), NEW f \in [D -> Nat],
           NEW S \in SUBSET D, NEW x \in S
    PROVE  Sum(S \ {x}, f) = Sum(S, f) - f[x]
<1>1. S \ {x} \in SUBSET D /\ x \in D /\ x \notin S \ {x} /\ (S \ {x}) \union {x} = S
  OBVIOUS
<1>2. Sum((S \ {x}) \union {x}, f) = Sum(S \ {x}, f) + f[x]
  BY <1>1, SumAdd
<1>3. Sum(S, f) = Sum(S \ {x}, f) + f[x]
  BY <1>1, <1>2, Zenon
<1>4. Sum(S \ {x}, f) \in Nat /\ f[x] \in Nat
  BY <1>1, SumType
<1> QED
  BY <1>3, <1>4

\* The sums of two sets that share no summand add up.
LEMMA SumUnion ==
    ASSUME NEW D, IsFiniteSet(D), NEW f \in [D -> Nat],
           NEW S \in SUBSET D, NEW T \in SUBSET D, S \cap T = {}
    PROVE  Sum(S \union T, f) = Sum(S, f) + Sum(T, f)
<1>1. Points(S \union T, f) = Points(S, f) \union Points(T, f)
  BY PointsAre
<1>2. Points(S, f) \cap Points(T, f) = {}
  <2> SUFFICES ASSUME NEW p \in Points(S, f), p \in Points(T, f) PROVE FALSE
    OBVIOUS
  <2>1. PICK x \in S : p \in {x} \X (1 .. f[x])
    BY PointsAre
  <2>2. PICK y \in T : p \in {y} \X (1 .. f[y])
    BY PointsAre
  <2>3. p[1] = x /\ p[1] = y
    BY <2>1, <2>2
  <2> QED
    BY <2>3
<1>3. /\ IsFiniteSet(Points(S, f)) /\ Cardinality(Points(S, f)) \in Nat
      /\ IsFiniteSet(Points(T, f)) /\ Cardinality(Points(T, f)) \in Nat
  BY PointsFinite, FS_CardinalityType
<1>4. Cardinality(Points(S, f) \cap Points(T, f)) = 0
  BY <1>2, FS_EmptySet
<1>5. Cardinality(Points(S, f) \union Points(T, f))
          = Cardinality(Points(S, f)) + Cardinality(Points(T, f))
  <2>1. Cardinality(Points(S, f) \union Points(T, f))
            = Cardinality(Points(S, f)) + Cardinality(Points(T, f))
              - Cardinality(Points(S, f) \cap Points(T, f))
    BY <1>3, FS_Union, Zenon
  <2> QED
    BY <1>3, <1>4, <2>1
<1> QED
  BY <1>1, <1>5, PointsAre

=============================================================================
