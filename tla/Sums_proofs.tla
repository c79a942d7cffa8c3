---------------------------- MODULE Sums_proofs ----------------------------
(* What the sums of Sums do when one row changes.  The proofs of the       *)
(* ledgers need nothing else about them.                                   *)
EXTENDS Sums, FiniteSetTheorems, TLAPS

(* The units of one element are as many as its value.                      *)
LEMMA UnitsOfCardinality ==
  ASSUME NEW f, NEW x, f[x] \in Nat
  PROVE  /\ IsFiniteSet(UnitsOf(f, x))
         /\ Cardinality(UnitsOf(f, x)) = f[x]
<1>1. IsFiniteSet({x}) /\ Cardinality({x}) = 1
  BY FS_Singleton
<1>2. IsFiniteSet(1 .. f[x]) /\ Cardinality(1 .. f[x]) = f[x]
  BY FS_Interval
<1>3. /\ IsFiniteSet({x} \X (1 .. f[x]))
      /\ Cardinality({x} \X (1 .. f[x])) = Cardinality({x}) * Cardinality(1 .. f[x])
  BY <1>1, <1>2, FS_Product
<1>4. QED
  BY <1>1, <1>2, <1>3 DEF UnitsOf

(* A finite set of rows has finitely many units, so its sum is a natural.  *)
LEMMA UnitsFinite ==
  ASSUME NEW D, IsFiniteSet(D), NEW f, D \subseteq DOMAIN f,
         \A x \in D : f[x] \in Nat
  PROVE  IsFiniteSet(UNION {UnitsOf(f, x) : x \in D})
<1> DEFINE T == {UnitsOf(f, x) : x \in D}
           g == [x \in D |-> UnitsOf(f, x)]
<1>1. g \in Surjection(D, T)
  <2>1. g \in [D -> T]
    OBVIOUS
  <2>2. \A t \in T : \E x \in D : g[x] = t
    OBVIOUS
  <2>3. QED
    BY <2>1, <2>2 DEF Surjection
<1>2. IsFiniteSet(T)
  BY <1>1, FS_Surjection
<1>3. \A t \in T : IsFiniteSet(t)
  BY UnitsOfCardinality
<1>4. QED
  BY <1>2, <1>3, FS_UNION

LEMMA SumType ==
  ASSUME NEW D, IsFiniteSet(D), NEW f \in [D -> Nat]
  PROVE  IsFiniteSet(Units(f)) /\ SumOf(f) \in Nat
<1>1. IsFiniteSet(UNION {UnitsOf(f, x) : x \in D})
  BY UnitsFinite
<1>2. Units(f) = UNION {UnitsOf(f, x) : x \in D}
  BY DEF Units
<1>3. QED
  BY <1>1, <1>2, FS_CardinalityType DEF SumOf

(* The units of every element but one.                                     *)
OtherUnits(f, x) == UNION {UnitsOf(f, y) : y \in DOMAIN f \ {x}}

(* A sum is the value of one element and the units of the others.          *)
LEMMA SumSplit ==
  ASSUME NEW D, IsFiniteSet(D), NEW f \in [D -> Nat], NEW x \in D
  PROVE  /\ Cardinality(OtherUnits(f, x)) \in Nat
         /\ SumOf(f) = Cardinality(OtherUnits(f, x)) + f[x]
<1>1. DOMAIN f = D /\ f[x] \in Nat /\ IsFiniteSet(D \ {x})
  BY FS_RemoveElement
<1>2. IsFiniteSet(OtherUnits(f, x))
  BY <1>1, UnitsFinite DEF OtherUnits
<1>3. IsFiniteSet(UnitsOf(f, x)) /\ Cardinality(UnitsOf(f, x)) = f[x]
  BY UnitsOfCardinality
<1>4. Units(f) = OtherUnits(f, x) \cup UnitsOf(f, x)
  BY <1>1 DEF Units, OtherUnits
<1>5. OtherUnits(f, x) \cap UnitsOf(f, x) = {}
  BY DEF UnitsOf, OtherUnits
<1>6. Cardinality({}) = 0
  BY FS_EmptySet
<1>7. Cardinality(OtherUnits(f, x)) \in Nat
  BY <1>2, FS_CardinalityType
<1>8. Cardinality(OtherUnits(f, x) \cup UnitsOf(f, x))
        = Cardinality(OtherUnits(f, x)) + Cardinality(UnitsOf(f, x))
            - Cardinality(OtherUnits(f, x) \cap UnitsOf(f, x))
  BY <1>2, <1>3, FS_Union
<1>9. SumOf(f) = Cardinality(OtherUnits(f, x) \cup UnitsOf(f, x))
  BY <1>4 DEF SumOf
<1>10. Cardinality(OtherUnits(f, x) \cap UnitsOf(f, x)) = 0
  BY <1>5, <1>6
<1>11. QED
  BY <1>1, <1>3, <1>7, <1>8, <1>9, <1>10

(* Changing one element changes the sum by the difference of its values.   *)
THEOREM SumUpdate ==
  ASSUME NEW D, IsFiniteSet(D), NEW f \in [D -> Nat], NEW g \in [D -> Nat],
         NEW x \in D, \A y \in D \ {x} : g[y] = f[y]
  PROVE  SumOf(g) = SumOf(f) + g[x] - f[x]
<1>1. \A y \in D \ {x} : UnitsOf(g, y) = UnitsOf(f, y)
  BY DEF UnitsOf
<1>2. OtherUnits(g, x) = OtherUnits(f, x)
  BY <1>1 DEF OtherUnits
<1>3. /\ Cardinality(OtherUnits(f, x)) \in Nat
      /\ SumOf(f) = Cardinality(OtherUnits(f, x)) + f[x]
      /\ SumOf(g) = Cardinality(OtherUnits(g, x)) + g[x]
  BY SumSplit
<1>4. f[x] \in Nat /\ g[x] \in Nat
  OBVIOUS
<1>5. QED
  BY <1>2, <1>3, <1>4

(* A sum of zeros is zero.                                                 *)
THEOREM SumZero ==
  ASSUME NEW D, NEW f \in [D -> Nat], \A x \in D : f[x] = 0
  PROVE  SumOf(f) = 0
<1>1. \A x \in D : UnitsOf(f, x) = {}
  BY DEF UnitsOf
<1>2. Units(f) = {}
  BY <1>1 DEF Units
<1>3. QED
  BY <1>2, FS_EmptySet DEF SumOf

(* A pointwise smaller function has a smaller sum.                         *)
THEOREM SumMonotone ==
  ASSUME NEW D, IsFiniteSet(D), NEW f \in [D -> Nat], NEW g \in [D -> Nat],
         \A x \in D : f[x] <= g[x]
  PROVE  SumOf(f) <= SumOf(g)
<1>1. \A x \in D : UnitsOf(f, x) \subseteq UnitsOf(g, x)
  BY DEF UnitsOf
<1>2. Units(f) \subseteq Units(g)
  BY <1>1 DEF Units
<1>3. IsFiniteSet(Units(g))
  BY SumType
<1>4. QED
  BY <1>2, <1>3, FS_Subset DEF SumOf

(* Counting: changing one flag changes the count by one at most.           *)
THEOREM CountUpdate ==
  ASSUME NEW D, IsFiniteSet(D), NEW f \in [D -> BOOLEAN],
         NEW g \in [D -> BOOLEAN], NEW x \in D,
         \A y \in D \ {x} : g[y] = f[y]
  PROVE  /\ CountOf(f) \in Nat
         /\ CountOf(g) = CountOf(f) + (IF g[x] THEN 1 ELSE 0)
                                    - (IF f[x] THEN 1 ELSE 0)
<1> DEFINE F == {y \in D : f[y]}
           G == {y \in D : g[y]}
           R == {y \in D \ {x} : f[y]}
<1>1. IsFiniteSet(R) /\ x \notin R
  <2>1. R \in SUBSET D
    OBVIOUS
  <2>2. QED
    BY <2>1, FS_Subset
<1>2. Cardinality(R) \in Nat /\ IsFiniteSet(R \cup {x})
        /\ Cardinality(R \cup {x}) = Cardinality(R) + 1
  BY <1>1, FS_AddElement, FS_CardinalityType
<1>3. F = IF f[x] THEN R \cup {x} ELSE R
  OBVIOUS
<1>4. G = IF g[x] THEN R \cup {x} ELSE R
  OBVIOUS
<1>5. CountOf(f) = Cardinality(F) /\ CountOf(g) = Cardinality(G)
  BY DEF CountOf
<1>6. f[x] \in BOOLEAN /\ g[x] \in BOOLEAN
  OBVIOUS
<1> HIDE DEF F, G, R
<1>7. CASE f[x] /\ g[x]
  BY <1>2, <1>3, <1>4, <1>5, <1>7
<1>8. CASE f[x] /\ ~g[x]
  BY <1>2, <1>3, <1>4, <1>5, <1>8
<1>9. CASE ~f[x] /\ g[x]
  BY <1>2, <1>3, <1>4, <1>5, <1>9
<1>10. CASE ~f[x] /\ ~g[x]
  BY <1>2, <1>3, <1>4, <1>5, <1>10
<1>11. QED
  BY <1>6, <1>7, <1>8, <1>9, <1>10

(* A sum over fewer rows is the whole sum when the others hold nothing.    *)
THEOREM SumRestrict ==
  ASSUME NEW D, NEW E, E \subseteq D,
         NEW f \in [D -> Nat], NEW g \in [E -> Nat],
         \A x \in E : g[x] = f[x], \A x \in D \ E : f[x] = 0
  PROVE  SumOf(g) = SumOf(f)
<1>1. \A x \in E : UnitsOf(g, x) = UnitsOf(f, x)
  BY DEF UnitsOf
<1>2. \A x \in D \ E : UnitsOf(f, x) = {}
  BY DEF UnitsOf
<1>3. Units(g) = UNION {UnitsOf(f, x) : x \in E}
  BY <1>1 DEF Units
<1>4. Units(f) = UNION {UnitsOf(f, x) : x \in E}
  BY <1>2 DEF Units
<1>5. QED
  BY <1>3, <1>4 DEF SumOf

(* The sum of two functions is the sum of their sums: the units of the     *)
(* second one, each moved up by the value of the first, are the rest.      *)
THEOREM SumAdd ==
  ASSUME NEW D, IsFiniteSet(D),
         NEW f \in [D -> Nat], NEW g \in [D -> Nat], NEW h \in [D -> Nat],
         \A x \in D : h[x] = f[x] + g[x]
  PROVE  SumOf(h) = SumOf(f) + SumOf(g)
<1> DEFINE up == [u \in Units(g) |-> <<u[1], f[u[1]] + u[2]>>]
           Moved == {up[u] : u \in Units(g)}
<1>1. ASSUME NEW e \in [D -> Nat]
      PROVE  Units(e) = {u \in D \X Nat : u[2] \in 1 .. e[u[1]]}
  <2>1. \A u : u \in Units(e) <=> \E x \in D : \E j \in 1 .. e[x] : u = <<x, j>>
    BY DEF Units, UnitsOf
  <2>2. QED
    BY <2>1
<1>2. up \in Surjection(Units(g), Moved)
  BY DEF Surjection
<1>3. up \in Injection(Units(g), Moved)
  <2>1. ASSUME NEW u \in Units(g), NEW v \in Units(g), up[u] = up[v]
        PROVE  u = v
    <3>1. u \in D \X Nat /\ v \in D \X Nat
      BY <1>1
    <3>2. u[1] = v[1] /\ f[u[1]] + u[2] = f[u[1]] + v[2]
      BY <2>1
    <3>3. f[u[1]] \in Nat
      BY <3>1
    <3>4. u[2] = v[2]
      BY <3>1, <3>2, <3>3
    <3>5. QED
      BY <3>1, <3>2, <3>4
  <2>2. up \in [Units(g) -> Moved]
    OBVIOUS
  <2>3. QED
    BY <2>1, <2>2 DEF Injection, IsInjective
<1>4. IsFiniteSet(Units(f)) /\ IsFiniteSet(Units(g))
  BY SumType
<1>5. IsFiniteSet(Moved) /\ Cardinality(Moved) = Cardinality(Units(g))
  BY <1>2, <1>3, <1>4, FS_Surjection
<1>6. Units(h) = Units(f) \cup Moved
  <2>1. ASSUME NEW u \in Units(h) PROVE u \in Units(f) \cup Moved
    <3>1. u \in D \X Nat /\ u[2] \in 1 .. h[u[1]]
      BY <1>1
    <3>2. u[1] \in D /\ u[2] \in Nat /\ u = <<u[1], u[2]>>
      BY <3>1
    <3>3. f[u[1]] \in Nat /\ g[u[1]] \in Nat /\ h[u[1]] = f[u[1]] + g[u[1]]
      BY <3>2
    <3>4. CASE u[2] <= f[u[1]]
      BY <1>1, <3>1, <3>2, <3>3, <3>4
    <3>5. CASE u[2] > f[u[1]]
      <4> DEFINE v == <<u[1], u[2] - f[u[1]]>>
      <4>1. v[2] \in 1 .. g[u[1]] /\ v[2] \in Nat
        BY <3>1, <3>2, <3>3, <3>5
      <4>2. v \in Units(g)
        BY <1>1, <3>2, <4>1
      <4>3. up[v] = u
        BY <3>2, <3>3, <4>2
      <4>4. QED
        BY <4>2, <4>3
    <3>6. QED
      BY <3>2, <3>3, <3>4, <3>5
  <2>2. ASSUME NEW u \in Units(f) PROVE u \in Units(h)
    <3>1. u \in D \X Nat /\ u[2] \in 1 .. f[u[1]]
      BY <1>1
    <3>2. f[u[1]] \in Nat /\ g[u[1]] \in Nat /\ h[u[1]] = f[u[1]] + g[u[1]]
      BY <3>1
    <3>3. u[2] \in 1 .. h[u[1]]
      BY <3>1, <3>2
    <3>4. QED
      BY <1>1, <3>1, <3>3
  <2>3. ASSUME NEW u \in Units(g) PROVE up[u] \in Units(h)
    <3>1. u \in D \X Nat /\ u[2] \in 1 .. g[u[1]]
      BY <1>1
    <3>2. u[1] \in D /\ f[u[1]] \in Nat /\ g[u[1]] \in Nat
            /\ h[u[1]] = f[u[1]] + g[u[1]]
      BY <3>1
    <3>3. f[u[1]] + u[2] \in Nat /\ f[u[1]] + u[2] \in 1 .. h[u[1]]
      BY <3>1, <3>2
    <3>4. QED
      BY <1>1, <3>2, <3>3
  <2>4. QED
    BY <2>1, <2>2, <2>3
<1>7. Units(f) \cap Moved = {}
  <2>1. ASSUME NEW u \in Units(g), up[u] \in Units(f) PROVE FALSE
    <3>1. u \in D \X Nat /\ u[2] \in 1 .. g[u[1]]
      BY <1>1
    <3>2. f[u[1]] \in Nat /\ g[u[1]] \in Nat
      BY <3>1
    <3>3. f[u[1]] + u[2] \in 1 .. f[u[1]]
      BY <1>1, <2>1, <3>1
    <3>4. QED
      BY <3>1, <3>2, <3>3
  <2>2. QED
    BY <2>1
<1> HIDE DEF up, Moved
<1>8. Cardinality(Units(f) \cup Moved)
        = Cardinality(Units(f)) + Cardinality(Moved) - Cardinality(Units(f) \cap Moved)
  BY <1>4, <1>5, FS_Union
<1>9. Cardinality(Units(f) \cap Moved) = 0
  BY <1>7, FS_EmptySet
<1>10. Cardinality(Units(f)) \in Nat /\ Cardinality(Units(g)) \in Nat
  BY <1>4, FS_CardinalityType
<1>11. SumOf(h) = Cardinality(Units(f) \cup Moved)
  BY <1>6 DEF SumOf
<1>12. QED
  BY <1>5, <1>8, <1>9, <1>10, <1>11 DEF SumOf

(* A flag that is set makes the count positive.                            *)
THEOREM CountPositive ==
  ASSUME NEW D, IsFiniteSet(D), NEW f \in [D -> BOOLEAN], NEW x \in D, f[x]
  PROVE  CountOf(f) \in Nat /\ CountOf(f) > 0
<1> DEFINE S == {y \in D : f[y]}
<1>1. S \in SUBSET D /\ S # {}
  OBVIOUS
<1>2. IsFiniteSet(S) /\ Cardinality(S) \in Nat
  BY <1>1, FS_Subset, FS_CardinalityType
<1>3. Cardinality(S) # 0
  BY <1>1, <1>2, FS_EmptySet
<1>4. CountOf(f) = Cardinality(S)
  BY DEF CountOf
<1>5. QED
  BY <1>2, <1>3, <1>4

(* The start of a period does not lie after any time of the period.        *)
LEMMA DivFloor ==
  ASSUME NEW t \in Nat, NEW length \in Nat \ {0}
  PROVE  t \div length \in Nat /\ (t \div length) * length <= t
OBVIOUS

(* Division is monotone.                                                   *)
LEMMA DivMonotone ==
  ASSUME NEW a \in Nat, NEW b \in Nat, a <= b, NEW length \in Nat \ {0}
  PROVE  /\ a \div length \in Nat /\ b \div length \in Nat
         /\ a \div length <= b \div length
OBVIOUS
=============================================================================
