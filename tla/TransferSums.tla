----------------------------- MODULE TransferSums -----------------------------
(***************************************************************************)
(* Sums over finite sets, as MapThenSumSet computes them: for any finite   *)
(* set and any natural amounts the sum is a natural number, and sums over  *)
(* disjoint sets add up.                                                   *)
(*                                                                         *)
(* MapThenSumSet is a recursive function that removes chosen elements one  *)
(* by one.  SumIsUnits shows that it counts the units of the elements, by  *)
(* giving the function that the recursion must define and refuting a least *)
(* set on which it does not; what follows is about cardinalities.          *)
(***************************************************************************)
EXTENDS Integers, FiniteSets, FiniteSetsExt, FiniteSetTheorems, WellFoundedInduction, TLAPS

\* One unit for each coin of the elements of T, worth v[t] each.
Units(v, T) == UNION {{t} \X (1 .. v[t]) : t \in T}

LEMMA UnitsFinite ==
  ASSUME NEW S, IsFiniteSet(S), NEW v \in [S -> Nat], NEW T \in SUBSET S
  PROVE  IsFiniteSet(Units(v, T)) /\ Cardinality(Units(v, T)) \in Nat
<1>1. IsFiniteSet(T)  BY FS_Subset
<1> DEFINE W == UNION {{v[t]} : t \in T}
<1>2. IsFiniteSet(Units(v, T))
  <2> DEFINE F == [t \in T |-> {t} \X (1 .. v[t])]
             R == {F[t] : t \in T}
  <2>1. F \in Surjection(T, R)  BY DEF Surjection
  <2>2. IsFiniteSet(R)  BY <1>1, <2>1, FS_Surjection
  <2>3. ASSUME NEW X \in R PROVE IsFiniteSet(X)
    <3>1. PICK t \in T : X = {t} \X (1 .. v[t])  OBVIOUS
    <3>2. IsFiniteSet({t})  BY FS_Singleton
    <3>3. IsFiniteSet(1 .. v[t])  BY FS_Interval
    <3> QED  BY <3>1, <3>2, <3>3, FS_Product
  <2>4. IsFiniteSet(UNION R)  BY <2>2, <2>3, FS_UNION
  <2>5. UNION R = Units(v, T)  BY DEF Units
  <2> QED  BY <2>4, <2>5
<1> QED  BY <1>2, FS_CardinalityType

LEMMA UnitsUnion ==
  ASSUME NEW S, IsFiniteSet(S), NEW v \in [S -> Nat],
         NEW T \in SUBSET S, NEW U \in SUBSET S, T \cap U = {}
  PROVE  Cardinality(Units(v, T \cup U)) = Cardinality(Units(v, T)) + Cardinality(Units(v, U))
<1>1. Units(v, T \cup U) = Units(v, T) \cup Units(v, U)  BY DEF Units
<1>2. Units(v, T) \cap Units(v, U) = {}  BY DEF Units
<1>3. IsFiniteSet(Units(v, T)) /\ IsFiniteSet(Units(v, U))  BY UnitsFinite
<1>4. Cardinality(Units(v, T)) \in Nat /\ Cardinality(Units(v, U)) \in Nat  BY UnitsFinite
<1>5. Cardinality(Units(v, T) \cup Units(v, U))
        = Cardinality(Units(v, T)) + Cardinality(Units(v, U)) - Cardinality(Units(v, T) \cap Units(v, U))
  BY <1>3, FS_Union
<1>6. Cardinality({}) = 0  BY FS_EmptySet
<1> DEFINE m == Cardinality(Units(v, T))
           n == Cardinality(Units(v, U))
<1>7. m \in Nat /\ n \in Nat /\ Cardinality(Units(v, T) \cup Units(v, U)) = m + n - 0
  BY <1>2, <1>4, <1>5, <1>6
<1> HIDE DEF m, n
<1>8. m + n - 0 = m + n  BY <1>7
<1>9. Cardinality(Units(v, T \cup U)) = m + n  BY <1>1, <1>7, <1>8
<1> QED  BY <1>9 DEF m, n

LEMMA UnitsSingleton ==
  ASSUME NEW S, NEW v \in [S -> Nat], NEW t \in S
  PROVE  Cardinality(Units(v, {t})) = v[t]
<1>1. Units(v, {t}) = {t} \X (1 .. v[t])  BY DEF Units
<1>2. IsFiniteSet({t}) /\ Cardinality({t}) = 1  BY FS_Singleton
<1>3. v[t] \in Nat  OBVIOUS
<1>4. IsFiniteSet(1 .. v[t]) /\ Cardinality(1 .. v[t]) = v[t]  BY <1>3, FS_Interval
<1> DEFINE C == 1 .. v[t]
<1> HIDE DEF C
<1>5. Cardinality({t} \X C) = Cardinality({t}) * Cardinality(C)
  BY <1>2, <1>4, FS_Product DEF C
<1>6. Cardinality({t}) * Cardinality(C) = v[t]  BY <1>2, <1>3, <1>4 DEF C
<1> QED  BY <1>1, <1>5, <1>6 DEF C

\* The sum of the values of the elements of T.
SumOf(v, T) == MapThenSumSet(LAMBDA t : v[t], T)

\* The sum of the community modules, which is defined by recursion, counts
\* the units.
LEMMA SumIsUnits ==
  ASSUME NEW S, IsFiniteSet(S), NEW v \in [S -> Nat], NEW T \in SUBSET S
  PROVE  SumOf(v, T) = Cardinality(Units(v, T))
<1> DEFINE pick(s) == CHOOSE x \in s : TRUE
           Folds(f) == f = [s \in SUBSET T |-> IF s = {} THEN 0 ELSE v[pick(s)] + f[s \ {pick(s)}]]
           g == [s \in SUBSET T |-> Cardinality(Units(v, s))]
<1>1. SumOf(v, T) = (CHOOSE f : Folds(f))[T]
  BY DEF SumOf, MapThenSumSet, MapThenFoldSet
<1>2. Folds(g)
  <2> SUFFICES ASSUME NEW s \in SUBSET T
               PROVE  Cardinality(Units(v, s)) = IF s = {} THEN 0 ELSE v[pick(s)] + Cardinality(Units(v, s \ {pick(s)}))
    OBVIOUS
  <2>1. CASE s = {}
    <3>1. Units(v, s) = {}  BY <2>1 DEF Units
    <3> QED  BY <2>1, <3>1, FS_EmptySet
  <2>2. CASE s # {}
    <3>1. pick(s) \in s  BY <2>2
    <3> DEFINE x == pick(s)
    <3> HIDE DEF x
    <3>2. x \in s  BY <3>1 DEF x
    <3>3. s = {x} \cup (s \ {x})  BY <3>2
    <3>4. Cardinality(Units(v, {x} \cup (s \ {x}))) = Cardinality(Units(v, {x})) + Cardinality(Units(v, s \ {x}))
      BY <3>2, UnitsUnion
    <3>5. Cardinality(Units(v, {x})) = v[x]  BY <3>2, UnitsSingleton
    <3> QED  BY <2>2, <3>3, <3>4, <3>5 DEF x
  <2> QED  BY <2>1, <2>2
<1> DEFINE f == CHOOSE h : Folds(h)
<1>3. Folds(f)  BY <1>2
<1> HIDE DEF f, g
<1>4. \A s \in SUBSET T : f[s] = g[s]
  <2> SUFFICES ASSUME {s \in SUBSET T : f[s] # g[s]} # {} PROVE FALSE
    OBVIOUS
  <2> DEFINE B == {s \in SUBSET T : f[s] # g[s]}
  <2>1. IsFiniteSet(T)  BY FS_Subset
  <2>2. IsWellFoundedOn(StrictSubsetOrdering(T), SUBSET T)
    BY <2>1, FS_StrictSubsetOrderingWellFounded, FS_FiniteSubsetsOfFinite
  <2>3. PICK s \in B : \A y \in B : ~(<<y, s>> \in StrictSubsetOrdering(T))
    BY <2>2, WFMin
  <2>4. s # {}
    <3>1. SUFFICES ASSUME s = {} PROVE FALSE  OBVIOUS
    <3>2. f[s] = 0  BY <3>1, <1>3
    <3>3. g[s] = 0  BY <3>1, <1>2
    <3> QED  BY <3>2, <3>3
  <2> DEFINE x == pick(s)
  <2>5. x \in s  BY <2>4
  <2>6. f[s] = v[x] + f[s \ {x}] /\ g[s] = v[x] + g[s \ {x}]
    BY <2>4, <1>2, <1>3
  <2> HIDE DEF x
  <2>7. s \ {x} \in SUBSET T /\ s \ {x} \subseteq s /\ s \ {x} # s  BY <2>5
  <2>8. <<s \ {x}, s>> \in StrictSubsetOrdering(T)
    BY <2>7 DEF StrictSubsetOrdering
  <2>9. f[s \ {x}] = g[s \ {x}]  BY <2>3, <2>7, <2>8
  <2> QED  BY <2>6, <2>9, <2>3
<1>5. g[T] = Cardinality(Units(v, T))  BY DEF g
<1> QED  BY <1>1, <1>4, <1>5 DEF f

LEMMA SumNat ==
  ASSUME NEW S, IsFiniteSet(S), NEW v \in [S -> Nat], NEW T \in SUBSET S
  PROVE  SumOf(v, T) \in Nat
BY SumIsUnits, UnitsFinite

LEMMA SumEmpty ==
  ASSUME NEW S, IsFiniteSet(S), NEW v \in [S -> Nat]
  PROVE  SumOf(v, {}) = 0
<1>1. Units(v, {}) = {}  BY DEF Units
<1>2. Cardinality({}) = 0  BY FS_EmptySet
<1> QED  BY <1>1, <1>2, SumIsUnits

LEMMA SumSingleton ==
  ASSUME NEW S, IsFiniteSet(S), NEW v \in [S -> Nat], NEW t \in S
  PROVE  SumOf(v, {t}) = v[t]
BY SumIsUnits, UnitsSingleton

LEMMA SumUnion ==
  ASSUME NEW S, IsFiniteSet(S), NEW v \in [S -> Nat],
         NEW T \in SUBSET S, NEW U \in SUBSET S, T \cap U = {}
  PROVE  SumOf(v, T \cup U) = SumOf(v, T) + SumOf(v, U)
<1>1. T \cup U \in SUBSET S  OBVIOUS
<1>2. SumOf(v, T \cup U) = Cardinality(Units(v, T \cup U))  BY <1>1, SumIsUnits
<1>3. SumOf(v, T) = Cardinality(Units(v, T))  BY SumIsUnits
<1>4. SumOf(v, U) = Cardinality(Units(v, U))  BY SumIsUnits
<1> QED  BY <1>2, <1>3, <1>4, UnitsUnion

\* A sum depends on the values of the elements only.
LEMMA SumSame ==
  ASSUME NEW S, IsFiniteSet(S), NEW v \in [S -> Nat], NEW w \in [S -> Nat],
         NEW T \in SUBSET S, \A t \in T : v[t] = w[t]
  PROVE  SumOf(v, T) = SumOf(w, T)
<1>1. Units(v, T) = Units(w, T)  BY DEF Units
<1> QED  BY <1>1, SumIsUnits

\* The value of one element changes.
LEMMA SumChanged ==
  ASSUME NEW S, IsFiniteSet(S), NEW v \in [S -> Nat], NEW w \in [S -> Nat],
         NEW s \in S, \A t \in S \ {s} : v[t] = w[t]
  PROVE  SumOf(w, S) = SumOf(v, S) - v[s] + w[s]
<1> DEFINE R == S \ {s}
<1>1. R \in SUBSET S /\ {s} \in SUBSET S /\ R \cap {s} = {} /\ S = R \cup {s}  OBVIOUS
<1>2. SumOf(v, R) = SumOf(w, R)  BY <1>1, SumSame
<1> HIDE DEF R
<1>3. SumOf(v, R \cup {s}) = SumOf(v, R) + SumOf(v, {s})  BY <1>1, SumUnion
<1>4. SumOf(w, R \cup {s}) = SumOf(w, R) + SumOf(w, {s})  BY <1>1, SumUnion
<1>5. SumOf(v, {s}) = v[s] /\ SumOf(w, {s}) = w[s]  BY SumSingleton
<1>6. SumOf(v, R) \in Nat /\ v[s] \in Nat /\ w[s] \in Nat  BY <1>1, SumNat
<1>7. SumOf(v, S) = SumOf(v, R) + v[s] /\ SumOf(w, S) = SumOf(v, R) + w[s]
  BY <1>1, <1>2, <1>3, <1>4, <1>5
<1> QED  BY <1>6, <1>7

\* All elements have the same value.
LEMMA SumConstant ==
  ASSUME NEW S, IsFiniteSet(S), NEW k \in Nat
  PROVE  SumOf([s \in S |-> k], S) = k * Cardinality(S)
<1> DEFINE v == [s \in S |-> k]
           C == 1 .. k
<1>1. Units(v, S) = S \X C  BY DEF Units
<1>2. v \in [S -> Nat] /\ S \in SUBSET S  OBVIOUS
<1>3. IsFiniteSet(C) /\ Cardinality(C) = k  BY FS_Interval
<1>4. Cardinality(S) \in Nat  BY FS_CardinalityType
<1> HIDE DEF v, C
<1>5. SumOf(v, S) = Cardinality(S \X C)  BY <1>1, <1>2, SumIsUnits
<1>6. Cardinality(S \X C) = Cardinality(S) * Cardinality(C)  BY <1>3, FS_Product
<1>7. Cardinality(S) * Cardinality(C) = k * Cardinality(S)
  <2> DEFINE n == Cardinality(S)
  <2>1. n \in Nat /\ Cardinality(C) = k  BY <1>3, <1>4
  <2> HIDE DEF n
  <2>2. n * k = k * n  BY <2>1
  <2> QED  BY <2>1, <2>2 DEF n
<1> QED  BY <1>5, <1>6, <1>7 DEF v

\* Unless it is empty, a set that holds no two elements has one.
LEMMA AtMostOne ==
  ASSUME NEW S, \A x, y \in S : x = y
  PROVE  /\ S = {} => Cardinality(S) = 0
         /\ S # {} => Cardinality(S) = 1
<1>1. S # {} => \E x : S = {x}  OBVIOUS
<1> QED  BY <1>1, FS_EmptySet, FS_Singleton

\* A finite set of numbers that is not empty has a greatest element.
LEMMA GreatestElement ==
  ASSUME NEW S \in SUBSET Nat, IsFiniteSet(S), S # {}
  PROVE  \E x \in S : \A y \in S : y <= x
<1> DEFINE Greatest(T) == \E x \in T : \A y \in T : y <= x
           B == {T \in SUBSET S : T # {} /\ ~Greatest(T)}
<1>1. SUFFICES ASSUME B # {} PROVE FALSE  OBVIOUS
<1>2. IsWellFoundedOn(StrictSubsetOrdering(S), SUBSET S)
  BY FS_StrictSubsetOrderingWellFounded, FS_FiniteSubsetsOfFinite
<1>3. PICK T \in B : \A U \in B : ~(<<U, T>> \in StrictSubsetOrdering(S))
  BY <1>1, <1>2, WFMin
<1>4. PICK x \in T : TRUE  BY <1>3
<1>5. CASE T = {x}
  <2>1. x <= x  BY <1>4
  <2> QED  BY <1>3, <1>5, <2>1
<1>6. CASE T # {x}
  <2> DEFINE U == T \ {x}
  <2>1. U \in SUBSET S /\ U # {}  BY <1>4, <1>6
  <2>2. <<U, T>> \in StrictSubsetOrdering(S)  BY <1>3, <1>4 DEF StrictSubsetOrdering
  <2>3. Greatest(U)  BY <1>3, <2>1, <2>2
  <2>4. PICK y \in U : \A z \in U : z <= y  BY <2>3
  <2>5. x \in Nat /\ y \in Nat /\ y \in T  BY <1>3, <1>4, <2>4
  <2>6. CASE x <= y
    <3>1. \A z \in T : z <= y  BY <2>4, <2>6
    <3> QED  BY <1>3, <2>5, <3>1
  <2>7. CASE ~(x <= y)
    <3>1. \A z \in T : z \in Nat /\ z <= x  BY <1>3, <2>4, <2>5, <2>7
    <3> QED  BY <1>3, <1>4, <3>1
  <2> QED  BY <2>6, <2>7
<1> QED  BY <1>5, <1>6
==============================================================================
