------------------------------- MODULE SumLemmas -------------------------------
(***************************************************************************)
(* How a sum changes when one row is written.                              *)
(***************************************************************************)
EXTENDS Sums, FiniteSetTheorems, TLAPS

(* A column: finitely many rows, natural numbers. *)
Column(f) == IsFiniteSet(DOMAIN f) /\ f \in [DOMAIN f -> Nat]

(* The units that do not belong to row x. *)
Others(f, x) == UnitsOf(f, DOMAIN f \ {x})

LEMMA UnitsFinite ==
    ASSUME NEW f, Column(f), NEW S \in SUBSET DOMAIN f
    PROVE  IsFiniteSet(UnitsOf(f, S))
<1> DEFINE unitsOf == [x \in S |-> {x} \X (1..f[x])]
           T == {unitsOf[x] : x \in S}
<1>1. IsFiniteSet(S)
  BY FS_Subset DEF Column
<1>2. unitsOf \in Surjection(S, T)
  BY DEF Surjection
<1>3. IsFiniteSet(T)
  BY <1>1, <1>2, FS_Surjection
<1>4. ASSUME NEW x \in S PROVE IsFiniteSet({x} \X (1..f[x]))
  <2>1. f[x] \in Nat /\ IsFiniteSet({x})
    BY FS_Singleton DEF Column
  <2>2. IsFiniteSet(1..f[x])
    BY <2>1, FS_Interval
  <2> QED
    BY <2>1, <2>2, FS_Product
<1>5. IsFiniteSet(UNION T)
  BY <1>3, <1>4, FS_UNION
<1> QED
  BY <1>5 DEF UnitsOf

(* A sum is what row x adds and what all others add. *)
LEMMA TotalSplit ==
    ASSUME NEW f, Column(f), NEW x \in DOMAIN f
    PROVE  /\ Cardinality(Others(f, x)) \in Nat
           /\ Total(f) = f[x] + Cardinality(Others(f, x))
<1> DEFINE own == {x} \X (1..f[x])
           rest == Others(f, x)
<1>1. IsFiniteSet(rest)
  BY UnitsFinite DEF Others
<1>2. f[x] \in Nat
  BY DEF Column
<1>3. IsFiniteSet(own) /\ Cardinality(own) = f[x]
  <2>1. IsFiniteSet({x}) /\ Cardinality({x}) = 1
    BY FS_Singleton
  <2>2. IsFiniteSet(1..f[x]) /\ Cardinality(1..f[x]) = f[x]
    BY <1>2, FS_Interval
  <2>3. IsFiniteSet(own) /\ Cardinality(own) = 1 * Cardinality(1..f[x])
    BY <2>1, <2>2, FS_Product
  <2> QED
    BY <1>2, <2>2, <2>3
<1>4. own \cap rest = {}
  BY DEF Others, UnitsOf
<1>5. Total(f) = Cardinality(rest \cup own)
  <2>1. UnitsOf(f, DOMAIN f) = rest \cup own
    BY DEF Others, UnitsOf
  <2> QED
    BY <2>1 DEF Total
<1>6. Cardinality(rest) \in Nat
  BY <1>1, FS_CardinalityType
<1>7. Cardinality(rest \cup own) = Cardinality(rest) + Cardinality(own) - Cardinality({})
  <2>1. rest \cap own = {}
    BY <1>4
  <2> HIDE DEF rest, own
  <2> QED
    BY <1>1, <1>3, <2>1, FS_Union
<1>8. Cardinality({}) = 0
  BY FS_EmptySet
<1> HIDE DEF rest, own
<1> QED
  BY <1>2, <1>3, <1>5, <1>6, <1>7, <1>8 DEF rest

LEMMA TotalNat ==
    ASSUME NEW f, Column(f)
    PROVE  Total(f) \in Nat
BY UnitsFinite, FS_CardinalityType DEF Total

(* One row is updated, no row comes or goes. *)
LEMMA TotalUpdate ==
    ASSUME NEW f, NEW g, Column(f), Column(g), DOMAIN g = DOMAIN f, NEW x \in DOMAIN f,
           \A y \in DOMAIN f : y # x => g[y] = f[y]
    PROVE  Total(g) = Total(f) + g[x] - f[x]
<1>1. Others(g, x) = Others(f, x)
  BY DEF Others, UnitsOf
<1>2. f[x] \in Nat /\ g[x] \in Nat
  BY DEF Column
<1> QED
  BY <1>1, <1>2, TotalSplit

(* One row is inserted. *)
LEMMA TotalInsert ==
    ASSUME NEW f, NEW g, Column(f), Column(g), NEW x, x \notin DOMAIN f,
           DOMAIN g = DOMAIN f \cup {x}, \A y \in DOMAIN f : g[y] = f[y]
    PROVE  Total(g) = Total(f) + g[x]
<1>1. Others(g, x) = UnitsOf(f, DOMAIN f)
  BY DEF Others, UnitsOf
<1>2. g[x] \in Nat /\ Total(f) \in Nat
  BY TotalNat DEF Column
<1> QED
  BY <1>1, <1>2, TotalSplit DEF Total

LEMMA TotalEmpty == ASSUME NEW f, DOMAIN f = {} PROVE Total(f) = 0
BY FS_EmptySet DEF Total, UnitsOf
===============================================================================
