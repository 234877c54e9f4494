------------------------- MODULE ReconciliationProofs -------------------------
(***************************************************************************)
(* Theorems about Reconciliation, for every set of users, amounts and      *)
(* trades, every scale and precision.                                      *)
(***************************************************************************)
EXTENDS Reconciliation, SumLemmas

-------------------------------------------------------------------------------
(* Rounding *)

LEMMA DivFacts ==
    ASSUME NEW n \in Int, NEW d \in Nat \ {0}
    PROVE  /\ n \div d \in Int
           /\ d * (n \div d) <= n
           /\ n < d * (n \div d) + d
OBVIOUS

LEMMA MonotoneProduct ==
    ASSUME NEW x \in Int, NEW y \in Int, NEW d \in Nat \ {0}, x * d < y * d
    PROVE  x < y
<1>1. SUFFICES ASSUME y <= x PROVE FALSE
  OBVIOUS
<1>2. PICK k \in Nat : x = y + k
  BY <1>1
<1>3. x * d = y * d + k * d /\ k * d \in Nat /\ y * d \in Int
  BY <1>2
<1> QED
  BY <1>3

(* A unit u comes out of fmt8f exactly when it is no further off than half a unit. *)
LEMMA Fmt8fNearest ==
    ASSUME NEW n \in Int, NEW u
    PROVE  u \in fmt8f(n) <=> /\ u \in Int
                              /\ 2 * (n - u * Scale) <= Scale
                              /\ 2 * (u * Scale - n) <= Scale
<1> DEFINE down == n \div Scale
<1>1. Scale \in Nat \ {0}
  BY ScaleAssumption
<1>2. down \in Int /\ Scale * down <= n /\ n < Scale * down + Scale
  BY <1>1, DivFacts
<1>3. ASSUME u \in Int, 2 * (n - u * Scale) <= Scale, 2 * (u * Scale - n) <= Scale
      PROVE  u \in {down, down + 1}
  <2> DEFINE us == u * Scale
             ds == Scale * down
  <2>1. us \in Int /\ ds \in Int
    BY <1>1, <1>2, <1>3
  <2>2. ds < us + Scale /\ us < ds + 2 * Scale
    <3> HIDE DEF down, us, ds
    <3> QED
      BY <1>1, <1>2, <1>3, <2>1 DEF us, ds
  <2> HIDE DEF down
  <2>3. down * Scale < (u + 1) * Scale /\ u * Scale < (down + 2) * Scale
    BY <1>1, <1>2, <1>3, <2>2
  <2>4. down < u + 1 /\ u < down + 2
    BY <1>1, <1>2, <1>3, <2>3, MonotoneProduct
  <2> QED
    BY <1>2, <1>3, <2>4
<1> QED
  BY <1>2, <1>3 DEF fmt8f

LEMMA MonotoneProductLeq ==
    ASSUME NEW x \in Int, NEW y \in Int, NEW d \in Nat, x <= y
    PROVE  x * d <= y * d
<1>1. PICK k \in Nat : y = x + k
  OBVIOUS
<1>2. y * d = x * d + k * d /\ k * d \in Nat /\ x * d \in Int
  BY <1>1
<1> QED
  BY <1>2

LEMMA UnitType == Unit \in Nat \ {0} /\ Scale \in Nat \ {0} /\ Precision \in Nat \ {0}
BY ScaleAssumption, ReconciliationConstants DEF Unit

(* In a range of units as wide as formatAmount looks at is every unit that is near enough. *)
LEMMA NearInRange ==
    ASSUME NEW x \in Int, NEW e \in Nat, NEW u \in Int,
           2 * (x - e - u * Unit) <= Unit, 2 * (u * Unit - x - e) <= Unit
    PROVE  u \in ((x - e) \div Unit)..((x + e) \div Unit + 1)
<1> DEFINE lo == (x - e) \div Unit
           hi == (x + e) \div Unit
           us == u * Unit
<1>1. Unit \in Nat \ {0}
  BY UnitType
<1>2. x - e \in Int /\ x + e \in Int
  OBVIOUS
<1>3. /\ lo \in Int /\ x - e < Unit * lo + Unit /\ Unit * lo <= x - e
      /\ hi \in Int /\ x + e < Unit * hi + Unit
  BY <1>1, <1>2, DivFacts
<1> HIDE DEF lo, hi
<1> DEFINE ls == Unit * lo
           hs == Unit * hi
<1>4. us \in Int /\ ls \in Int /\ hs \in Int
  BY <1>1, <1>3
<1>5. ls < us + Unit /\ us < hs + 2 * Unit
  <2> HIDE DEF us, ls, hs
  <2> QED
    BY <1>1, <1>3, <1>4 DEF us, ls, hs
<1>6. lo * Unit < (u + 1) * Unit /\ u * Unit < (hi + 2) * Unit
  BY <1>1, <1>3, <1>5
<1>7. lo < u + 1 /\ u < hi + 2
  BY <1>1, <1>3, <1>6, MonotoneProduct
<1>8. u \in lo..(hi + 1)
  BY <1>3, <1>7
<1> QED
  BY <1>8 DEF lo, hi

(* A unit comes out of formatAmount exactly when some number within the error rounds to it. *)
LEMMA FormatNearest ==
    ASSUME NEW x \in Int, NEW e \in Nat, NEW u
    PROVE  u \in formatAmount(x, e) <=> /\ u \in Int
                                        /\ 2 * (x - e - u * Unit) <= Unit
                                        /\ 2 * (u * Unit - x - e) <= Unit
<1>1. ASSUME u \in formatAmount(x, e) PROVE u \in Int
  <2>1. (x - e) \div Unit \in Int /\ (x + e) \div Unit \in Int
    BY UnitType, DivFacts
  <2> QED
    BY <1>1, <2>1 DEF formatAmount
<1> QED
  BY <1>1, NearInRange DEF formatAmount

LEMMA FormatFinite ==
    ASSUME NEW x \in Int, NEW e \in Nat
    PROVE  IsFiniteSet(formatAmount(x, e))
<1> DEFINE lo == (x - e) \div Unit
           hi == (x + e) \div Unit
<1>1. lo \in Int /\ hi \in Int
  BY UnitType, DivFacts
<1>2. formatAmount(x, e) \subseteq lo..(hi + 1)
  BY DEF formatAmount
<1> HIDE DEF lo, hi
<1>3. IsFiniteSet(lo..(hi + 1))
  BY <1>1, FS_Interval
<1> QED
  BY <1>2, <1>3, FS_Subset

(* Two outcomes of one rounding are no further apart than its spread. *)
LEMMA OutcomesWithinSpread ==
    ASSUME NEW x \in Int, NEW e \in Nat,
           NEW a \in formatAmount(x, e), NEW b \in formatAmount(x, e)
    PROVE  /\ Spread(formatAmount(x, e)) \in Nat
           /\ a - b <= Spread(formatAmount(x, e))
<1> DEFINE F == formatAmount(x, e)
<1>1. Unit \in Nat \ {0} /\ a \in Int /\ b \in Int
  BY UnitType, FormatNearest
<1>2. IsFiniteSet(F)
  BY FormatFinite
<1>3. Cardinality(F) \in Nat /\ Cardinality(F) # 0
  BY <1>2, FS_CardinalityType, FS_EmptySet
<1>4. CASE a <= b
  <2> HIDE DEF F
  <2> QED
    BY <1>1, <1>3, <1>4 DEF Spread, F
<1>5. CASE b < a
  <2>1. ASSUME NEW c \in b..a PROVE c \in F
    <3>1. c \in Int /\ b <= c /\ c <= a
      BY <1>1
    <3>2. b * Unit <= c * Unit /\ c * Unit <= a * Unit
      BY <1>1, <3>1, MonotoneProductLeq
    <3> DEFINE as == a * Unit
               bs == b * Unit
               cs == c * Unit
    <3>3. as \in Int /\ bs \in Int /\ cs \in Int
      BY <1>1, <3>1
    <3>4. 2 * (x - e - bs) <= Unit /\ 2 * (as - x - e) <= Unit
      BY FormatNearest
    <3>5. 2 * (x - e - cs) <= Unit /\ 2 * (cs - x - e) <= Unit
      <4> HIDE DEF as, bs, cs
      <4> QED
        BY <1>1, <3>2, <3>3, <3>4 DEF as, bs, cs
    <3> QED
      BY <3>1, <3>5, FormatNearest
  <2>2. Cardinality(b..a) <= Cardinality(F)
    BY <1>2, <2>1, FS_Subset
  <2>3. Cardinality(b..a) = a - b + 1
    BY <1>1, <1>5, FS_Interval
  <2> HIDE DEF F
  <2> QED
    BY <1>1, <1>3, <2>2, <2>3 DEF Spread, F
<1> QED
  BY <1>1, <1>4, <1>5

(* What is not negative is not printed as a negative number. *)
LEMMA FormatNat ==
    ASSUME NEW x \in Nat, NEW e \in Nat, e <= x
    PROVE  formatAmount(x, e) \subseteq Nat
<1> SUFFICES ASSUME NEW u \in formatAmount(x, e) PROVE u \in Nat
  OBVIOUS
<1>1. Unit \in Nat \ {0} /\ u \in Int /\ 2 * (x - e - u * Unit) <= Unit
  BY UnitType, FormatNearest
<1> DEFINE us == u * Unit
<1>2. us \in Int
  BY <1>1
<1>3. 0 < us + Unit
  <2> HIDE DEF us
  <2> QED
    BY <1>1, <1>2 DEF us
<1>4. 0 * Unit < (u + 1) * Unit
  BY <1>1, <1>3
<1>5. 0 < u + 1
  BY <1>1, <1>4, MonotoneProduct
<1> QED
  BY <1>1, <1>5

(* One rounding of n, in 1/Unit, is no more than n. *)
LEMMA FineType ==
    ASSUME NEW n \in Nat
    PROVE  n * Precision \in Nat /\ n <= n * Precision
<1>1. PICK p \in Nat : Precision = p + 1
  BY UnitType
<1>2. n * Precision = n * p + n /\ n * p \in Nat
  BY <1>1
<1> QED
  BY <1>2

LEMMA ParsedNat ==
    ASSUME NEW n \in Nat
    PROVE  Parsed(n) \subseteq Nat
BY FineType, FormatNat DEF Parsed

LEMMA FineFacts ==
    ASSUME NEW n \in Int, NEW u \in Int
    PROVE  /\ n * Precision \in Int
           /\ u * Unit = (u * Scale) * Precision
           /\ (n - u * Scale) * Precision = n * Precision - u * Unit
           /\ (u * Scale - n) * Precision = u * Unit - n * Precision
<1>1. Scale \in Nat /\ Precision \in Nat
  BY UnitType
<1>2. u * (Scale * Precision) = (u * Scale) * Precision
  BY <1>1
<1> DEFINE us == u * Scale
<1>3. us \in Int
  BY <1>1
<1> HIDE DEF us
<1>4. /\ (n - us) * Precision = n * Precision - us * Precision
      /\ (us - n) * Precision = us * Precision - n * Precision
      /\ n * Precision \in Int
  BY <1>1, <1>3
<1> QED
  BY <1>2, <1>4 DEF us, Unit

(* Multiplying both sides by the precision. *)
LEMMA FineCompare ==
    ASSUME NEW a \in Int, NEW b \in Int
    PROVE  2 * a <= b <=> 2 * (a * Precision) <= b * Precision
<1>1. Precision \in Nat \ {0}
  BY UnitType
<1>2. (2 * a) * Precision = 2 * (a * Precision) /\ 2 * a \in Int
  BY <1>1
<1>3. 2 * a <= b => (2 * a) * Precision <= b * Precision
  BY <1>1, <1>2, MonotoneProductLeq
<1>4. b < 2 * a => b * Precision < (2 * a) * Precision
  <2>1. ASSUME b < 2 * a PROVE b * Precision < (2 * a) * Precision
    <3>1. b + 1 <= 2 * a /\ b + 1 \in Int
      BY <1>2, <2>1
    <3>2. (b + 1) * Precision <= (2 * a) * Precision
      BY <1>1, <1>2, <3>1, MonotoneProductLeq
    <3>3. (b + 1) * Precision = b * Precision + Precision /\ b * Precision \in Int
      BY <1>1
    <3> DEFINE bp == b * Precision
               ap == (2 * a) * Precision
    <3>4. bp \in Int /\ ap \in Int /\ bp + Precision <= ap
      BY <1>1, <1>2, <3>2, <3>3
    <3> HIDE DEF bp, ap
    <3>5. bp < ap
      BY <1>1, <3>4
    <3> QED
      BY <3>5 DEF bp, ap
  <2> QED
    BY <2>1
<1> DEFINE l == 2 * a
           ap == (2 * a) * Precision
           bp == b * Precision
<1>5. l \in Int /\ ap \in Int /\ bp \in Int
  BY <1>1, <1>2
<1>6. (l <= b => ap <= bp) /\ (b < l => bp < ap)
  BY <1>3, <1>4
<1> HIDE DEF l, ap, bp
<1>7. l <= b <=> ap <= bp
  BY <1>5, <1>6
<1> QED
  BY <1>2, <1>7 DEF l, ap, bp

(* The engine's print is one without an error. *)
LEMMA Fmt8fIsFormat ==
    ASSUME NEW n \in Int
    PROVE  fmt8f(n) = formatAmount(n * Precision, 0)
<1>1. ASSUME NEW u PROVE u \in fmt8f(n) <=> u \in formatAmount(n * Precision, 0)
  <2>1. n * Precision \in Int /\ Scale \in Nat \ {0} /\ Unit \in Nat \ {0}
    BY UnitType
  <2>2. u \in formatAmount(n * Precision, 0) <=> /\ u \in Int
                                     /\ 2 * (n * Precision - 0 - u * Unit) <= Unit
                                     /\ 2 * (u * Unit - n * Precision - 0) <= Unit
    BY <2>1, FormatNearest
  <2>3. ASSUME u \in Int
        PROVE  /\ 2 * (n - u * Scale) <= Scale <=> 2 * (n * Precision - 0 - u * Unit) <= Unit
               /\ 2 * (u * Scale - n) <= Scale <=> 2 * (u * Unit - n * Precision - 0) <= Unit
    <3> DEFINE down == n - u * Scale
               up == u * Scale - n
    <3>1. down \in Int /\ up \in Int
      BY <2>1, <2>3
    <3>2. /\ n * Precision - 0 - u * Unit = down * Precision
          /\ u * Unit - n * Precision - 0 = up * Precision
      <4>1. /\ down * Precision = n * Precision - u * Unit
            /\ up * Precision = u * Unit - n * Precision
        BY <2>3, FineFacts
      <4> DEFINE np == n * Precision
                 uu == u * Unit
      <4>2. np \in Int /\ uu \in Int
        BY <2>1, <2>3
      <4> HIDE DEF np, uu
      <4>3. np - 0 - uu = np - uu /\ uu - np - 0 = uu - np
        BY <4>2
      <4> QED
        BY <4>1, <4>3 DEF np, uu
    <3>3. Unit = Scale * Precision
      BY DEF Unit
    <3> HIDE DEF down, up
    <3>4. /\ 2 * down <= Scale <=> 2 * (down * Precision) <= Unit
          /\ 2 * up <= Scale <=> 2 * (up * Precision) <= Unit
      BY <2>1, <3>1, <3>3, FineCompare
    <3> QED
      BY <3>2, <3>4 DEF down, up
  <2> QED
    BY <2>2, <2>3, Fmt8fNearest
<1> QED
  BY <1>1

LEMMA FormatWithin ==
    ASSUME NEW x \in Int, NEW e \in Nat, NEW u \in formatAmount(x, 0)
    PROVE  u \in formatAmount(x, e)
<1>1. /\ Unit \in Nat \ {0} /\ u \in Int
      /\ 2 * (x - 0 - u * Unit) <= Unit /\ 2 * (u * Unit - x - 0) <= Unit
  BY UnitType, FormatNearest
<1> DEFINE us == u * Unit
<1>2. us \in Int
  BY <1>1
<1>3. 2 * (x - e - us) <= Unit /\ 2 * (us - x - e) <= Unit
  <2> HIDE DEF us
  <2> QED
    BY <1>1, <1>2 DEF us
<1> QED
  BY <1>1, <1>3, FormatNearest

(* There always is an outcome. *)
LEMMA FormatNonempty ==
    ASSUME NEW x \in Int
    PROVE  \E u : u \in formatAmount(x, 0)
<1> DEFINE d == x \div Unit
<1>1. Unit \in Nat \ {0}
  BY UnitType
<1>2. d \in Int /\ Unit * d <= x /\ x < Unit * d + Unit
  BY <1>1, DivFacts
<1> HIDE DEF d
<1> DEFINE ds == d * Unit
<1>3. ds \in Int /\ ds <= x /\ x < ds + Unit /\ (d + 1) * Unit = ds + Unit
  BY <1>1, <1>2
<1>4. CASE 2 * (x - ds) <= Unit
  <2>1. 2 * (x - 0 - ds) <= Unit /\ 2 * (ds - x - 0) <= Unit
    BY <1>1, <1>3, <1>4
  <2> QED
    BY <1>2, <2>1, FormatNearest
<1>5. CASE ~(2 * (x - ds) <= Unit)
  <2>1. 2 * (x - 0 - (ds + Unit)) <= Unit /\ 2 * ((ds + Unit) - x - 0) <= Unit
    <3> HIDE DEF ds
    <3> QED
      BY <1>1, <1>3, <1>5
  <2>2. d + 1 \in formatAmount(x, 0)
    BY <1>2, <1>3, <2>1, FormatNearest
  <2> QED
    BY <2>2
<1> QED
  BY <1>4, <1>5

(* Adding whole units, or subtracting from whole units, commutes with rounding. *)
LEMMA FormatShift ==
    ASSUME NEW m \in Int, NEW k \in Int, NEW a \in formatAmount(m, 0)
    PROVE  k + a \in formatAmount(k * Unit + m, 0) /\ k - a \in formatAmount(k * Unit - m, 0)
<1>1. /\ Unit \in Nat \ {0} /\ a \in Int
      /\ 2 * (m - 0 - a * Unit) <= Unit /\ 2 * (a * Unit - m - 0) <= Unit
  BY UnitType, FormatNearest
<1> DEFINE as == a * Unit
           ks == k * Unit
<1>2. /\ as \in Int /\ ks \in Int
      /\ (k + a) * Unit = ks + as /\ (k - a) * Unit = ks - as
  BY <1>1
<1>3. /\ 2 * ((ks + m) - 0 - (ks + as)) <= Unit /\ 2 * ((ks + as) - (ks + m) - 0) <= Unit
      /\ 2 * ((ks - m) - 0 - (ks - as)) <= Unit /\ 2 * ((ks - as) - (ks - m) - 0) <= Unit
  <2> HIDE DEF as, ks
  <2> QED
    BY <1>1, <1>2 DEF as
<1>4. ks + m \in Int /\ ks - m \in Int /\ k + a \in Int /\ k - a \in Int
  BY <1>1, <1>2
<1> QED
  BY <1>2, <1>3, <1>4, FormatNearest

(* The balance and the recorded amount of one deposit or withdrawal differ by no *)
(* more than the two roundings may.                                              *)
LEMMA CreditWithinSpread ==
    ASSUME NEW k \in Nat, NEW m \in Nat, NEW e1 \in Nat, NEW e2 \in Nat,
           NEW x, x = (k * Scale + m) * Precision, NEW y, y = m * Precision,
           NEW b \in formatAmount(x, e1), NEW a \in formatAmount(y, e2),
           NEW d, d = Spread(formatAmount(x, e1)) + Spread(formatAmount(y, e2))
    PROVE  d \in Nat /\ b - (k + a) <= d /\ (k + a) - b <= d
<1> DEFINE d1 == Spread(formatAmount(x, e1))
           d2 == Spread(formatAmount(y, e2))
<1>1. x \in Int /\ y \in Int /\ x = k * Unit + y
  <2>1. Scale \in Nat /\ Precision \in Nat
    BY UnitType
  <2>2. (k * Scale) * Precision = k * Unit /\ k * Scale \in Nat
    BY <2>1 DEF Unit
  <2> DEFINE ks == k * Scale
  <2> HIDE DEF ks
  <2>3. (ks + m) * Precision = ks * Precision + m * Precision
    BY <2>1, <2>2 DEF ks
  <2> QED
    BY <2>1, <2>2, <2>3 DEF ks
<1>2. PICK c : c \in formatAmount(y, 0)
  BY <1>1, FormatNonempty
<1>3. c \in formatAmount(y, e2) /\ k + c \in formatAmount(x, e1)
  BY <1>1, <1>2, FormatShift, FormatWithin
<1>4. a \in Int /\ b \in Int /\ c \in Int
  BY <1>1, <1>3, FormatNearest
<1>5. d1 \in Nat /\ d2 \in Nat /\ d = d1 + d2
  BY <1>1, OutcomesWithinSpread
<1>6. b - (k + c) <= d1 /\ (k + c) - b <= d1 /\ a - c <= d2 /\ c - a <= d2
  BY <1>1, <1>3, OutcomesWithinSpread
<1> HIDE DEF d1, d2
<1> QED
  BY <1>4, <1>5, <1>6

LEMMA DebitWithinSpread ==
    ASSUME NEW k \in Nat, NEW m \in Nat, NEW e1 \in Nat, NEW e2 \in Nat,
           NEW x, x = (k * Scale - m) * Precision, NEW y, y = m * Precision,
           NEW b \in formatAmount(x, e1), NEW a \in formatAmount(y, e2),
           NEW d, d = Spread(formatAmount(x, e1)) + Spread(formatAmount(y, e2))
    PROVE  d \in Nat /\ b - (k - a) <= d /\ (k - a) - b <= d
<1> DEFINE d1 == Spread(formatAmount(x, e1))
           d2 == Spread(formatAmount(y, e2))
<1>1. x \in Int /\ y \in Int /\ x = k * Unit - y
  <2>1. Scale \in Nat /\ Precision \in Nat
    BY UnitType
  <2>2. (k * Scale) * Precision = k * Unit /\ k * Scale \in Nat
    BY <2>1 DEF Unit
  <2> DEFINE ks == k * Scale
  <2> HIDE DEF ks
  <2>3. (ks - m) * Precision = ks * Precision - m * Precision
    BY <2>1, <2>2 DEF ks
  <2> QED
    BY <2>1, <2>2, <2>3 DEF ks
<1>2. PICK c : c \in formatAmount(y, 0)
  BY <1>1, FormatNonempty
<1>3. c \in formatAmount(y, e2) /\ k - c \in formatAmount(x, e1)
  BY <1>1, <1>2, FormatShift, FormatWithin
<1>4. a \in Int /\ b \in Int /\ c \in Int
  BY <1>1, <1>3, FormatNearest
<1>5. d1 \in Nat /\ d2 \in Nat /\ d = d1 + d2
  BY <1>1, OutcomesWithinSpread
<1>6. b - (k - c) <= d1 /\ (k - c) - b <= d1 /\ a - c <= d2 /\ c - a <= d2
  BY <1>1, <1>3, OutcomesWithinSpread
<1> HIDE DEF d1, d2
<1> QED
  BY <1>4, <1>5, <1>6

-------------------------------------------------------------------------------
(* The rows of wallet_transactions *)

RecordType == [user : Users, type : {"DEPOSIT", "WITHDRAWAL"}, amount : Nat, order : Nat]

RowsType(rows) == /\ IsFiniteSet(DOMAIN rows)
                  /\ DOMAIN rows \subseteq RecordType
                  /\ rows \in [DOMAIN rows -> Nat \ {0}]

Balanced(rows, u) == Total(AmountsOf(rows, u, {"DEPOSIT"})) - Total(AmountsOf(rows, u, {"WITHDRAWAL"}))

(* One row more of each of these. *)
OneMore(rows, rows2, new) ==
    /\ RowsType(rows2)
    /\ DOMAIN rows2 = DOMAIN rows \cup new
    /\ \A r \in DOMAIN rows : r \notin new => rows2[r] = rows[r]
    /\ \A r \in DOMAIN rows \cap new : rows2[r] = rows[r] + 1
    /\ \A r \in new : r \notin DOMAIN rows => rows2[r] = 1

LEMMA RowsWritten ==
    ASSUME NEW rows, RowsType(rows), NEW new \in SUBSET RecordType, IsFiniteSet(new),
           NEW rows2, rows2 = rows (+) SetToBag(new)
    PROVE  OneMore(rows, rows2, new)
<1>1. rows2 = [r \in DOMAIN rows \cup new |-> (IF r \in DOMAIN rows THEN rows[r] ELSE 0)
                                            + (IF r \in new THEN 1 ELSE 0)]
  BY DEF SetToBag, (+)
<1>2. \A r \in DOMAIN rows : rows[r] \in Nat \ {0}
  BY DEF RowsType
<1>3. DOMAIN rows2 = DOMAIN rows \cup new
  BY <1>1
<1>4. /\ \A r \in DOMAIN rows : r \notin new => rows2[r] = rows[r]
      /\ \A r \in DOMAIN rows \cap new : rows2[r] = rows[r] + 1
      /\ \A r \in new : r \notin DOMAIN rows => rows2[r] = 1
  BY <1>1, <1>2
<1>5. \A r \in DOMAIN rows2 : rows2[r] \in Nat \ {0}
  BY <1>2, <1>3, <1>4
<1>6. rows2 \in [DOMAIN rows2 -> Nat \ {0}]
  BY <1>1, <1>3, <1>5
<1>7. IsFiniteSet(DOMAIN rows2)
  BY <1>3, FS_Union DEF RowsType
<1> QED
  BY <1>3, <1>4, <1>6, <1>7 DEF RowsType, OneMore

AmountColumn(f, rows, u, types) ==
    /\ Column(f)
    /\ DOMAIN f = {r \in DOMAIN rows : r.user = u /\ r.type \in types}
    /\ \A r \in DOMAIN f : f[r] = r.amount * rows[r]

LEMMA AmountsAreColumn ==
    ASSUME NEW rows, RowsType(rows), NEW u, NEW types
    PROVE  AmountColumn(AmountsOf(rows, u, types), rows, u, types)
<1> DEFINE f == AmountsOf(rows, u, types)
           D == {r \in DOMAIN rows : r.user = u /\ r.type \in types}
<1>1. f = [r \in D |-> r.amount * rows[r]]
  BY DEF AmountsOf, BagToSet
<1>2. IsFiniteSet(D)
  BY FS_Subset DEF RowsType
<1>3. \A r \in D : r.amount * rows[r] \in Nat
  BY DEF RowsType, RecordType
<1> HIDE DEF f, D
<1>4. Column(f) /\ DOMAIN f = D /\ \A r \in D : f[r] = r.amount * rows[r]
  BY <1>1, <1>2, <1>3 DEF Column
<1> QED
  BY <1>4 DEF f, D, AmountColumn

(* No new row of these types: the sum stays. *)
LEMMA SumStays ==
    ASSUME NEW rows, RowsType(rows), NEW new \in SUBSET RecordType, IsFiniteSet(new),
           NEW rows2, rows2 = rows (+) SetToBag(new), NEW u, NEW types,
           \A r \in new : ~(r.user = u /\ r.type \in types)
    PROVE  Total(AmountsOf(rows2, u, types)) = Total(AmountsOf(rows, u, types))
<1> DEFINE D == {r \in DOMAIN rows : r.user = u /\ r.type \in types}
           D2 == {r \in DOMAIN rows2 : r.user = u /\ r.type \in types}
<1>1. OneMore(rows, rows2, new)
  BY RowsWritten
<1>2. \A r \in D : rows2[r] = rows[r]
  BY <1>1 DEF OneMore
<1>3. D = D2
  BY <1>1 DEF OneMore
<1>4. [r \in D2 |-> r.amount * rows2[r]] = [r \in D |-> r.amount * rows[r]]
  BY <1>2, <1>3
<1> QED
  BY <1>4 DEF AmountsOf, BagToSet

(* One new row of these types: the sum grows by its amount. *)
LEMMA SumGrows ==
    ASSUME NEW rows, RowsType(rows), NEW new \in SUBSET RecordType, IsFiniteSet(new),
           NEW rows2, rows2 = rows (+) SetToBag(new), NEW u, NEW types,
           NEW r \in new, r.user = u, r.type \in types,
           \A q \in new : q # r => ~(q.user = u /\ q.type \in types)
    PROVE  Total(AmountsOf(rows2, u, types)) = Total(AmountsOf(rows, u, types)) + r.amount
<1> DEFINE f == AmountsOf(rows, u, types)
           g == AmountsOf(rows2, u, types)
<1>0. OneMore(rows, rows2, new)
  BY RowsWritten
<1>1. /\ RowsType(rows2)
      /\ DOMAIN rows2 = DOMAIN rows \cup new
      /\ \A q \in DOMAIN rows : q \notin new => rows2[q] = rows[q]
      /\ r \in DOMAIN rows => rows2[r] = rows[r] + 1
      /\ r \notin DOMAIN rows => rows2[r] = 1
  BY <1>0 DEF OneMore
<1>a. AmountColumn(f, rows, u, types) /\ AmountColumn(g, rows2, u, types)
  BY <1>1, AmountsAreColumn
<1> HIDE DEF f, g
<1>2. /\ Column(f)
      /\ DOMAIN f = {q \in DOMAIN rows : q.user = u /\ q.type \in types}
      /\ \A q \in DOMAIN f : f[q] = q.amount * rows[q]
  BY <1>a DEF AmountColumn
<1>3. /\ Column(g)
      /\ DOMAIN g = {q \in DOMAIN rows2 : q.user = u /\ q.type \in types}
      /\ \A q \in DOMAIN g : g[q] = q.amount * rows2[q]
  BY <1>a DEF AmountColumn
<1>4. \A q \in DOMAIN f : q # r => g[q] = f[q]
  BY <1>1, <1>2, <1>3
<1>5. r \in DOMAIN g /\ g[r] = r.amount * rows2[r] /\ r.amount \in Nat
  BY <1>1, <1>3 DEF RecordType
<1>6. Total(f) \in Nat
  BY <1>2, TotalNat
<1>7. CASE r \in DOMAIN rows
  <2>1. DOMAIN g = DOMAIN f /\ r \in DOMAIN f
    BY <1>1, <1>2, <1>3, <1>7
  <2>2. Total(g) = Total(f) + g[r] - f[r]
    BY <1>2, <1>3, <1>4, <2>1, TotalUpdate
  <2>3. rows[r] \in Nat
    BY <1>7 DEF RowsType
  <2>4. f[r] = r.amount * rows[r] /\ g[r] = r.amount * (rows[r] + 1)
    BY <1>1, <1>2, <1>5, <1>7, <2>1
  <2>5. r.amount * (rows[r] + 1) = r.amount * rows[r] + r.amount /\ r.amount * rows[r] \in Nat
    BY <1>5, <2>3
  <2>6. f[r] \in Nat /\ g[r] = f[r] + r.amount
    BY <2>4, <2>5
  <2>7. Total(g) = Total(f) + r.amount
    BY <1>5, <1>6, <2>2, <2>6
  <2> QED
    BY <2>7 DEF f, g
<1>8. CASE r \notin DOMAIN rows
  <2>1. DOMAIN g = DOMAIN f \cup {r} /\ r \notin DOMAIN f
    BY <1>1, <1>2, <1>3, <1>8
  <2>2. Total(g) = Total(f) + g[r]
    BY <1>2, <1>3, <1>4, <2>1, TotalInsert
  <2>3. g[r] = r.amount
    BY <1>1, <1>5, <1>8
  <2> QED
    BY <2>2, <2>3 DEF f, g
<1> QED
  BY <1>7, <1>8

(* What new rows do to the balance that a user's rows add up to. *)
LEMMA BalancedStays ==
    ASSUME NEW rows, RowsType(rows), NEW new \in SUBSET RecordType, IsFiniteSet(new),
           NEW rows2, rows2 = rows (+) SetToBag(new), NEW u, \A r \in new : r.user # u
    PROVE  Balanced(rows2, u) = Balanced(rows, u)
<1>1. ASSUME NEW types PROVE Total(AmountsOf(rows2, u, types)) = Total(AmountsOf(rows, u, types))
  BY SumStays
<1> QED
  BY <1>1 DEF Balanced

LEMMA BalancedMoves ==
    ASSUME NEW rows, RowsType(rows), NEW new \in SUBSET RecordType, IsFiniteSet(new),
           NEW rows2, rows2 = rows (+) SetToBag(new), NEW u,
           NEW r \in new, r.user = u, \A q \in new : q # r => q.user # u
    PROVE  /\ Balanced(rows, u) \in Int
           /\ r.type = "DEPOSIT" => Balanced(rows2, u) = Balanced(rows, u) + r.amount
           /\ r.type = "WITHDRAWAL" => Balanced(rows2, u) = Balanced(rows, u) - r.amount
<1> DEFINE up(t) == Total(AmountsOf(t, u, {"DEPOSIT"}))
           down(t) == Total(AmountsOf(t, u, {"WITHDRAWAL"}))
<1>1. up(rows) \in Nat /\ down(rows) \in Nat /\ r.amount \in Nat
  BY AmountsAreColumn, TotalNat DEF RecordType, AmountColumn
<1>2. CASE r.type = "DEPOSIT"
  <2>1. up(rows2) = up(rows) + r.amount
    BY <1>2, SumGrows
  <2>2. down(rows2) = down(rows)
    BY <1>2, SumStays
  <2> HIDE DEF up, down
  <2> QED
    BY <1>1, <1>2, <2>1, <2>2 DEF Balanced, up, down
<1>3. CASE r.type = "WITHDRAWAL"
  <2>1. down(rows2) = down(rows) + r.amount
    BY <1>3, SumGrows
  <2>2. up(rows2) = up(rows)
    BY <1>3, SumStays
  <2> HIDE DEF up, down
  <2> QED
    BY <1>1, <1>3, <2>1, <2>2 DEF Balanced, up, down
<1> QED
  BY <1>1, <1>2, <1>3 DEF Balanced

-------------------------------------------------------------------------------
(* The books *)

BookTypes == /\ balance \in [Users -> Nat]
             /\ drift \in [Users -> Nat]
             /\ RowsType(records)

(* By itself inductive: what moves a balance writes the row, and counts the drift, too. *)
BooksInv == BookTypes /\ BooksAgree

(* How far a balance x may be off what its rows say, y, after one more rounding. *)
LEMMA DriftAdds ==
    ASSUME NEW x \in Int, NEW y \in Int, NEW b \in Int, NEW a \in Int,
           NEW D \in Nat, NEW d \in Nat,
           x - y <= D, y - x <= D, b - (x + a) <= d, (x + a) - b <= d
    PROVE  b - (y + a) <= D + d /\ (y + a) - b <= D + d
OBVIOUS

(* One wallet moves by s, the sign of its row, and the others stay. *)
LEMMA WalletMoves ==
    ASSUME BooksInv, NEW new \in SUBSET RecordType, IsFiniteSet(new),
           records' = records (+) SetToBag(new),
           NEW u \in Users, NEW r \in new, r.user = u, \A q \in new : q # r => q.user # u,
           NEW s \in Int, r.type = "DEPOSIT" => s = r.amount, r.type = "WITHDRAWAL" => s = -r.amount,
           NEW d \in Nat, NEW b \in Nat, balance'[u] = b, drift'[u] = drift[u] + d,
           b - (balance[u] + s) <= d, (balance[u] + s) - b <= d
    PROVE  balance'[u] - Expected(u)' <= drift'[u] /\ Expected(u)' - balance'[u] <= drift'[u]
<1> DEFINE old == Balanced(records, u)
           x == balance[u]
           y == InitBalance[u] + old
           D == drift[u]
<1>1. /\ x \in Nat /\ D \in Nat /\ RowsType(records) /\ InitBalance[u] \in Nat
      /\ r.amount \in Nat /\ r.type \in {"DEPOSIT", "WITHDRAWAL"}
  BY ReconciliationConstants DEF BooksInv, BookTypes, RecordType
<1>2. old \in Int /\ Balanced(records', u) = old + s
  <2>1. /\ old \in Int
        /\ r.type = "DEPOSIT" => Balanced(records', u) = old + r.amount
        /\ r.type = "WITHDRAWAL" => Balanced(records', u) = old - r.amount
    BY <1>1, BalancedMoves
  <2> HIDE DEF old
  <2> QED
    BY <1>1, <2>1
<1>3. Expected(u) = y /\ Expected(u)' = InitBalance[u] + Balanced(records', u)
  BY DEF Expected, RecordSum, Balanced
<1>4. x - y <= D /\ y - x <= D
  BY <1>3 DEF BooksInv, BooksAgree
<1> HIDE DEF old, x, D
<1>5. Expected(u)' = y + s /\ y \in Int
  BY <1>1, <1>2, <1>3
<1> HIDE DEF y
<1>6. b - (y + s) <= D + d /\ (y + s) - b <= D + d
  BY <1>1, <1>4, <1>5, DriftAdds DEF x
<1> QED
  BY <1>5, <1>6 DEF D

LEMMA WalletStays ==
    ASSUME BooksInv, NEW new \in SUBSET RecordType, IsFiniteSet(new),
           records' = records (+) SetToBag(new),
           NEW u \in Users, \A q \in new : q.user # u,
           balance'[u] = balance[u], drift'[u] = drift[u]
    PROVE  balance'[u] - Expected(u)' <= drift'[u] /\ Expected(u)' - balance'[u] <= drift'[u]
<1>1. Balanced(records', u) = Balanced(records, u)
  BY BalancedStays DEF BooksInv, BookTypes
<1>2. Expected(u)' = Expected(u)
  BY <1>1 DEF Expected, RecordSum, Balanced
<1> QED
  BY <1>2 DEF BooksInv, BooksAgree

LEMMA RecordTypes ==
    ASSUME NEW u \in Users, NEW type \in {"DEPOSIT", "WITHDRAWAL"}, NEW a \in Nat, NEW o \in Nat
    PROVE  /\ Record(u, type, a, o) \in RecordType
           /\ Record(u, type, a, o).user = u
           /\ Record(u, type, a, o).type = type
           /\ Record(u, type, a, o).amount = a
BY DEF Record, RecordType

(* A deposit or a withdrawal whose roundings keep within their spread. *)
LEMMA BookKeeps ==
    ASSUME BooksInv, NEW u \in Users, NEW type \in {"DEPOSIT", "WITHDRAWAL"},
           NEW balances, NEW amounts \in SUBSET Nat, Book(u, type, balances, amounts),
           NEW d \in Nat, Spread(balances) \in Int, Spread(amounts) \in Int,
           d = Spread(balances) + Spread(amounts),
           \A b \in balances, a \in amounts :
              LET s == IF type = "DEPOSIT" THEN a ELSE -a
              IN  b - (balance[u] + s) <= d /\ (balance[u] + s) - b <= d
    PROVE  BooksInv'
<1>1. PICK b \in balances \cap Nat : balance' = [balance EXCEPT ![u] = b]
  BY DEF Book
<1>2. PICK a \in amounts : records' = records (+) SetToBag({Record(u, type, a, 0)})
  BY DEF Book, Write
<1>3. drift' = [drift EXCEPT ![u] = @ + Spread(balances) + Spread(amounts)]
  BY DEF Book
<1> DEFINE r == Record(u, type, a, 0)
           s == IF type = "DEPOSIT" THEN a ELSE -a
<1>a. a \in Nat /\ 0 \in Nat
  OBVIOUS
<1>4. r \in RecordType /\ r.user = u /\ r.type = type /\ r.amount = a
  BY <1>a, RecordTypes
<1>5. IsFiniteSet({r}) /\ {r} \in SUBSET RecordType
  BY <1>4, FS_Singleton
<1>6. /\ balance \in [Users -> Nat] /\ drift \in [Users -> Nat] /\ RowsType(records)
  BY DEF BooksInv, BookTypes
<1>7. drift[u] + Spread(balances) + Spread(amounts) = drift[u] + d
  <2> DEFINE D == drift[u]
             d1 == Spread(balances)
             d2 == Spread(amounts)
  <2>1. D \in Nat /\ d1 \in Int /\ d2 \in Int /\ d = d1 + d2
    BY <1>6
  <2> HIDE DEF D, d1, d2
  <2>2. D + d1 + d2 = D + d
    BY <2>1
  <2> QED
    BY <2>2 DEF D, d1, d2
<1>8. /\ balance' \in [Users -> Nat] /\ balance'[u] = b
      /\ \A v \in Users : v # u => balance'[v] = balance[v]
  BY <1>1, <1>6
<1>9. /\ drift' \in [Users -> Nat] /\ drift'[u] = drift[u] + d
      /\ \A v \in Users : v # u => drift'[v] = drift[v]
  BY <1>3, <1>6, <1>7
<1>10. RowsType(records')
  BY <1>2, <1>5, <1>6, RowsWritten DEF OneMore
<1>11. s \in Int /\ (r.type = "DEPOSIT" => s = r.amount) /\ (r.type = "WITHDRAWAL" => s = -r.amount)
  <2> HIDE DEF r
  <2> QED
    BY <1>a, <1>4
<1>12. b - (balance[u] + s) <= d /\ (balance[u] + s) - b <= d
  OBVIOUS
<1> HIDE DEF r, s
<1>13. ASSUME NEW v \in Users
       PROVE  balance'[v] - Expected(v)' <= drift'[v] /\ Expected(v)' - balance'[v] <= drift'[v]
  <2>1. CASE v = u
    <3>1. records' = records (+) SetToBag({r}) /\ r \in {r} /\ \A q \in {r} : q # r => q.user # u
      BY <1>2 DEF r
    <3>2. balance'[u] - Expected(u)' <= drift'[u] /\ Expected(u)' - balance'[u] <= drift'[u]
      BY <1>4, <1>5, <1>8, <1>9, <1>11, <1>12, <3>1, WalletMoves
    <3> QED
      BY <2>1, <3>2
  <2>2. CASE v # u
    BY <1>2, <1>4, <1>5, <1>8, <1>9, <2>2, WalletStays DEF r
  <2> QED
    BY <2>1, <2>2
<1> QED
  BY <1>8, <1>9, <1>10, <1>13 DEF BooksInv, BookTypes, BooksAgree

LEMMA SpreadNat ==
    ASSUME NEW n \in Int, NEW e \in Nat
    PROVE  Spread(formatAmount(n, e)) \in Nat
<1>1. PICK u : u \in formatAmount(n, 0)
  BY FormatNonempty
<1> QED
  BY <1>1, FormatWithin, OutcomesWithinSpread

LEMMA DepositKeeps ==
    ASSUME BooksInv, NEW u \in Users, NEW amount \in Amounts, Deposit(u, amount)
    PROVE  BooksInv'
<1> DEFINE k == balance[u]
           new == k * Scale + amount
           x == new * Precision
           y == amount * Precision
           e1 == 2 * new
           balances == formatAmount(x, e1)
           amounts == formatAmount(y, amount)
           d == Spread(balances) + Spread(amounts)
<1>1. k \in Nat /\ amount \in Nat
  BY ReconciliationConstants DEF BooksInv, BookTypes
<1>2. new \in Nat
  BY <1>1, ScaleAssumption
<1> HIDE DEF k
<1>3. e1 \in Nat /\ x \in Nat /\ y \in Nat
  BY <1>1, <1>2, FineType
<1>4. amounts \in SUBSET Nat
  BY <1>1, ParsedNat DEF Parsed
<1>6. Book(u, "DEPOSIT", balances, amounts)
  BY DEF Deposit, Parsed, k
<1> HIDE DEF e1
<1>5. Spread(balances) \in Nat /\ Spread(amounts) \in Nat
  <2>1. x \in Int /\ y \in Int
    BY <1>3
  <2> HIDE DEF x, y
  <2>2. Spread(formatAmount(x, e1)) \in Nat
    BY <1>3, <2>1, SpreadNat
  <2>3. Spread(formatAmount(y, amount)) \in Nat
    BY <1>1, <2>1, SpreadNat
  <2> QED
    BY <2>2, <2>3
<1>7. ASSUME NEW b \in balances, NEW a \in amounts
      PROVE  b - (k + a) <= d /\ (k + a) - b <= d
  BY <1>1, <1>3, <1>7, CreditWithinSpread
<1> HIDE DEF new, balances, amounts
<1>8. d \in Nat /\ d = Spread(balances) + Spread(amounts)
  BY <1>5
<1> HIDE DEF d
<1>9. \A b \in balances, a \in amounts :
         LET s == IF "DEPOSIT" = "DEPOSIT" THEN a ELSE -a
         IN  b - (balance[u] + s) <= d /\ (balance[u] + s) - b <= d
  BY <1>7 DEF k
<1> QED
  BY <1>4, <1>5, <1>6, <1>8, <1>9, BookKeeps

LEMMA WithdrawKeeps ==
    ASSUME BooksInv, NEW u \in Users, NEW amount \in Amounts, Withdraw(u, amount)
    PROVE  BooksInv'
<1> DEFINE k == balance[u]
           old == k * Scale
<1>1. k \in Nat /\ amount \in Nat
  BY ReconciliationConstants DEF BooksInv, BookTypes
<1>2. old \in Nat
  BY <1>1, ScaleAssumption
<1> HIDE DEF k
<1>5. CASE amount < old
  <2> DEFINE rest == old - amount
             x == rest * Precision
             y == amount * Precision
             e1 == old + amount + rest
             balances == formatAmount(x, e1)
             amounts == formatAmount(y, amount)
             d == Spread(balances) + Spread(amounts)
  <2>1. rest \in Nat
    BY <1>1, <1>2, <1>5
  <2>2. e1 \in Nat /\ x \in Nat /\ y \in Nat
    BY <1>1, <1>2, <2>1, FineType
  <2>3. amounts \in SUBSET Nat
    BY <1>1, ParsedNat DEF Parsed
  <2>4. Spread(balances) \in Nat /\ Spread(amounts) \in Nat
    BY <1>1, <2>2, SpreadNat
  <2>5. Book(u, "WITHDRAWAL", balances, amounts)
    BY <1>5 DEF Withdraw, Parsed, k
  <2> HIDE DEF e1
  <2>6. ASSUME NEW b \in balances, NEW a \in amounts
        PROVE  b - (k - a) <= d /\ (k - a) - b <= d
    BY <1>1, <2>2, <2>6, DebitWithinSpread
  <2>7. \A b \in balances, a \in amounts : b \in Int /\ a \in Nat
    BY <2>2, <2>3, FormatNearest
  <2> HIDE DEF rest, balances, amounts
  <2>8. d \in Nat /\ d = Spread(balances) + Spread(amounts)
    BY <2>4
  <2> HIDE DEF d
  <2>9. ASSUME NEW b \in balances, NEW a \in amounts
        PROVE  b - (k + (-a)) <= d /\ (k + (-a)) - b <= d
    BY <1>1, <2>6, <2>7
  <2>10. \A b \in balances, a \in amounts :
           LET s == IF "WITHDRAWAL" = "DEPOSIT" THEN a ELSE -a
           IN  b - (balance[u] + s) <= d /\ (balance[u] + s) - b <= d
    BY <2>9 DEF k
  <2> QED
    BY <2>3, <2>4, <2>5, <2>8, <2>10, BookKeeps
<1>6. CASE ~(amount < old)
  <2> DEFINE x == old * Precision
             amounts == formatAmount(x, old)
             balances == {0}
             d == Spread(balances) + Spread(amounts)
  <2>a. x \in Nat
    BY <1>2, FineType
  <2>1. amounts \in SUBSET Nat
    BY <1>2, ParsedNat DEF Parsed
  <2>2. Spread(balances) = 0 /\ Spread(amounts) \in Nat
    <3>1. Cardinality({0}) = 1
      BY FS_Singleton
    <3> QED
      BY <1>2, <2>a, <3>1, SpreadNat DEF Spread
  <2>3. Book(u, "WITHDRAWAL", balances, amounts)
    BY <1>6 DEF Withdraw, Parsed, k
  <2>4. ASSUME NEW a \in amounts
        PROVE  0 - (k + (-a)) <= d /\ (k + (-a)) - 0 <= d
    <3>1. k \in amounts
      <4>1. x = k * Unit
        BY <1>1, UnitType DEF Unit
      <4>2. x - old - k * Unit = -old /\ k * Unit - x - old = -old
        <5> HIDE DEF x, old
        <5> QED
          BY <1>2, <2>a, <4>1
      <4>3. 2 * (-old) <= Unit
        <5> HIDE DEF old
        <5> QED
          BY <1>2, UnitType
      <4> QED
        BY <1>1, <1>2, <2>a, <4>2, <4>3, FormatNearest
    <3>4. a - k <= Spread(amounts) /\ k - a <= Spread(amounts) /\ a \in Nat
      BY <1>2, <2>a, <2>1, <3>1, OutcomesWithinSpread
    <3> HIDE DEF amounts, balances
    <3> QED
      BY <1>1, <2>2, <3>4
  <2> HIDE DEF x, amounts
  <2>5. d \in Nat /\ d = Spread(balances) + Spread(amounts) /\ Spread(balances) \in Int
    BY <2>2
  <2> HIDE DEF d
  <2>6. \A b \in balances, a \in amounts :
           LET s == IF "WITHDRAWAL" = "DEPOSIT" THEN a ELSE -a
           IN  b - (balance[u] + s) <= d /\ (balance[u] + s) - b <= d
    BY <2>4 DEF k
  <2> HIDE DEF balances
  <2> QED
    BY <2>1, <2>2, <2>3, <2>5, <2>6, BookKeeps
<1> QED
  BY <1>5, <1>6

LEMMA TradeTypes ==
    ASSUME NEW t \in TradeInputs
    PROVE  /\ t.buyer \in Users /\ t.seller \in Users /\ t.buyer # t.seller
           /\ t.buyOrder \in Nat /\ t.sellOrder \in Nat
           /\ t.price \in Nat /\ t.quantity \in Nat \ {0}
           /\ t.price * t.quantity \in Nat
<1>1. t \in [buyer : Users, seller : Users, buyOrder : Nat, sellOrder : Nat,
             price : Nat \ {0}, quantity : Nat \ {0}]
  BY ReconciliationConstants
<1>2. t.buyer # t.seller
  BY ReconciliationConstants
<1>3. t.price \in Nat /\ t.quantity \in Nat \ {0}
  BY <1>1
<1>4. t.price * t.quantity \in Nat
  BY <1>3
<1> QED
  BY <1>1, <1>2, <1>3, <1>4

(* The two rows of a trade, and that they are the only ones of their users. *)
LEMMA TradeRows ==
    ASSUME NEW t \in TradeInputs, NEW a \in Nat
    PROVE  /\ TradeRecords(t, a) \in SUBSET RecordType
           /\ IsFiniteSet(TradeRecords(t, a))
           /\ \E r \in TradeRecords(t, a) :
                 /\ r.user = t.buyer /\ r.type = "WITHDRAWAL" /\ r.amount = a
                 /\ \A q \in TradeRecords(t, a) : q # r => q.user # t.buyer
           /\ \E r \in TradeRecords(t, a) :
                 /\ r.user = t.seller /\ r.type = "DEPOSIT" /\ r.amount = a
                 /\ \A q \in TradeRecords(t, a) : q # r => q.user # t.seller
           /\ \A r \in TradeRecords(t, a) : r.user \in {t.buyer, t.seller}
<1> DEFINE rb == Record(t.buyer, "WITHDRAWAL", a, t.buyOrder)
           rs == Record(t.seller, "DEPOSIT", a, t.sellOrder)
<1>1. /\ rb \in RecordType /\ rb.user = t.buyer /\ rb.type = "WITHDRAWAL" /\ rb.amount = a
      /\ rs \in RecordType /\ rs.user = t.seller /\ rs.type = "DEPOSIT" /\ rs.amount = a
  BY TradeTypes, RecordTypes
<1>2. TradeRecords(t, a) = {rb, rs}
  BY DEF TradeRecords
<1>3. t.buyer # t.seller
  BY TradeTypes
<1> HIDE DEF rb, rs
<1>4. IsFiniteSet({rb, rs})
  <2>1. IsFiniteSet({rb} \cup {rs}) /\ {rb} \cup {rs} = {rb, rs}
    BY FS_Singleton, FS_AddElement
  <2> QED
    BY <2>1
<1> QED
  BY <1>1, <1>2, <1>3, <1>4

LEMMA TradeKeepsBooks ==
    ASSUME BooksInv, NEW t \in TradeInputs, ExecuteTrade(t)
    PROVE  BooksInv'
<1> DEFINE cost == t.price * t.quantity
           kb == balance[t.buyer]
           ks == balance[t.seller]
           debits == formatAmount((kb * Scale - cost) * Precision, 0)
           credits == formatAmount((ks * Scale + cost) * Precision, 0)
           amounts == formatAmount(cost * Precision, 0)
<1>1. /\ t.buyer \in Users /\ t.seller \in Users /\ t.buyer # t.seller /\ cost \in Nat
  BY TradeTypes
<1>2. balance \in [Users -> Nat] /\ drift \in [Users -> Nat] /\ RowsType(records)
  BY DEF BooksInv, BookTypes
<1>3. kb \in Nat /\ ks \in Nat
  BY <1>1, <1>2
<1>4. kb * Scale - cost \in Nat /\ ks * Scale + cost \in Nat
  <2>1. cost <= kb * Scale
    BY DEF ExecuteTrade
  <2>2. kb * Scale \in Nat /\ ks * Scale \in Nat
    BY <1>3, ScaleAssumption
  <2> HIDE DEF cost, kb, ks
  <2> QED
    BY <1>1, <2>1, <2>2
<1>5. /\ fmt8f(kb * Scale - cost) = debits /\ fmt8f(ks * Scale + cost) = credits
      /\ fmt8f(cost) = amounts
  BY <1>1, <1>4, Fmt8fIsFormat
<1>a. /\ (kb * Scale - cost) * Precision \in Nat /\ (ks * Scale + cost) * Precision \in Nat
      /\ cost * Precision \in Nat
  BY <1>1, <1>4, FineType
<1>6. debits \subseteq Nat /\ credits \subseteq Nat /\ amounts \subseteq Nat
  BY <1>a, FormatNat
<1>7. /\ Spread(debits) \in Nat /\ Spread(credits) \in Nat /\ Spread(amounts) \in Nat
  BY <1>a, SpreadNat
<1>8. PICK b \in debits, s \in credits :
         balance' = [balance EXCEPT ![t.buyer] = b, ![t.seller] = s]
  BY <1>5 DEF ExecuteTrade
<1>9. PICK a \in amounts : records' = records (+) SetToBag(TradeRecords(t, a))
  BY <1>5 DEF ExecuteTrade, Write
<1>10. drift' = [drift EXCEPT ![t.buyer] = @ + Spread(debits) + Spread(amounts),
                              ![t.seller] = @ + Spread(credits) + Spread(amounts)]
  BY <1>5 DEF ExecuteTrade
<1> DEFINE db == Spread(debits) + Spread(amounts)
           ds == Spread(credits) + Spread(amounts)
<1>11. /\ db \in Nat /\ b - (kb - a) <= db /\ (kb - a) - b <= db
       /\ ds \in Nat /\ s - (ks + a) <= ds /\ (ks + a) - s <= ds
  <2> HIDE DEF cost, kb, ks
  <2>1. db \in Nat /\ b - (kb - a) <= db /\ (kb - a) - b <= db
    BY <1>1, <1>3, DebitWithinSpread
  <2>2. ds \in Nat /\ s - (ks + a) <= ds /\ (ks + a) - s <= ds
    BY <1>1, <1>3, CreditWithinSpread
  <2> QED
    BY <2>1, <2>2
<1>12. a \in Nat /\ b \in Nat /\ s \in Nat
  BY <1>6
<1>13. /\ balance' \in [Users -> Nat]
       /\ balance'[t.buyer] = b /\ balance'[t.seller] = s
       /\ \A u \in Users : u \notin {t.buyer, t.seller} => balance'[u] = balance[u]
  BY <1>1, <1>2, <1>8, <1>12
<1> HIDE DEF debits, credits, amounts
<1>14. /\ drift' \in [Users -> Nat]
       /\ drift'[t.buyer] = drift[t.buyer] + db /\ drift'[t.seller] = drift[t.seller] + ds
       /\ \A u \in Users : u \notin {t.buyer, t.seller} => drift'[u] = drift[u]
  <2>1. /\ drift[t.buyer] + Spread(debits) + Spread(amounts) = drift[t.buyer] + db
        /\ drift[t.seller] + Spread(credits) + Spread(amounts) = drift[t.seller] + ds
    <3>1. drift[t.buyer] \in Nat /\ drift[t.seller] \in Nat
      BY <1>1, <1>2
    <3> QED
      BY <1>7, <3>1
  <2>2. drift[t.buyer] + db \in Nat /\ drift[t.seller] + ds \in Nat
    BY <1>1, <1>2, <1>11
  <2> HIDE DEF db, ds
  <2> QED
    BY <1>1, <1>2, <1>10, <2>1, <2>2
<1> HIDE DEF db, ds
<1> DEFINE new == TradeRecords(t, a)
<1>15. new \in SUBSET RecordType /\ IsFiniteSet(new) /\ records' = records (+) SetToBag(new)
  BY <1>9, <1>12, TradeRows
<1>16. RowsType(records')
  BY <1>2, <1>15, RowsWritten DEF OneMore
<1>17. ASSUME NEW u \in Users
       PROVE  balance'[u] - Expected(u)' <= drift'[u] /\ Expected(u)' - balance'[u] <= drift'[u]
  <2>1. CASE u = t.buyer
    <3>1. PICK r \in new : /\ r.user = u /\ r.type = "WITHDRAWAL" /\ r.amount = a
                           /\ \A q \in new : q # r => q.user # u
      BY <1>12, <2>1, TradeRows
    <3> HIDE DEF new
    <3>2. /\ -a \in Int /\ balance'[u] = b /\ drift'[u] = drift[u] + db
          /\ r.type = "DEPOSIT" => -a = r.amount
          /\ r.type = "WITHDRAWAL" => -a = -r.amount
      BY <1>12, <1>13, <1>14, <2>1, <3>1
    <3>3. b - (kb + (-a)) <= db /\ (kb + (-a)) - b <= db
      <4> HIDE DEF kb
      <4> QED
        BY <1>3, <1>11, <1>12
    <3>4. b - (balance[u] + (-a)) <= db /\ (balance[u] + (-a)) - b <= db
      BY <2>1, <3>3
    <3> QED
      BY <1>11, <1>12, <1>15, <3>1, <3>2, <3>4, WalletMoves
  <2>2. CASE u = t.seller
    <3>1. PICK r \in new : /\ r.user = u /\ r.type = "DEPOSIT" /\ r.amount = a
                           /\ \A q \in new : q # r => q.user # u
      BY <1>12, <2>2, TradeRows
    <3> HIDE DEF new
    <3>2. /\ a \in Int /\ balance'[u] = s /\ drift'[u] = drift[u] + ds
          /\ r.type = "DEPOSIT" => a = r.amount
          /\ r.type = "WITHDRAWAL" => a = -r.amount
      BY <1>12, <1>13, <1>14, <2>2, <3>1
    <3>3. s - (balance[u] + a) <= ds /\ (balance[u] + a) - s <= ds
      BY <1>11, <2>2
    <3> QED
      BY <1>11, <1>12, <1>15, <3>1, <3>2, <3>3, WalletMoves
  <2>3. CASE u \notin {t.buyer, t.seller}
    <3>1. \A q \in new : q.user # u
      BY <1>12, <2>3, TradeRows
    <3>2. balance'[u] = balance[u] /\ drift'[u] = drift[u]
      BY <1>13, <1>14, <2>3
    <3> HIDE DEF new
    <3> QED
      BY <1>15, <3>1, <3>2, WalletStays
  <2> QED
    BY <2>1, <2>2, <2>3
<1> QED
  BY <1>13, <1>14, <1>16, <1>17 DEF BooksInv, BookTypes, BooksAgree

LEMMA InitBooks == Init => BooksInv
<1> SUFFICES ASSUME Init PROVE BooksInv
  OBVIOUS
<1>1. DOMAIN records = {}
  BY DEF Init, EmptyBag, SetToBag
<1>2. RowsType(records)
  <2>1. records \in [DOMAIN records -> Nat \ {0}]
    BY DEF Init, EmptyBag, SetToBag
  <2> QED
    BY <1>1, <2>1, FS_EmptySet DEF RowsType
<1>3. ASSUME NEW u \in Users PROVE Expected(u) = balance[u] /\ balance[u] \in Nat /\ drift[u] = 0
  <2>1. ASSUME NEW types PROVE Total(AmountsOf(records, u, types)) = 0
    <3>1. DOMAIN AmountsOf(records, u, types) = {}
      BY <1>1 DEF AmountsOf, BagToSet
    <3> QED
      BY <3>1, TotalEmpty
  <2>2. RecordSum(u) = 0
    BY <2>1 DEF RecordSum
  <2> QED
    BY <2>2, ReconciliationConstants DEF Init, Expected
<1>4. BooksAgree
  BY <1>3 DEF BooksAgree
<1> QED
  BY <1>2, <1>4, ReconciliationConstants DEF Init, BooksInv, BookTypes

(* The jobs read, and change none of these tables. *)
LEMMA JobsReadOnly ==
    ASSUME \/ ReconcileFetch \/ ReconcileEnd \/ VerifyFetch \/ VerifyEnd
           \/ \E u \in Users : ReconcileWallet(u)
           \/ \E t \in TradeInputs, side \in {"buyer", "seller"} : VerifySide(t, side)
    PROVE  UNCHANGED <<tables, history>>
BY DEF ReconcileFetch, ReconcileEnd, VerifyFetch, VerifyEnd, ReconcileWallet, VerifySide

LEMMA NextBooks ==
    ASSUME BooksInv, [Next]_vars
    PROVE  BooksInv'
<1>1. CASE UNCHANGED <<tables, history>>
  BY <1>1 DEF BooksInv, BookTypes, BooksAgree, Expected, RecordSum, tables, history
<1> QED
  BY <1>1, JobsReadOnly, DepositKeeps, WithdrawKeeps, TradeKeepsBooks DEF Next, vars

(* However deposits, withdrawals and trades follow each other, a balance is what *)
(* its rows add up to but for the units that roundings may have differed by:     *)
(* nothing that commits moves a balance without its row, or by another amount.   *)
THEOREM BalancesMatchRecords == Spec => []BooksAgree
<1>1. BooksInv => BooksAgree
  BY DEF BooksInv
<1> QED
  BY <1>1, InitBooks, NextBooks, PTL DEF Spec

-------------------------------------------------------------------------------
(* What the nightly job reports *)

ReconcileTypes ==
    reconcile \in [pc : {"idle", "sum"}, fetched : [Users -> Nat], todo : SUBSET Users,
                   reported : SUBSET Users]

LEMMA NoMismatch ==
    ASSUME NEW x \in Int
    PROVE  TRUE \notin Mismatch(x, x)
<1>1. Max({x, x}) - Min({x, x}) = 0
  <2>1. {x, x} = {x} /\ x >= x /\ x <= x /\ x - x = 0
    OBVIOUS
  <2> QED
    BY <2>1 DEF Max, Min
<1>2. TRUE \in Mismatch(x, x) => Max({x, x}) - Min({x, x}) > 0
  <2> DEFINE apart == Max({x, x}) - Min({x, x})
             B(differ) == IF differ THEN apart > 0
                          ELSE apart * Precision <= Precision + (2 * Max({x, x, apart}) + 1)
  <2>1. Mismatch(x, x) = {differ \in BOOLEAN : B(differ)}
    BY DEF Mismatch
  <2>2. B(TRUE) => apart > 0
    OBVIOUS
  <2> HIDE DEF B
  <2>3. TRUE \in Mismatch(x, x) => B(TRUE)
    BY <2>1, Zenon
  <2> QED
    BY <2>2, <2>3
<1>3. ~(Max({x, x}) - Min({x, x}) > 0)
  BY <1>1
<1> QED
  BY <1>2, <1>3, Zenon

LEMMA NextReconcile ==
    ASSUME BooksInv, ReconcileTypes, [Next]_vars
    PROVE  ReconcileTypes'
<1>1. CASE UNCHANGED reconcile
  BY <1>1 DEF ReconcileTypes
<1>2. CASE ReconcileFetch
  BY <1>2 DEF ReconcileFetch, ReconcileTypes, BooksInv, BookTypes
<1>3. ASSUME NEW u \in Users, ReconcileWallet(u) PROVE ReconcileTypes'
  <2>1. ASSUME NEW R \in SUBSET Users,
               reconcile' = [reconcile EXCEPT !.todo = @ \ {u}, !.reported = R]
        PROVE  ReconcileTypes'
    BY <2>1 DEF ReconcileTypes
  <2>2. reconcile.reported \in SUBSET Users /\ reconcile.reported \cup {u} \in SUBSET Users
    BY DEF ReconcileTypes
  <2>3. CASE reconcile' = [reconcile EXCEPT !.todo = @ \ {u}]
    BY <2>3 DEF ReconcileTypes
  <2>4. ASSUME NEW differ,
               reconcile' = [reconcile EXCEPT !.todo = @ \ {u},
                                !.reported = IF differ THEN @ \cup {u} ELSE @]
        PROVE  ReconcileTypes'
    BY <2>1, <2>2, <2>4
  <2> QED
    BY <1>3, <2>3, <2>4 DEF ReconcileWallet
<1>4. CASE ReconcileEnd
  BY <1>4, ReconciliationConstants DEF ReconcileEnd, NoReconcile, ReconcileTypes
<1>5. ASSUME NEW u \in Users, NEW a \in Amounts, Deposit(u, a) \/ Withdraw(u, a)
      PROVE  UNCHANGED reconcile
  BY <1>5 DEF Deposit, Withdraw, Book
<1>6. ASSUME NEW t \in TradeInputs, ExecuteTrade(t) PROVE UNCHANGED reconcile
  BY <1>6 DEF ExecuteTrade
<1>7. CASE VerifyFetch \/ VerifyEnd
           \/ \E t \in TradeInputs, side \in {"buyer", "seller"} : VerifySide(t, side)
  BY <1>1, <1>7 DEF VerifyFetch, VerifyEnd, VerifySide
<1> QED
  BY <1>1, <1>2, <1>3, <1>4, <1>5, <1>6, <1>7 DEF Next, vars

(* A wallet newly reported has moved since it was fetched, or has drifted. *)
LEMMA ReportMeansMove ==
    ASSUME BooksInv, ReconcileTypes, [Next]_vars,
           NEW u \in reconcile'.reported \ reconcile.reported
    PROVE  balance[u] # reconcile.fetched[u] \/ drift[u] > 0
<1>1. CASE UNCHANGED reconcile
  BY <1>1
<1>2. CASE ReconcileFetch \/ ReconcileEnd
  BY <1>2 DEF ReconcileFetch, ReconcileEnd, NoReconcile
<1>3. ASSUME NEW v \in Users, ReconcileWallet(v)
      PROVE  balance[u] # reconcile.fetched[u] \/ drift[u] > 0
  <2>1. u = v /\ TRUE \in Mismatch(reconcile.fetched[v], Expected(v))
    <3>1. CASE \E differ \in Mismatch(reconcile.fetched[v], Expected(v)) :
             reconcile' = [reconcile EXCEPT !.todo = @ \ {v},
                              !.reported = IF differ THEN @ \cup {v} ELSE @]
      <4>1. PICK differ \in Mismatch(reconcile.fetched[v], Expected(v)) :
               reconcile' = [reconcile EXCEPT !.todo = @ \ {v},
                                !.reported = IF differ THEN @ \cup {v} ELSE @]
        BY <3>1
      <4>2. differ \in BOOLEAN
        BY DEF Mismatch
      <4>3. reconcile'.reported = IF differ THEN reconcile.reported \cup {v} ELSE reconcile.reported
        BY <4>1 DEF ReconcileTypes
      <4>4. differ = TRUE
        BY <4>2, <4>3
      <4>5. u = v
        BY <4>3
      <4> QED
        BY <4>4, <4>5, Zenon
    <3>2. CASE reconcile' = [reconcile EXCEPT !.todo = @ \ {v}]
      BY <3>2 DEF ReconcileTypes
    <3> QED
      BY <1>3, <3>1, <3>2 DEF ReconcileWallet
  <2>2. SUFFICES ASSUME balance[v] = reconcile.fetched[v], ~(drift[v] > 0) PROVE FALSE
    BY <2>1
  <2>3. balance[v] \in Nat /\ drift[v] = 0
    BY <2>2 DEF BooksInv, BookTypes
  <2>4. Balanced(records, v) \in Int
    <3>1. ASSUME NEW types PROVE Total(AmountsOf(records, v, types)) \in Nat
      <4>1. AmountColumn(AmountsOf(records, v, types), records, v, types)
        BY AmountsAreColumn DEF BooksInv, BookTypes
      <4> QED
        BY <4>1, TotalNat DEF AmountColumn
    <3> QED
      BY <3>1 DEF Balanced
  <2>5. Expected(v) \in Int
    BY <2>4, ReconciliationConstants DEF Expected, RecordSum, Balanced
  <2>6. balance[v] - Expected(v) <= 0 /\ Expected(v) - balance[v] <= 0
    BY <2>3 DEF BooksInv, BooksAgree
  <2> DEFINE x == balance[v]
             y == Expected(v)
  <2> HIDE DEF x, y
  <2>7. x = y
    <3>1. x \in Nat /\ y \in Int /\ x - y <= 0 /\ y - x <= 0
      BY <2>3, <2>5, <2>6 DEF x, y
    <3> QED
      BY <3>1
  <2>8. TRUE \in Mismatch(x, x)
    BY <2>1, <2>2, <2>7 DEF x, y
  <2>9. x \in Int
    BY <2>3 DEF x
  <2> QED
    BY <2>8, <2>9, NoMismatch, Zenon
<1>4. ASSUME NEW v \in Users, NEW a \in Amounts, Deposit(v, a) \/ Withdraw(v, a)
      PROVE  UNCHANGED reconcile
  BY <1>4 DEF Deposit, Withdraw, Book
<1>5. ASSUME NEW t \in TradeInputs, ExecuteTrade(t) PROVE UNCHANGED reconcile
  BY <1>5 DEF ExecuteTrade
<1>6. CASE VerifyFetch \/ VerifyEnd
           \/ \E t \in TradeInputs, side \in {"buyer", "seller"} : VerifySide(t, side)
  BY <1>1, <1>6 DEF VerifyFetch, VerifyEnd, VerifySide
<1> QED
  BY <1>1, <1>2, <1>3, <1>4, <1>5, <1>6 DEF Next, vars

(* The alert of ReconcileWallets means that the wallet changed between the job's *)
(* two queries, or that rounding had moved its balance: without either, the two  *)
(* numbers compared are the same.                                                *)
THEOREM AlertsExplained == Spec => ReportedWalletsMoved
<1>1. Init => ReconcileTypes
  BY ReconciliationConstants DEF Init, NoReconcile, ReconcileTypes
<1>2. ASSUME BooksInv, ReconcileTypes, [Next]_vars
      PROVE  [\A u \in reconcile'.reported \ reconcile.reported :
                balance[u] # reconcile.fetched[u] \/ drift[u] > 0]_vars
  BY <1>2, ReportMeansMove
<1> QED
  BY <1>1, <1>2, InitBooks, NextBooks, NextReconcile, PTL DEF Spec, ReportedWalletsMoved

-------------------------------------------------------------------------------
(* Average prices *)

HoldingTypes == /\ holding \in [Users -> Holding]
                /\ paid \in [Users -> [low : Nat, high : Nat]]

AverageInv == HoldingTypes /\ AverageWithinPaid

(* A weighted average, rounded half up, lies between the lowest and the highest price. *)
LEMMA AverageBetween ==
    ASSUME NEW q1 \in Nat, NEW q2 \in Nat \ {0}, NEW p1 \in Nat, NEW p2 \in Nat,
           NEW lo \in Nat, NEW hi \in Nat, lo <= p2, p2 <= hi,
           q1 > 0 => lo <= p1 /\ p1 <= hi
    PROVE  LET total == q1 + q2
               value == q1 * p1 + q2 * p2
           IN  (2 * value + total) \div (2 * total) \in lo..hi
<1> DEFINE total == q1 + q2
           value == q1 * p1 + q2 * p2
           n == 2 * value + total
           d == 2 * total
           z == n \div d
<1>1. q1 * lo <= q1 * p1 /\ q1 * p1 <= q1 * hi
  <2>1. CASE q1 = 0
    BY <2>1
  <2>2. CASE q1 > 0
    <3>1. lo * q1 <= p1 * q1 /\ p1 * q1 <= hi * q1
      BY <2>2, MonotoneProductLeq
    <3> QED
      BY <3>1
  <2> QED
    BY <2>1, <2>2
<1>2. q2 * lo <= q2 * p2 /\ q2 * p2 <= q2 * hi
  <2>1. lo * q2 <= p2 * q2 /\ p2 * q2 <= hi * q2
    BY MonotoneProductLeq
  <2> QED
    BY <2>1
<1>3. total \in Nat \ {0} /\ total * lo = q1 * lo + q2 * lo /\ total * hi = q1 * hi + q2 * hi
  OBVIOUS
<1>4. /\ q1 * p1 \in Nat /\ q2 * p2 \in Nat /\ q1 * lo \in Nat /\ q2 * lo \in Nat
      /\ q1 * hi \in Nat /\ q2 * hi \in Nat
  OBVIOUS
<1>5. value \in Nat /\ total * lo <= value /\ value <= total * hi
  <2> DEFINE a1 == q1 * p1
             a2 == q2 * p2
             l1 == q1 * lo
             l2 == q2 * lo
             h1 == q1 * hi
             h2 == q2 * hi
             tl == total * lo
             th == total * hi
  <2>1. /\ a1 \in Nat /\ a2 \in Nat /\ l1 \in Nat /\ l2 \in Nat /\ h1 \in Nat /\ h2 \in Nat
        /\ l1 <= a1 /\ a1 <= h1 /\ l2 <= a2 /\ a2 <= h2 /\ tl = l1 + l2 /\ th = h1 + h2
    BY <1>1, <1>2, <1>3, <1>4
  <2> HIDE DEF a1, a2, l1, l2, h1, h2, tl, th
  <2>2. a1 + a2 \in Nat /\ tl <= a1 + a2 /\ a1 + a2 <= th
    BY <2>1
  <2> QED
    BY <2>2 DEF a1, a2, tl, th
<1> HIDE DEF value, total
<1>6. n \in Int /\ d \in Nat \ {0}
  BY <1>3, <1>5
<1>7. z \in Int /\ d * z <= n /\ n < d * z + d
  BY <1>6, DivFacts
<1>8. d * lo = 2 * (total * lo) /\ d * hi = 2 * (total * hi)
  BY <1>3
<1> HIDE DEF z
<1>9. lo * d < (z + 1) * d /\ z * d < (hi + 1) * d
  <2> DEFINE dz == d * z
             tl == total * lo
             th == total * hi
  <2>1. /\ (z + 1) * d = dz + d /\ z * d = dz /\ lo * d = 2 * tl /\ (hi + 1) * d = 2 * th + d
        /\ dz \in Int /\ tl \in Nat /\ th \in Nat
    BY <1>3, <1>6, <1>7, <1>8
  <2>2. dz <= 2 * value + total /\ 2 * value + total < dz + 2 * total
    BY <1>7
  <2>3. tl <= value /\ value <= th
    BY <1>5
  <2>4. 2 * tl < dz + 2 * total /\ dz < 2 * th + 2 * total
    <3> HIDE DEF dz, tl, th
    <3> QED
      BY <1>3, <1>5, <2>1, <2>2, <2>3
  <2> QED
    BY <2>1, <2>4
<1>10. lo < z + 1 /\ z < hi + 1
  BY <1>6, <1>7, <1>9, MonotoneProduct
<1>11. z \in lo..hi
  BY <1>7, <1>10
<1> QED
  BY <1>11 DEF z, total, value

LEMMA MinMaxPair ==
    ASSUME NEW x \in Nat, NEW y \in Nat
    PROVE  /\ Min({x, y}) \in Nat /\ Min({x, y}) <= x /\ Min({x, y}) <= y
           /\ Max({x, y}) \in Nat /\ x <= Max({x, y}) /\ y <= Max({x, y})
<1>1. \E m \in {x, y} : \A z \in {x, y} : m <= z
  <2>1. x <= y \/ y <= x
    OBVIOUS
  <2> QED
    BY <2>1
<1>2. \E m \in {x, y} : \A z \in {x, y} : m >= z
  <2>1. x <= y \/ y <= x
    OBVIOUS
  <2> QED
    BY <2>1
<1>3. Min({x, y}) \in {x, y} /\ \A z \in {x, y} : Min({x, y}) <= z
  BY <1>1 DEF Min
<1>4. Max({x, y}) \in {x, y} /\ \A z \in {x, y} : Max({x, y}) >= z
  BY <1>2 DEF Max
<1> QED
  BY <1>3, <1>4

(* The prices paid widen to the price of the trade, or start with it. *)
LEMMA PaidWidens ==
    ASSUME AverageInv, NEW u \in Users, NEW p \in Nat
    PROVE  /\ PaidWith(u, p) \in [low : Nat, high : Nat]
           /\ PaidWith(u, p).low <= p /\ p <= PaidWith(u, p).high
           /\ holding[u].quantity > 0 =>
                 /\ PaidWith(u, p).low <= holding[u].average
                 /\ holding[u].average <= PaidWith(u, p).high
<1>1. /\ holding[u].quantity \in Nat /\ holding[u].average \in Nat
      /\ paid[u].low \in Nat /\ paid[u].high \in Nat
  BY DEF AverageInv, HoldingTypes, Holding
<1>2. CASE holding[u].quantity = 0
  BY <1>1, <1>2 DEF PaidWith
<1>3. CASE holding[u].quantity # 0
  <2> DEFINE l == paid[u].low
             h == paid[u].high
             lo == Min({l, p})
             hi == Max({h, p})
             a == holding[u].average
  <2>1. PaidWith(u, p) = [low |-> lo, high |-> hi]
    BY <1>3 DEF PaidWith
  <2>2. lo \in Nat /\ lo <= l /\ lo <= p /\ hi \in Nat /\ h <= hi /\ p <= hi
    BY <1>1, MinMaxPair
  <2>3. l <= a /\ a <= h
    BY <1>1, <1>3 DEF AverageInv, AverageWithinPaid
  <2>4. a \in Nat /\ l \in Nat /\ h \in Nat
    BY <1>1
  <2> HIDE DEF l, h, lo, hi, a
  <2>5. lo <= a /\ a <= hi
    BY <2>2, <2>3, <2>4
  <2> QED
    BY <2>1, <2>2, <2>5 DEF a
<1> QED
  BY <1>2, <1>3

LEMMA TradeKeepsAverage ==
    ASSUME AverageInv, NEW t \in TradeInputs, ExecuteTrade(t)
    PROVE  AverageInv'
<1> DEFINE hb == holding[t.buyer]
           hs == holding[t.seller]
           nb == UpsertBuyerHolding(hb, t.quantity, t.price)
           ns == ReduceSellerHolding(hs, t.quantity)
           pb == PaidWith(t.buyer, t.price)
<1>1. /\ t.buyer \in Users /\ t.seller \in Users /\ t.buyer # t.seller
      /\ t.price \in Nat /\ t.quantity \in Nat \ {0}
  BY TradeTypes
<1>2. /\ hb \in Holding /\ hs \in Holding
      /\ holding \in [Users -> Holding] /\ paid \in [Users -> [low : Nat, high : Nat]]
  BY <1>1 DEF AverageInv, HoldingTypes
<1>3. /\ hb.quantity \in Nat /\ hb.average \in Nat /\ hs.quantity \in Nat /\ hs.average \in Nat
  BY <1>2 DEF Holding
<1>4. /\ pb \in [low : Nat, high : Nat] /\ pb.low <= t.price /\ t.price <= pb.high
      /\ hb.quantity > 0 => pb.low <= hb.average /\ hb.average <= pb.high
  BY <1>1, PaidWidens
<1>5. pb.low \in Nat /\ pb.high \in Nat
  BY <1>4
<1>6. nb.average \in pb.low..pb.high
  <2>1. (LET total == hb.quantity + t.quantity
             value == hb.quantity * hb.average + t.quantity * t.price
         IN  (2 * value + total) \div (2 * total)) \in pb.low..pb.high
    <3> HIDE DEF hb, pb
    <3> QED
      BY <1>1, <1>3, <1>4, <1>5, AverageBetween
  <2> QED
    BY <2>1 DEF UpsertBuyerHolding
<1>7. nb = [quantity |-> hb.quantity + t.quantity, average |-> nb.average]
  BY DEF UpsertBuyerHolding
<1>8. nb \in Holding
  <2>1. nb.average \in Nat /\ hb.quantity + t.quantity \in Nat
    BY <1>1, <1>3, <1>5, <1>6
  <2> HIDE DEF nb
  <2> QED
    BY <1>7, <2>1 DEF Holding
<1>9. /\ ns \in Holding /\ ns.average = hs.average
      /\ ns.quantity > 0 => hs.quantity > 0
  <2>1. t.quantity <= hs.quantity
    BY DEF ExecuteTrade
  <2>2. hs.quantity - t.quantity \in Nat /\ (hs.quantity - t.quantity > 0 => hs.quantity > 0)
    BY <1>1, <1>3, <2>1
  <2>3. ns = [hs EXCEPT !.quantity = hs.quantity - t.quantity]
    BY DEF ReduceSellerHolding
  <2> HIDE DEF ns, hs
  <2> QED
    BY <1>2, <2>2, <2>3 DEF Holding
<1>10. holding' = [holding EXCEPT ![t.buyer] = nb, ![t.seller] = ns]
  BY <1>1, <1>2 DEF ExecuteTrade
<1>11. paid' = [paid EXCEPT ![t.buyer] = pb]
  BY DEF ExecuteTrade
<1> HIDE DEF nb, ns, pb
<1>12. /\ holding' \in [Users -> Holding] /\ holding'[t.buyer] = nb /\ holding'[t.seller] = ns
       /\ \A u \in Users : u \notin {t.buyer, t.seller} => holding'[u] = holding[u]
  BY <1>1, <1>2, <1>8, <1>9, <1>10
<1>13. /\ paid' \in [Users -> [low : Nat, high : Nat]] /\ paid'[t.buyer] = pb
       /\ \A u \in Users : u # t.buyer => paid'[u] = paid[u]
  BY <1>1, <1>2, <1>4, <1>11
<1>14. ASSUME NEW u \in Users, holding'[u].quantity > 0
       PROVE  holding'[u].average \in paid'[u].low..paid'[u].high
  <2>1. CASE u = t.buyer
    BY <1>6, <1>12, <1>13, <2>1
  <2>2. CASE u = t.seller
    <3>1. paid'[u] = paid[u] /\ holding'[u].average = holding[u].average /\ holding[u].quantity > 0
      BY <1>1, <1>9, <1>12, <1>13, <1>14, <2>2
    <3> QED
      BY <3>1 DEF AverageInv, AverageWithinPaid
  <2>3. CASE u \notin {t.buyer, t.seller}
    BY <1>12, <1>13, <1>14, <2>3 DEF AverageInv, AverageWithinPaid
  <2> QED
    BY <2>1, <2>2, <2>3
<1> QED
  BY <1>12, <1>13, <1>14 DEF AverageInv, HoldingTypes, AverageWithinPaid

LEMMA InitAverage == Init => AverageInv
<1> SUFFICES ASSUME Init PROVE AverageInv
  OBVIOUS
<1>1. ASSUME NEW u \in Users
      PROVE  InitHolding[u].average \in Nat
  BY ReconciliationConstants DEF Holding
<1>2. HoldingTypes
  BY <1>1, ReconciliationConstants DEF Init, HoldingTypes
<1>3. ASSUME NEW u \in Users PROVE holding[u].average \in paid[u].low..paid[u].high
  BY <1>1 DEF Init
<1> QED
  BY <1>2, <1>3 DEF AverageInv, AverageWithinPaid

LEMMA NextAverage ==
    ASSUME AverageInv, [Next]_vars
    PROVE  AverageInv'
<1>1. CASE UNCHANGED <<holding, paid>>
  BY <1>1 DEF AverageInv, HoldingTypes, AverageWithinPaid
<1>2. ASSUME NEW u \in Users, NEW a \in Amounts, Deposit(u, a) \/ Withdraw(u, a)
      PROVE  UNCHANGED <<holding, paid>>
  BY <1>2 DEF Deposit, Withdraw, Book
<1> QED
  BY <1>1, <1>2, JobsReadOnly, TradeKeepsAverage DEF Next, vars, tables, history

(* Rounding and weighting keep the average price of a holding among the prices  *)
(* that were paid for it since it was last empty.                                *)
THEOREM AveragesArePaid == Spec => []AverageWithinPaid
<1>1. AverageInv => AverageWithinPaid
  BY DEF AverageInv
<1> QED
  BY <1>1, InitAverage, NextAverage, PTL DEF Spec

-------------------------------------------------------------------------------
(* Settlements *)

TradeSides == {"buyer", "seller"}

VerifyTypes ==
    /\ trades \subseteq TradeInputs
    /\ verify \in [pc : {"idle", "check"}, todo : SUBSET (trades \X TradeSides),
                   reported : SUBSET (TradeInputs \X TradeSides),
                   failed : SUBSET (TradeInputs \X TradeSides)]

(* The two rows of a trade are committed with it, and no row is ever deleted. *)
TradesRecorded ==
    \A t \in trades : \E a \in fmt8f(t.price * t.quantity) : TradeRecords(t, a) \subseteq DOMAIN records

SettleInv == VerifyTypes /\ TradesRecorded /\ SettlementsVerified

LEMMA DescribesItself == ASSUME NEW p \in Nat PROVE Describes(p, p)
<1>1. 10^0 = 1 /\ p \div 1 = p /\ 0 \in 0..3
  OBVIOUS
<1> QED
  BY <1>1 DEF Describes

(* The query finds the row of a trade when it looks for the amount that was recorded. *)
LEMMA RowIsFound ==
    ASSUME NEW t \in TradeInputs, NEW side \in TradeSides, NEW a,
           TradeRecords(t, a) \subseteq DOMAIN records
    PROVE  SideSettled(t, side, a)
<1> DEFINE rb == Record(t.buyer, "WITHDRAWAL", a, t.buyOrder)
           rs == Record(t.seller, "DEPOSIT", a, t.sellOrder)
<1>1. rb \in DOMAIN records /\ rs \in DOMAIN records
  BY DEF TradeRecords
<1>2. Describes(t.buyOrder, t.buyOrder) /\ Describes(t.sellOrder, t.sellOrder)
  BY TradeTypes, DescribesItself
<1>3. /\ rb.user = t.buyer /\ rb.type = "WITHDRAWAL" /\ rb.amount = a /\ rb.order = t.buyOrder
      /\ rs.user = t.seller /\ rs.type = "DEPOSIT" /\ rs.amount = a /\ rs.order = t.sellOrder
  BY DEF Record
<1> HIDE DEF rb, rs
<1>4. /\ Settled(t.buyer, "WITHDRAWAL", a, t.buyOrder)
      /\ Settled(t.seller, "DEPOSIT", a, t.sellOrder)
  BY <1>1, <1>2, <1>3 DEF Settled, BagToSet
<1> QED
  BY <1>4 DEF SideSettled

(* A cost that can be printed in one way only is printed by the job as by the engine. *)
LEMMA OneOutcome ==
    ASSUME NEW t \in TradeInputs, NEW a \in fmt8f(t.price * t.quantity), NEW b \in costStr(t), a # b
    PROVE  Spread(costStr(t)) > 0
<1> DEFINE cost == t.price * t.quantity
           x == cost * Precision
           e == 3 * cost
<1>1. cost \in Nat
  BY TradeTypes
<1>2. costStr(t) = formatAmount(x, e)
  BY DEF costStr
<1>3. fmt8f(cost) = formatAmount(x, 0)
  BY <1>1, Fmt8fIsFormat
<1> HIDE DEF cost
<1>4. e \in Nat /\ x \in Nat
  BY <1>1, FineType
<1> HIDE DEF e, x
<1>5. a \in formatAmount(x, e) /\ b \in formatAmount(x, e)
  BY <1>2, <1>3, <1>4, FormatWithin DEF cost
<1>6. a \in Int /\ b \in Int
  BY <1>4, <1>5, FormatNearest
<1>7. /\ Spread(costStr(t)) \in Nat
      /\ a - b <= Spread(costStr(t)) /\ b - a <= Spread(costStr(t))
  BY <1>2, <1>4, <1>5, OutcomesWithinSpread
<1> DEFINE d == Spread(costStr(t))
<1> HIDE DEF d
<1>8. d > 0
  BY <1>6, <1>7 DEF d
<1> QED
  BY <1>8 DEF d

LEMMA VerifySideKeeps ==
    ASSUME SettleInv, NEW t \in TradeInputs, NEW side \in TradeSides, VerifySide(t, side)
    PROVE  SettleInv'
<1>1. PICK amount \in costStr(t), failed \in {FALSE} \cup {"db" \in Faults} :
         verify' = [verify EXCEPT !.todo = @ \ {<<t, side>>},
                       !.reported = IF failed \/ ~SideSettled(t, side, amount)
                                    THEN @ \cup {<<t, side>>} ELSE @,
                       !.failed = IF failed THEN @ \cup {<<t, side>>} ELSE @]
  BY DEF VerifySide
<1>2. UNCHANGED <<trades, records>>
  BY DEF VerifySide, tables
<1> DEFINE Sides2 == TradeInputs \X TradeSides
           this == <<t, side>>
<1>3. /\ verify \in [pc : {"idle", "check"}, todo : SUBSET (trades \X TradeSides),
                     reported : SUBSET Sides2, failed : SUBSET Sides2]
      /\ trades \subseteq TradeInputs /\ this \in Sides2
  BY DEF SettleInv, VerifyTypes
<1>4. t \in trades
  <2>1. <<t, side>> \in verify.todo
    BY DEF VerifySide
  <2>2. <<t, side>> \in trades \X TradeSides
    BY <1>3, <2>1
  <2> QED
    BY <2>2
<1> DEFINE R == IF failed \/ ~SideSettled(t, side, amount) THEN verify.reported \cup {this}
                ELSE verify.reported
           F == IF failed THEN verify.failed \cup {this} ELSE verify.failed
<1>5. verify' = [verify EXCEPT !.todo = @ \ {this}, !.reported = R, !.failed = F]
  BY <1>1, <1>3
<1>6. R \in SUBSET Sides2 /\ F \in SUBSET Sides2
  BY <1>3
<1>7. \A s \in R \ F : s \in verify.reported \ verify.failed
                        \/ (s = this /\ ~SideSettled(t, side, amount))
  OBVIOUS
<1> HIDE DEF R, F, this, Sides2
<1>8. verify' \in [pc : {"idle", "check"}, todo : SUBSET (trades \X TradeSides),
                   reported : SUBSET Sides2, failed : SUBSET Sides2]
      /\ verify'.reported = R /\ verify'.failed = F
  BY <1>3, <1>5, <1>6
<1>9. VerifyTypes'
  BY <1>2, <1>3, <1>8 DEF VerifyTypes, Sides2
<1>10. TradesRecorded'
  BY <1>2 DEF SettleInv, TradesRecorded
<1>11. ~SideSettled(t, side, amount) => Spread(costStr(t)) > 0
  <2>1. PICK a \in fmt8f(t.price * t.quantity) : TradeRecords(t, a) \subseteq DOMAIN records
    BY <1>4 DEF SettleInv, TradesRecorded
  <2>2. SideSettled(t, side, a)
    BY <2>1, RowIsFound
  <2>3. ~SideSettled(t, side, amount) => a # amount
    BY <2>2
  <2> QED
    BY <2>1, <2>3, OneOutcome
<1>12. this[1] = t
  BY DEF this
<1>13. \A s \in R \ F : Spread(costStr(s[1])) > 0
  BY <1>7, <1>11, <1>12 DEF SettleInv, SettlementsVerified
<1>14. SettlementsVerified'
  BY <1>8, <1>13 DEF SettlementsVerified
<1> QED
  BY <1>9, <1>10, <1>14 DEF SettleInv

(* New rows come in, the job goes on or starts anew. *)
LEMMA RowsOnlyGrow ==
    ASSUME SettleInv, DOMAIN records \subseteq DOMAIN records'
    PROVE  \A t \in trades : \E a \in fmt8f(t.price * t.quantity) :
              TradeRecords(t, a) \subseteq DOMAIN records'
BY DEF SettleInv, TradesRecorded

LEMMA WriteGrows ==
    ASSUME NEW new, Write(new)
    PROVE  DOMAIN records \subseteq DOMAIN records' /\ new \subseteq DOMAIN records'
BY DEF Write, SetToBag, (+)

LEMMA TradeSettles ==
    ASSUME SettleInv, NEW t \in TradeInputs, ExecuteTrade(t)
    PROVE  SettleInv'
<1>1. trades' = trades \cup {t} /\ verify' = verify
  BY DEF ExecuteTrade
<1>2. PICK a \in fmt8f(t.price * t.quantity) : Write(TradeRecords(t, a))
  BY DEF ExecuteTrade
<1>3. DOMAIN records \subseteq DOMAIN records' /\ TradeRecords(t, a) \subseteq DOMAIN records'
  BY <1>2, WriteGrows
<1>4. TradesRecorded'
  BY <1>1, <1>2, <1>3, RowsOnlyGrow DEF TradesRecorded
<1>5. VerifyTypes'
  <2>1. SUBSET (trades \X TradeSides) \subseteq SUBSET (trades' \X TradeSides)
    BY <1>1
  <2>2. trades' \subseteq TradeInputs
    BY <1>1 DEF SettleInv, VerifyTypes
  <2>3. verify \in [pc : {"idle", "check"}, todo : SUBSET (trades' \X TradeSides),
                    reported : SUBSET (TradeInputs \X TradeSides),
                    failed : SUBSET (TradeInputs \X TradeSides)]
    BY <2>1 DEF SettleInv, VerifyTypes
  <2> QED
    BY <1>1, <2>2, <2>3 DEF VerifyTypes
<1>6. SettlementsVerified'
  BY <1>1 DEF SettleInv, SettlementsVerified
<1> QED
  BY <1>4, <1>5, <1>6 DEF SettleInv

LEMMA NextSettled ==
    ASSUME SettleInv, [Next]_vars
    PROVE  SettleInv'
<1>1. ASSUME UNCHANGED <<trades, verify>>, DOMAIN records \subseteq DOMAIN records'
      PROVE  SettleInv'
  <2>1. TradesRecorded'
    BY <1>1, RowsOnlyGrow DEF TradesRecorded
  <2> QED
    BY <1>1, <2>1 DEF SettleInv, VerifyTypes, SettlementsVerified
<1>2. ASSUME NEW u \in Users, NEW amount \in Amounts, Deposit(u, amount) \/ Withdraw(u, amount)
      PROVE  SettleInv'
  <2>1. UNCHANGED <<trades, verify>> /\ \E new : Write(new)
    BY <1>2 DEF Deposit, Withdraw, Book
  <2> QED
    BY <1>1, <2>1, WriteGrows
<1>3. CASE ReconcileFetch \/ ReconcileEnd \/ (\E u \in Users : ReconcileWallet(u)) \/ UNCHANGED vars
  BY <1>1, <1>3 DEF ReconcileFetch, ReconcileEnd, ReconcileWallet, tables, vars
<1>4. CASE VerifyFetch
  BY <1>4 DEF VerifyFetch, tables, SettleInv, VerifyTypes, TradesRecorded, SettlementsVerified,
              TradeSides
<1>5. CASE VerifyEnd
  BY <1>5 DEF VerifyEnd, NoVerify, tables, SettleInv, VerifyTypes, TradesRecorded,
              SettlementsVerified
<1> QED
  BY <1>2, <1>3, <1>4, <1>5, TradeSettles, VerifySideKeeps DEF Next, TradeSides

(* VerifyTradeSettlements reports a side of a trade only if its own query failed *)
(* or if the cost may be printed in two ways: both rows are committed with the   *)
(* trade that the job has read, whatever else commits while it runs.             *)
THEOREM SettlementsAreFound == Spec => []SettlementsVerified
<1>1. Init => SettleInv
  BY DEF Init, NoVerify, SettleInv, VerifyTypes, TradesRecorded, SettlementsVerified
<1>2. SettleInv => SettlementsVerified
  BY DEF SettleInv
<1> QED
  BY <1>1, <1>2, NextSettled, PTL DEF Spec
===============================================================================
