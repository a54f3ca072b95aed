------------------------- MODULE OrderContentsProofs -------------------------
(* What the shipping methods charge, for every table of rates and every      *)
(* weight: the row that is taken, and that a heavier parcel never costs less *)
(* where the tariff itself does not say so.  And, for every catalogue and    *)
(* every request, what the orders come to: the totals follow the contents,   *)
(* a postponed product is moved, and an order in an invoice stays.           *)
EXTENDS OrderContents, SequenceTheorems, FiniteSetTheorems, WellFoundedInduction, TLAPS

\* A set of natural numbers that is not empty has a least element.
LEMMA SmallestIsLeast ==
    ASSUME NEW S \in SUBSET Nat, S # {}
    PROVE  Smallest(S) \in S /\ \A y \in S : Smallest(S) <= y
<1> DEFINE Less == OpToRel(<, Nat)
<1>1. IsWellFoundedOn(Less, Nat)
  BY NatLessThanWellFounded
<1>2. \E x \in S : \A y \in S : <<y, x>> \notin Less
  BY <1>1, WFMin
<1>3. \A x, y \in S : <<y, x>> \notin Less => x <= y
  BY DEF OpToRel
<1>4. \E x \in S : \A y \in S : x <= y
  BY <1>2, <1>3
<1> QED BY <1>4 DEF Smallest

\* A superset has a smaller or the same least element.
LEMMA SmallestOfMore ==
    ASSUME NEW S \in SUBSET Nat, NEW T \in SUBSET Nat, S # {}, S \subseteq T
    PROVE  Smallest(T) <= Smallest(S)
<1>1. Smallest(S) \in T
  BY SmallestIsLeast
<1> QED BY <1>1, SmallestIsLeast

------------------------------------------------------------------------------
\* A parcel is charged the rate of a row that covers it, and no row that covers
\* it is for less weight (Shipping.get_shipping_cost).
THEOREM TableRowCovers ==
    ASSUME NEW R \in SUBSET Nat, NEW rows \in [R -> Nat], NEW weight \in Nat,
           table_cost(rows, weight) # NoRate
    PROVE  \E x \in R : /\ x >= weight
                        /\ table_cost(rows, weight) = rows[x]
                        /\ \A y \in R : y >= weight => x <= y
<1>1. RowsFor(rows, weight) \in SUBSET Nat
  BY DEF RowsFor
<1>2. RowsFor(rows, weight) # {}
  BY DEF table_cost
<1> DEFINE x == Smallest(RowsFor(rows, weight))
<1>3. x \in RowsFor(rows, weight) /\ \A y \in RowsFor(rows, weight) : x <= y
  BY <1>1, <1>2, SmallestIsLeast
<1>4. x \in R /\ x >= weight /\ \A y \in R : y >= weight => x <= y
  BY <1>3 DEF RowsFor
<1>5. table_cost(rows, weight) = rows[x]
  BY <1>2 DEF table_cost
<1> QED BY <1>4, <1>5

\* Where a heavier row never has a lower rate, a heavier parcel never costs less.
THEOREM TableIsMonotone ==
    ASSUME NEW R \in SUBSET Nat, NEW rows \in [R -> Nat],
           \A x, y \in R : x <= y => rows[x] <= rows[y],
           NEW light \in Nat, NEW heavy \in Nat, light <= heavy,
           table_cost(rows, heavy) # NoRate
    PROVE  /\ table_cost(rows, light) # NoRate
           /\ table_cost(rows, light) <= table_cost(rows, heavy)
<1>1. RowsFor(rows, light) \in SUBSET Nat /\ RowsFor(rows, heavy) \in SUBSET Nat
  BY DEF RowsFor
<1>2. RowsFor(rows, heavy) # {}
  BY DEF table_cost
<1>3. RowsFor(rows, heavy) \subseteq RowsFor(rows, light)
  <2>1. SUFFICES ASSUME NEW x \in RowsFor(rows, heavy)
                 PROVE  x \in RowsFor(rows, light)
    OBVIOUS
  <2>2. x \in DOMAIN rows /\ x \in Nat /\ x >= heavy
    BY DEF RowsFor
  <2>3. x >= light
    BY <2>2
  <2> QED BY <2>2, <2>3 DEF RowsFor
<1>4. Smallest(RowsFor(rows, light)) <= Smallest(RowsFor(rows, heavy))
  BY <1>1, <1>2, <1>3, SmallestOfMore
<1>5. Smallest(RowsFor(rows, light)) \in R /\ Smallest(RowsFor(rows, heavy)) \in R
  BY <1>1, <1>2, <1>3, SmallestIsLeast DEF RowsFor
<1>6. rows[Smallest(RowsFor(rows, light))] <= rows[Smallest(RowsFor(rows, heavy))]
  BY <1>4, <1>5
<1>7. table_cost(rows, light) = rows[Smallest(RowsFor(rows, light))]
  BY <1>2, <1>3 DEF table_cost
<1>8. table_cost(rows, heavy) = rows[Smallest(RowsFor(rows, heavy))]
  BY <1>2 DEF table_cost
<1>9. rows[Smallest(RowsFor(rows, light))] # NoRate
  <2>1. rows[Smallest(RowsFor(rows, light))] \in Nat
    BY <1>5
  <2> QED BY <2>1 DEF NoRate
<1> QED BY <1>6, <1>7, <1>8, <1>9

------------------------------------------------------------------------------
\* The least number of steps of b that covers a.
LEMMA CeilCovers ==
    ASSUME NEW a \in Nat, NEW b \in Nat \ {0}
    PROVE  /\ Ceil(a, b) \in Nat
           /\ a <= b * Ceil(a, b) /\ b * Ceil(a, b) < a + b
<1> DEFINE n == a + b - 1
<1>1. n \in Nat
  OBVIOUS
<1>2. n \div b \in Nat /\ n % b \in 0 .. b - 1 /\ n = b * (n \div b) + (n % b)
  BY <1>1
<1> QED BY <1>1, <1>2 DEF Ceil

\* More to cover takes no fewer steps.
LEMMA CeilIsMonotone ==
    ASSUME NEW a \in Nat, NEW c \in Nat, a <= c, NEW b \in Nat \ {0}
    PROVE  Ceil(a, b) <= Ceil(c, b)
<1>1. Ceil(a, b) \in Nat /\ Ceil(c, b) \in Nat
  BY CeilCovers
<1>2. b * Ceil(a, b) < b * Ceil(c, b) + b
  <2>1. b * Ceil(a, b) < a + b /\ c <= b * Ceil(c, b)
    BY CeilCovers
  <2>2. b * Ceil(a, b) \in Nat /\ b * Ceil(c, b) \in Nat
    BY <1>1
  <2> QED BY <2>1, <2>2
<1>3. ASSUME Ceil(a, b) >= Ceil(c, b) + 1
      PROVE  b * Ceil(a, b) >= b * Ceil(c, b) + b
  BY <1>1, <1>3
<1> QED BY <1>1, <1>2, <1>3

\* A tariff by weight as the administration saves it.
WeightTariffs ==
    [minimum_weight : Nat, maximum_weight : Nat, weight_step : Nat \ {0}, cost_per_kg : Nat]

\* Larger is at least each of its arguments, and grows with them.
LEMMA LargerIsMonotone ==
    ASSUME NEW a \in Nat, NEW c \in Nat, a <= c, NEW b \in Nat
    PROVE  /\ Larger(a, b) \in Nat /\ Larger(c, b) \in Nat
           /\ Larger(a, b) <= Larger(c, b) /\ a <= Larger(a, b) /\ b <= Larger(a, b)
BY DEF Larger

\* A parcel that is priced by weight pays for its whole weight and for the
\* minimum weight at least, in steps (WeightBased.get_shipping_cost).
THEOREM WeightIsPaidFor ==
    ASSUME NEW r \in WeightTariffs, NEW weight \in Nat, weight_based_cost(r, weight) # NoRate
    PROVE  /\ weight_based_cost(r, weight) >= r.cost_per_kg * weight
           /\ weight_based_cost(r, weight) >= r.cost_per_kg * r.minimum_weight
<1> DEFINE charged == Larger(weight, r.minimum_weight)
           steps == Ceil(charged, r.weight_step)
<1>1. /\ r.minimum_weight \in Nat /\ r.weight_step \in Nat \ {0} /\ r.cost_per_kg \in Nat
      /\ charged \in Nat /\ weight <= charged /\ r.minimum_weight <= charged
  BY LargerIsMonotone DEF WeightTariffs
<1>2. steps \in Nat /\ charged <= r.weight_step * steps
  BY <1>1, CeilCovers
<1>3. weight_based_cost(r, weight) = r.cost_per_kg * r.weight_step * steps
  BY DEF weight_based_cost
<1> HIDE DEF charged, steps
<1>4. r.cost_per_kg * r.weight_step * steps = r.cost_per_kg * (r.weight_step * steps)
  BY <1>1, <1>2
<1>5. ASSUME NEW a \in Nat, NEW b \in Nat, NEW c \in Nat, a <= b
      PROVE  c * a <= c * b
  BY <1>5
<1>6. r.weight_step * steps \in Nat
  BY <1>1, <1>2
<1>7. /\ r.cost_per_kg * charged <= r.cost_per_kg * (r.weight_step * steps)
      /\ r.cost_per_kg * weight <= r.cost_per_kg * charged
      /\ r.cost_per_kg * r.minimum_weight <= r.cost_per_kg * charged
  BY <1>1, <1>2, <1>5, <1>6
<1> QED BY <1>1, <1>3, <1>4, <1>6, <1>7

\* By weight a heavier parcel never costs less than a lighter one, and whatever
\* carries the heavier carries the lighter (WeightBased.get_shipping_cost).
THEOREM WeightIsMonotone ==
    ASSUME NEW r \in WeightTariffs, NEW light \in Nat, NEW heavy \in Nat, light <= heavy,
           weight_based_cost(r, heavy) # NoRate
    PROVE  /\ weight_based_cost(r, light) # NoRate
           /\ weight_based_cost(r, light) <= weight_based_cost(r, heavy)
<1> DEFINE Steps(weight) == Ceil(Larger(weight, r.minimum_weight), r.weight_step)
<1>1. /\ r.minimum_weight \in Nat /\ r.maximum_weight \in Nat
      /\ r.weight_step \in Nat \ {0} /\ r.cost_per_kg \in Nat
  BY DEF WeightTariffs
<1>2. heavy <= r.maximum_weight /\ light <= r.maximum_weight
  BY <1>1 DEF weight_based_cost
<1>3. Steps(light) \in Nat /\ Steps(heavy) \in Nat /\ Steps(light) <= Steps(heavy)
  BY <1>1, LargerIsMonotone, CeilIsMonotone, CeilCovers
<1>4. /\ weight_based_cost(r, light) = r.cost_per_kg * r.weight_step * Steps(light)
      /\ weight_based_cost(r, heavy) = r.cost_per_kg * r.weight_step * Steps(heavy)
  BY <1>1, <1>2 DEF weight_based_cost
<1> HIDE DEF Steps
<1>5. r.cost_per_kg * r.weight_step \in Nat
  BY <1>1
<1>6. ASSUME NEW a \in Nat, NEW b \in Nat, NEW c \in Nat, a <= b
      PROVE  c * a <= c * b /\ c * a \in Nat
  BY <1>6
<1>7. /\ r.cost_per_kg * r.weight_step * Steps(light) \in Nat
      /\ r.cost_per_kg * r.weight_step * Steps(light) <= r.cost_per_kg * r.weight_step * Steps(heavy)
  BY <1>3, <1>5, <1>6
<1> QED BY <1>4, <1>7 DEF NoRate

------------------------------------------------------------------------------
\* DHL's table as it is in use: a row of up to 30 kg has the price of a parcel, a
\* heavier one that of a kilogram. Both kinds rise with the weight, and 31 kg cost
\* no less than any parcel of up to 30 kg.
DHLTable(R, rows) ==
    /\ rows \in [R -> Nat]
    /\ \A x, y \in R : x <= y /\ (y <= 30000 \/ x > 30000) => rows[x] <= rows[y]
    /\ \A x, y \in R : x <= 30000 /\ y > 30000 => rows[x] <= 31 * rows[y]

\* A parcel of up to 30 kg has a row of its own kind.
DHLCovers(R, weight) == weight > 30000 \/ \E x \in R : weight < x /\ x <= 30000

\* With such a table a heavier parcel never costs less, also across the 30 kg from
\* which the rate is per kilogram, and whatever has a price has one when it is
\* lighter (DHL.get_shipping_cost). Both parcels have a row of their kind: one of
\* up to 30 kg that has none is charged a single kilogram of the next row.
THEOREM DHLIsMonotone ==
    ASSUME NEW R \in SUBSET Nat, NEW rows, DHLTable(R, rows),
           NEW light \in Nat, NEW heavy \in Nat, light <= heavy,
           DHLCovers(R, light), DHLCovers(R, heavy),
           dhl_cost(rows, heavy) # NoRate
    PROVE  /\ dhl_cost(rows, light) # NoRate
           /\ dhl_cost(rows, light) <= dhl_cost(rows, heavy)
<1> DEFINE Above(weight) == {x \in DOMAIN rows : x > weight}
           Rate(weight) == rows[Smallest(Above(weight))]
<1>0. DOMAIN rows = R /\ \A x \in R : rows[x] \in Nat
  BY DEF DHLTable
<1>1. Above(light) \in SUBSET Nat /\ Above(heavy) \in SUBSET Nat
  <2>1. DOMAIN rows \subseteq Nat
    BY <1>0
  <2>2. \A weight : Above(weight) \subseteq DOMAIN rows
    BY Zenon
  <2> HIDE DEF Above
  <2> QED BY <2>1, <2>2
<1>2. Above(heavy) # {}
  BY DEF dhl_cost
<1>3. Above(heavy) \subseteq Above(light)
  <2> SUFFICES ASSUME NEW x \in Above(heavy)
               PROVE  x \in Above(light)
    BY Zenon
  <2>1. x \in DOMAIN rows /\ x > heavy
    OBVIOUS
  <2>2. x \in Nat
    BY <1>0, <2>1
  <2>3. x > light
    BY <2>1, <2>2
  <2> QED BY <2>1, <2>3
<1> DEFINE l == Smallest(Above(light))
           h == Smallest(Above(heavy))
<1>4. l <= h
  BY <1>1, <1>2, <1>3, SmallestOfMore
<1>5. /\ l \in Above(light) /\ \A x \in Above(light) : l <= x
      /\ h \in Above(heavy) /\ \A x \in Above(heavy) : h <= x
  <2> HIDE DEF Above
  <2> QED BY <1>1, <1>2, <1>3, SmallestIsLeast
<1>6. l \in R /\ l > light /\ h \in R /\ h > heavy /\ l \in Nat /\ h \in Nat
  BY <1>0, <1>5
<1>7. light <= 30000 => l <= 30000
  <2>1. light <= 30000 => \E x \in Above(light) : x <= 30000
    BY <1>0 DEF DHLCovers
  <2> HIDE DEF Above
  <2> QED BY <1>1, <1>5, <1>6, <2>1
<1>8. heavy <= 30000 => h <= 30000
  <2>1. heavy <= 30000 => \E x \in Above(heavy) : x <= 30000
    BY <1>0 DEF DHLCovers
  <2> HIDE DEF Above
  <2> QED BY <1>1, <1>5, <1>6, <2>1
<1>9. /\ dhl_cost(rows, light) =
            IF light > 30000 THEN rows[l] * Ceil(light, 1000) ELSE rows[l]
      /\ dhl_cost(rows, heavy) =
            IF heavy > 30000 THEN rows[h] * Ceil(heavy, 1000) ELSE rows[h]
  BY <1>2, <1>3 DEF dhl_cost
<1> HIDE DEF l, h
<1>10. rows[l] \in Nat /\ rows[h] \in Nat
  BY <1>0, <1>6
<1>11. /\ Ceil(light, 1000) \in Nat /\ Ceil(heavy, 1000) \in Nat
       /\ Ceil(light, 1000) <= Ceil(heavy, 1000)
       /\ heavy > 30000 => Ceil(heavy, 1000) >= 31
  BY DEF Ceil
<1>12. ASSUME NEW a \in Nat, NEW b \in Nat, NEW c \in Nat, NEW d \in Nat, a <= b, c <= d
      PROVE  a * c \in Nat /\ b * d \in Nat /\ a * c <= b * d
  <2>1. a * c <= b * c /\ b * c <= b * d
    BY <1>12
  <2> QED BY <2>1, <1>12
<1>13. CASE light > 30000
  <2>1. rows[l] <= rows[h] /\ heavy > 30000
    BY <1>4, <1>6, <1>13 DEF DHLTable
  <2> QED BY <1>9, <1>10, <1>11, <1>12, <1>13, <2>1 DEF NoRate
<1>14. CASE light <= 30000 /\ heavy > 30000
  <2>1. rows[l] <= 31 * rows[h]
    BY <1>6, <1>7, <1>14 DEF DHLTable
  <2>2. rows[h] * 31 <= rows[h] * Ceil(heavy, 1000) /\ rows[h] * Ceil(heavy, 1000) \in Nat
    BY <1>10, <1>11, <1>12, <1>14
  <2>3. dhl_cost(rows, light) = rows[l] /\ dhl_cost(rows, heavy) = rows[h] * Ceil(heavy, 1000)
    BY <1>9, <1>14
  <2> DEFINE price == rows[h] * Ceil(heavy, 1000)
  <2>4. price \in Nat /\ rows[l] <= price
    <3>1. price \in Nat /\ rows[h] * 31 <= price
      BY <2>2
    <3> HIDE DEF price
    <3> QED BY <1>10, <2>1, <3>1
  <2> HIDE DEF price
  <2>5. dhl_cost(rows, heavy) = price
    BY <2>3 DEF price
  <2> QED BY <1>10, <2>3, <2>4, <2>5 DEF NoRate
<1>15. CASE heavy <= 30000
  <2>1. rows[l] <= rows[h] /\ light <= 30000
    BY <1>4, <1>6, <1>8, <1>15 DEF DHLTable
  <2> QED BY <1>9, <1>10, <1>15, <2>1 DEF NoRate
<1> QED BY <1>13, <1>14, <1>15

------------------------------------------------------------------------------
\* Up to 30 kg a heavier parcel never gets a lighter box, so that its weight with
\* the box grows with it (Shipping.get_box_weight).
THEOREM BoxGrowsWithParcel ==
    ASSUME NEW light \in Nat, NEW heavy \in Nat, light <= heavy, heavy < 30000
    PROVE  /\ get_box_weight(light) <= get_box_weight(heavy)
           /\ light + get_box_weight(light) <= heavy + get_box_weight(heavy)
<1> DEFINE Sizes == {2000, 5000, 10000, 15000, 20000, 30000}
           Above(weight) == {x \in Sizes : weight < x}
<1>1. DOMAIN box_weights = Sizes
  BY DEF box_weights
<1>2. Above(light) \in SUBSET Nat /\ Above(heavy) \in SUBSET Nat
  OBVIOUS
<1>3. 30000 \in Above(heavy) /\ Above(heavy) \subseteq Above(light)
  OBVIOUS
<1>4. Smallest(Above(light)) <= Smallest(Above(heavy))
  BY <1>2, <1>3, SmallestOfMore
<1>5. Smallest(Above(light)) \in Sizes /\ Smallest(Above(heavy)) \in Sizes
  BY <1>2, <1>3, SmallestIsLeast
<1>6. /\ \A x \in Sizes : box_weights[x] \in Nat
      /\ \A x, y \in Sizes : x <= y => box_weights[x] <= box_weights[y]
  BY DEF box_weights
<1>7. get_box_weight(light) = IF light = 0 THEN 0 ELSE box_weights[Smallest(Above(light))]
  BY <1>1, <1>3 DEF get_box_weight
<1>8. get_box_weight(heavy) = IF heavy = 0 THEN 0 ELSE box_weights[Smallest(Above(heavy))]
  BY <1>1, <1>3 DEF get_box_weight
<1> HIDE DEF Above, Sizes
<1>9. /\ box_weights[Smallest(Above(light))] \in Nat /\ box_weights[Smallest(Above(heavy))] \in Nat
      /\ box_weights[Smallest(Above(light))] <= box_weights[Smallest(Above(heavy))]
  <2>1. ASSUME NEW x \in Sizes, NEW y \in Sizes, x <= y
        PROVE  box_weights[x] \in Nat /\ box_weights[y] \in Nat /\ box_weights[x] <= box_weights[y]
    BY <1>6, <2>1
  <2> QED BY <1>4, <1>5, <2>1
<1> QED BY <1>7, <1>8, <1>9

-----------------------------------------------------------------------------
(* Folds over sequences.                                                     *)

\* A set that has 0, and with each number below n the next one, has all up to n.
LEMMA UpTo ==
    ASSUME NEW n \in Nat, NEW S, 0 \in S, \A i \in 1..n : i - 1 \in S => i \in S
    PROVE  0..n \subseteq S
<1> SUFFICES ASSUME ~ (0..n \subseteq S) PROVE FALSE
  OBVIOUS
<1> DEFINE Out == (0..n) \ S  Less == OpToRel(<, Nat)
<1>1. Out \in SUBSET Nat /\ Out # {} /\ \A i \in Out : i \in 1..n
  OBVIOUS
<1>2. \E i \in Out : \A j \in Out : ~ (j < i)
  <2> HIDE DEF Out
  <2>1. IsWellFoundedOn(Less, Nat)
    BY NatLessThanWellFounded
  <2>2. PICK i \in Out : \A j \in Out : ~ (<<j, i>> \in Less)
    <3> HIDE DEF Less
    <3> QED BY <1>1, <2>1, WFMin
  <2> QED BY <1>1, <2>2 DEF OpToRel
<1>3. PICK i \in Out : \A j \in Out : ~ (j < i)
  BY <1>2
<1>4. i \in 1..n /\ i - 1 \in 0..n /\ i - 1 < i
  BY <1>1, <1>3
<1> QED BY <1>3, <1>4

\* A recursion over the subsets of a finite set that takes one element after the
\* other has a solution.
SizedTo(S, n) == {s \in SUBSET S : Cardinality(s) <= n}
Solves(g, sets, D, base, pick, F) ==
    /\ g \in [sets -> D]
    /\ \A s \in sets : g[s] = IF s = {} THEN base ELSE F[pick[s]][g[s \ {pick[s]}]]

\* There is such a function: from the sets of one size to those of the next.
LEMMA FoldExists ==
    ASSUME NEW S, IsFiniteSet(S), NEW D, NEW base \in D,
           NEW pick, \A s \in SUBSET S : s # {} => pick[s] \in s,
           NEW F, \A x \in S : F[x] \in [D -> D]
    PROVE  \E g : Solves(g, SUBSET S, D, base, pick, F)
<1> DEFINE N == Cardinality(S)
           Possible == {n \in 0..N : \E g : Solves(g, SizedTo(S, n), D, base, pick, F)}
<1>0. /\ N \in Nat
      /\ \A s \in SUBSET S : IsFiniteSet(s) /\ Cardinality(s) \in Nat /\ Cardinality(s) <= N
      /\ \A s \in SUBSET S : Cardinality(s) = 0 <=> s = {}
      /\ \A s \in SUBSET S : s # {} => Cardinality(s \ {pick[s]}) = Cardinality(s) - 1
  <2>1. \A s \in SUBSET S : IsFiniteSet(s) /\ Cardinality(s) \in Nat /\ Cardinality(s) <= N
    BY FS_Subset, FS_CardinalityType
  <2> QED BY <2>1, FS_EmptySet, FS_RemoveElement
<1>1. 0 \in Possible
  <2>1. SizedTo(S, 0) = {{}}
    BY <1>0 DEF SizedTo
  <2>2. \E g : Solves(g, {{}}, D, base, pick, F)
    <3> DEFINE z == [s \in {{}} |-> base]
    <3>1. z \in [{{}} -> D] /\ \A s \in {{}} : s = {} /\ z[s] = base
      OBVIOUS
    <3>2. z \in [{{}} -> D] /\ \A s \in {{}} : z[s] = IF s = {} THEN base ELSE F[pick[s]][z[s \ {pick[s]}]]
      <4> HIDE DEF z
      <4> QED BY <3>1
    <3> HIDE DEF z
    <3>3. Solves(z, {{}}, D, base, pick, F)
      BY <3>2 DEF Solves
    <3> QED BY <3>3
  <2>3. \E g : Solves(g, SizedTo(S, 0), D, base, pick, F)
    BY <2>1, <2>2
  <2> QED BY <1>0, <2>3
<1>2. ASSUME NEW n \in 1..N, n - 1 \in Possible PROVE n \in Possible
  <2>1. PICK g : Solves(g, SizedTo(S, n - 1), D, base, pick, F)
    BY <1>2
  <2> DEFINE T == SizedTo(S, n)  L == SizedTo(S, n - 1)
             h == [s \in T |-> IF s \in L THEN g[s] ELSE F[pick[s]][g[s \ {pick[s]}]]]
  <2>2. \A s \in T : s # {} => s \ {pick[s]} \in L /\ pick[s] \in S
    BY <1>0 DEF SizedTo
  <2>3. {} \in L /\ L \subseteq T
    BY <1>0 DEF SizedTo
  <2>4. /\ \A s \in L : g[s] \in D /\ g[s] = IF s = {} THEN base ELSE F[pick[s]][g[s \ {pick[s]}]]
    BY <2>1 DEF Solves
  <2> HIDE DEF T, L
  <2>5. \A s \in L : h[s] = g[s]
    BY <2>3
  <2>6. \A s \in T : s # {} => h[s] = F[pick[s]][g[s \ {pick[s]}]] /\ h[s] \in D
    <3> SUFFICES ASSUME NEW s \in T, s # {}
                 PROVE  h[s] = F[pick[s]][g[s \ {pick[s]}]] /\ h[s] \in D
      OBVIOUS
    <3>1. h[s] = F[pick[s]][g[s \ {pick[s]}]]
      BY <2>4
    <3>2. g[s \ {pick[s]}] \in D /\ F[pick[s]] \in [D -> D]
      BY <2>2, <2>4
    <3> QED BY <3>1, <3>2
  <2>7. h \in [T -> D] /\ \A s \in T : h[s] = IF s = {} THEN base ELSE F[pick[s]][h[s \ {pick[s]}]]
    BY <2>2, <2>3, <2>4, <2>5, <2>6
  <2>8. Solves(h, T, D, base, pick, F)
    <3> HIDE DEF h
    <3> QED BY <2>7 DEF Solves
  <2> QED BY <2>8 DEF T
<1>3. N \in Possible
  <2> HIDE DEF Possible, N
  <2>1. 0..N \subseteq Possible
    BY <1>0, <1>1, <1>2, UpTo
  <2> QED BY <1>0, <2>1
<1>4. SizedTo(S, N) = SUBSET S
  BY <1>0 DEF SizedTo
<1>5. PICK g : Solves(g, SizedTo(S, N), D, base, pick, F)
  BY <1>3
<1> HIDE DEF N
<1> QED BY <1>4, <1>5

\* A set of the numbers up to n has a largest one.
LEMMA MaxOf ==
    ASSUME NEW n \in Nat
    PROVE  /\ \A s \in SUBSET (1..n) : s # {} => Max(s) \in s
           /\ \A i \in 1..n : Max(1..i) = i /\ (1..i) \ {i} = 1..(i - 1)
<1>1. ASSUME NEW s \in SUBSET (1..n), s # {} PROVE Max(s) \in s
  <2> DEFINE Top == {i \in 0..n : \A x \in s : x <= n - i}
  <2>1. \E x \in s : \A y \in s : x >= y
    <3>1. ASSUME \A x \in s : \E y \in s : ~ (x >= y) PROVE FALSE
      <4>1. 0 \in Top
        OBVIOUS
      <4>2. ASSUME NEW i \in 1..n, i - 1 \in Top PROVE i \in Top
        BY <3>1, <4>2
      <4>3. n \in Top
        <5> HIDE DEF Top
        <5> QED BY <4>1, <4>2, UpTo
      <4>4. PICK x : x \in s
        BY <1>1
      <4>5. x \in 1..n /\ x <= n - n
        BY <4>3, <4>4
      <4> QED BY <4>5
    <3> QED BY <3>1
  <2> QED BY <2>1 DEF Max
<1>2. ASSUME NEW i \in 1..n PROVE Max(1..i) = i /\ (1..i) \ {i} = 1..(i - 1)
  BY <1>2 DEF Max
<1> QED BY <1>1, <1>2

\* What is computed from one index to the next, and what the folds of the library
\* compute: a function of the sets of indices, the largest of which is the last.
Through(F, n, D) == \A i \in 1..n : F[i] \in [D -> D]
Chain(after, n, D, base, F) ==
    after \in [0..n -> D] /\ after[0] = base /\ \A i \in 1..n : after[i] = F[i][after[i - 1]]
Folds(iter, n, D, base, F) ==
    /\ iter[{}] = base
    /\ \A s \in SUBSET (1..n) : s # {} /\ iter[s \ {Max(s)}] \in D =>
           iter[s] = F[Max(s)][iter[s \ {Max(s)}]]

\* A fold over a sequence goes through its elements in their order.
LEMMA FoldChain ==
    ASSUME NEW n \in Nat, NEW D, NEW base \in D, NEW F, Through(F, n, D),
           NEW iter, Folds(iter, n, D, base, F)
    PROVE  \E after : Chain(after, n, D, base, F) /\ after[n] = iter[1..n]
<1> DEFINE Typed == {i \in 0..n : iter[1..i] \in D}
           after == [i \in 0..n |-> iter[1..i]]
<1>1. 1..0 = {}
  OBVIOUS
<1>2. ASSUME NEW i \in 1..n, iter[1..(i - 1)] \in D PROVE iter[1..i] = F[i][iter[1..(i - 1)]]
  <2> DEFINE s == 1..i
  <2>1. s \in SUBSET (1..n) /\ s # {}
    OBVIOUS
  <2>2. Max(s) = i /\ s \ {i} = 1..(i - 1)
    BY MaxOf
  <2>3. iter[s] = F[i][iter[1..(i - 1)]]
    <3> HIDE DEF s
    <3> QED BY <1>2, <2>1, <2>2 DEF Folds
  <2> QED BY <2>3
<1>3. \A i \in 0..n : iter[1..i] \in D
  <2>1. 0 \in Typed
    BY <1>1 DEF Folds
  <2>2. ASSUME NEW i \in 1..n, i - 1 \in Typed PROVE i \in Typed
    BY <1>2, <2>2 DEF Through
  <2>3. 0..n \subseteq Typed
    <3> HIDE DEF Typed
    <3> QED BY <2>1, <2>2, UpTo
  <2> QED BY <2>3
<1>4. \A i \in 1..n : i - 1 \in 0..n /\ i \in 0..n
  OBVIOUS
<1>5. after \in [0..n -> D] /\ after[0] = base /\ after[n] = iter[1..n]
  BY <1>1, <1>3 DEF Folds
<1>6. \A i \in 1..n : after[i] = F[i][after[i - 1]]
  BY <1>2, <1>3, <1>4
<1> HIDE DEF after
<1> QED BY <1>5, <1>6 DEF Chain

\* The recursion of a fold over a sequence has a solution.
LEMMA FoldSolved ==
    ASSUME NEW n \in Nat, NEW D, NEW base \in D, NEW F, Through(F, n, D)
    PROVE  \E g \in [SUBSET (1..n) -> D] : Folds(g, n, D, base, F)
<1> DEFINE pick == [s \in SUBSET (1..n) |-> Max(s)]
<1>1. IsFiniteSet(1..n)
  BY FS_Interval
<1>2. \A s \in SUBSET (1..n) : s # {} => pick[s] \in s /\ pick[s] = Max(s)
  BY MaxOf
<1> HIDE DEF pick
<1>3. PICK g : Solves(g, SUBSET (1..n), D, base, pick, F)
  <2>1. \A x \in 1..n : F[x] \in [D -> D]
    BY DEF Through
  <2> QED BY <1>1, <1>2, <2>1, FoldExists
<1>4. g \in [SUBSET (1..n) -> D] /\ g[{}] = base
  BY <1>3 DEF Solves
<1>5. ASSUME NEW s \in SUBSET (1..n), s # {}
      PROVE  Max(s) \in s /\ g[s \ {Max(s)}] \in D /\ g[s] = F[Max(s)][g[s \ {Max(s)}]]
  <2>1. pick[s] = Max(s) /\ Max(s) \in s /\ s \ {Max(s)} \in SUBSET (1..n)
    BY <1>2, <1>5
  <2>2. g[s] = F[pick[s]][g[s \ {pick[s]}]]
    BY <1>3, <1>5 DEF Solves
  <2> QED BY <1>4, <2>1, <2>2
<1> QED BY <1>4, <1>5 DEF Folds

-----------------------------------------------------------------------------
(* Sequences of the elements of a set.                                       *)

\* It has each of them once.
LEMMA SeqOfSet ==
    ASSUME NEW S, IsFiniteSet(S)
    PROVE  /\ Cardinality(S) \in Nat /\ SetToSeq(S) \in [1..Cardinality(S) -> S]
           /\ \A i, j \in 1..Cardinality(S) : SetToSeq(S)[i] = SetToSeq(S)[j] => i = j
           /\ \A x \in S : \E i \in 1..Cardinality(S) : SetToSeq(S)[i] = x
<1> DEFINE n == Cardinality(S)  f == SetToSeq(S)
<1>1. n \in Nat /\ \E g : g \in Bijection(1..n, S)
  BY FS_CardinalityType DEF ExistsBijection
<1>2. \E g \in [1..n -> S] : IsInjective(g)
  BY <1>1 DEF Bijection, Injection
<1>3. f \in [1..n -> S] /\ IsInjective(f)
  <2> HIDE DEF n
  <2> QED BY <1>2 DEF SetToSeq, n
<1>4. IsFiniteSet(1..n) /\ Cardinality(1..n) = n
  BY <1>1, FS_Interval
<1> HIDE DEF f
<1>5. f \in Surjection(1..n, S)
  BY <1>3, <1>4, FS_Injection DEF Injection
<1> QED BY <1>1, <1>3, <1>5 DEF IsInjective, Surjection, f

-----------------------------------------------------------------------------
(* Sums over finite sets.                                                    *)

\* What holds of no elements, and of some if it does without any one of them, holds
\* of all.
LEMMA OneByOne ==
    ASSUME NEW S, IsFiniteSet(S), NEW Good, {} \in Good,
           \A T \in SUBSET S : T # {} /\ (\A x \in T : T \ {x} \in Good) => T \in Good
    PROVE  SUBSET S \subseteq Good
<1> DEFINE N == Cardinality(S)
           Sized == {n \in 0..N : \A T \in SUBSET S : Cardinality(T) = n => T \in Good}
<1>1. /\ N \in Nat /\ \A T \in SUBSET S : IsFiniteSet(T) /\ Cardinality(T) \in Nat
      /\ \A T \in SUBSET S : Cardinality(T) = 0 => T = {}
      /\ \A T \in SUBSET S : \A x \in T : Cardinality(T \ {x}) = Cardinality(T) - 1
  <2>1. \A T \in SUBSET S : IsFiniteSet(T) /\ Cardinality(T) \in Nat
    BY FS_Subset, FS_CardinalityType
  <2>2. N \in Nat
    BY FS_CardinalityType
  <2>3. \A T \in SUBSET S : Cardinality(T) = 0 => T = {}
    BY <2>1, FS_EmptySet
  <2>4. \A T \in SUBSET S : \A x \in T : Cardinality(T \ {x}) = Cardinality(T) - 1
    BY <2>1, FS_RemoveElement
  <2> QED BY <2>1, <2>2, <2>3, <2>4
<1>2. 0 \in Sized
  <2>1. \A T \in SUBSET S : Cardinality(T) = 0 => T \in Good
    BY <1>1
  <2>2. 0 \in 0..N
    BY <1>1
  <2> QED BY <2>1, <2>2
<1>3. ASSUME NEW n \in 1..N, n - 1 \in Sized PROVE n \in Sized
  <2> SUFFICES ASSUME NEW T \in SUBSET S, Cardinality(T) = n PROVE T \in Good
    OBVIOUS
  <2>1. T # {}
    BY FS_EmptySet
  <2>2. \A x \in T : Cardinality(T \ {x}) = n - 1 /\ T \ {x} \in SUBSET S
    BY <1>1
  <2>3. \A x \in T : T \ {x} \in Good
    BY <1>3, <2>2
  <2> QED BY <2>1, <2>3
<1>4. 0..N \subseteq Sized
  <2> HIDE DEF Sized, N
  <2> QED BY <1>1, <1>2, <1>3, UpTo
<1>5. \A T \in SUBSET S : Cardinality(T) \in 0..N
  BY <1>1, FS_Subset
<1> QED BY <1>4, <1>5

Chosen(s) == CHOOSE x \in s : TRUE

\* What the sums of the library compute: a function of the subsets.
Sums(g, f, S) ==
    /\ g \in [SUBSET S -> Int] /\ g[{}] = 0
    /\ \A s \in SUBSET S : s # {} => Chosen(s) \in s /\ g[s] = f[Chosen(s)] + g[s \ {Chosen(s)}]
Integral(f, S) == \A x \in S : f[x] \in Int

\* There is such a function, and the sum over S is its value there.
LEMMA SumSolves ==
    ASSUME NEW S, IsFiniteSet(S), NEW f, Integral(f, S)
    PROVE  \E g : Sums(g, f, S) /\ SumFunctionOnSet(f, S) = g[S]
<1> DEFINE pick == [s \in SUBSET S |-> Chosen(s)]
           F == [x \in S |-> [n \in Int |-> f[x] + n]]
           Iter(g) == g = [s \in SUBSET S |->
                              IF s = {} THEN 0 ELSE f[Chosen(s)] + g[s \ {Chosen(s)}]]
<1>1. SumFunctionOnSet(f, S) = (CHOOSE g : Iter(g))[S]
  BY DEF SumFunctionOnSet, FoldFunctionOnSet, MapThenFoldSet, Chosen
<1>2. \A s \in SUBSET S : s # {} => Chosen(s) \in s /\ pick[s] = Chosen(s) /\ s \ {Chosen(s)} \in SUBSET S
  BY DEF Chosen
<1>3. \A x \in S : F[x] \in [Int -> Int] /\ \A n \in Int : F[x][n] = f[x] + n
  BY DEF Integral
<1> HIDE DEF pick, F
<1>4. PICK g : Solves(g, SUBSET S, Int, 0, pick, F)
  <2>1. \A s \in SUBSET S : s # {} => pick[s] \in s
    BY <1>2
  <2>2. \A x \in S : F[x] \in [Int -> Int]
    BY <1>3
  <2>3. 0 \in Int
    OBVIOUS
  <2> QED BY <2>1, <2>2, <2>3, FoldExists
<1>5. Iter(g)
  <2>1. g \in [SUBSET S -> Int] /\ \A s \in SUBSET S : g[s] = IF s = {} THEN 0 ELSE F[pick[s]][g[s \ {pick[s]}]]
    BY <1>4 DEF Solves
  <2>2. ASSUME NEW s \in SUBSET S, s # {} PROVE g[s] = f[Chosen(s)] + g[s \ {Chosen(s)}]
    <3>1. PICK x \in S : x = Chosen(s) /\ x = pick[s] /\ s \ {x} \in SUBSET S
      BY <1>2, <2>2
    <3>2. g[s] = F[x][g[s \ {x}]] /\ g[s \ {x}] \in Int
      BY <2>1, <2>2, <3>1
    <3> QED BY <1>3, <3>1, <3>2
  <2> QED BY <2>1, <2>2
<1>6. PICK h : Iter(h) /\ h = CHOOSE x : Iter(x)
  BY <1>5
<1>7. \A s \in SUBSET S : h[s] = IF s = {} THEN 0 ELSE f[Chosen(s)] + h[s \ {Chosen(s)}]
  BY <1>6
<1>8. \A T \in SUBSET S : h[T] \in Int
  <2> DEFINE Good == {s \in SUBSET S : h[s] \in Int}
  <2>1. {} \in Good
    <3>1. {} \in SUBSET S /\ h[{}] = 0
      BY <1>7
    <3> QED BY <3>1
  <2>2. ASSUME NEW T \in SUBSET S, T # {}, \A x \in T : T \ {x} \in Good PROVE T \in Good
    <3>1. PICK x \in T : x = Chosen(T)
      BY <1>2, <2>2
    <3>2. h[T] = f[x] + h[T \ {x}] /\ f[x] \in Int /\ h[T \ {x}] \in Int
      BY <1>7, <2>2, <3>1 DEF Integral
    <3> QED BY <3>2
  <2>3. SUBSET S \subseteq Good
    <3> HIDE DEF Good
    <3> QED BY <2>1, <2>2, OneByOne
  <2> QED BY <2>3
<1>9. Sums(h, f, S)
  <2>1. h \in [SUBSET S -> Int]
    BY <1>6, <1>8
  <2> QED BY <1>2, <1>7, <2>1 DEF Sums
<1> QED BY <1>1, <1>6, <1>9

\* The order does not matter.
LEMMA SumAny ==
    ASSUME NEW S, IsFiniteSet(S), NEW f, Integral(f, S), NEW g, Sums(g, f, S)
    PROVE  \A T \in SUBSET S : \A x \in T : g[T] = f[x] + g[T \ {x}]
<1> DEFINE Good == {T \in SUBSET S : \A x \in T : g[T] = f[x] + g[T \ {x}]}
<1>1. {} \in Good
  OBVIOUS
<1>2. ASSUME NEW T \in SUBSET S, T # {}, \A x \in T : T \ {x} \in Good PROVE T \in Good
  <2> SUFFICES ASSUME NEW x \in T PROVE g[T] = f[x] + g[T \ {x}]
    OBVIOUS
  <2>1. PICK p \in T : p = Chosen(T) /\ g[T] = f[p] + g[T \ {p}]
    BY <1>2 DEF Sums
  <2>2. CASE x = p
    BY <2>1, <2>2
  <2>3. CASE x # p
    <3> DEFINE A == T \ {p}  B == T \ {x}  C == (T \ {p}) \ {x}
    <3>1. x \in A /\ p \in B /\ C = B \ {p} /\ C = A \ {x} /\ C \in SUBSET S /\ A \in SUBSET S /\ B \in SUBSET S
      BY <2>3
    <3>2. A \in Good /\ B \in Good
      BY <1>2
    <3> HIDE DEF A, B, C
    <3>3. g[A] = f[x] + g[C] /\ g[B] = f[p] + g[C]
      BY <3>1, <3>2
    <3>4. f[x] \in Int /\ f[p] \in Int /\ g[C] \in Int
      BY <3>1 DEF Sums, Integral
    <3>5. g[T] = f[x] + g[B]
      BY <2>1, <3>3, <3>4 DEF A
    <3> QED BY <3>5 DEF B
  <2> QED BY <2>2, <2>3
<1>3. SUBSET S \subseteq Good
  <2> HIDE DEF Good
  <2> QED BY <1>1, <1>2, OneByOne
<1> QED BY <1>3

\* The sum of no elements is zero, and with an element it is its value more.
LEMMA SumOver ==
    ASSUME NEW S, IsFiniteSet(S), NEW f, Integral(f, S)
    PROVE  /\ SumFunctionOnSet(f, {}) = 0 /\ SumFunctionOnSet(f, S) \in Int
           /\ \A x \in S : /\ SumFunctionOnSet(f, S \ {x}) \in Int
                           /\ SumFunctionOnSet(f, S) = f[x] + SumFunctionOnSet(f, S \ {x})
<1>1. PICK g : Sums(g, f, S) /\ SumFunctionOnSet(f, S) = g[S]
  BY SumSolves
<1>2. ASSUME NEW T \in SUBSET S PROVE SumFunctionOnSet(f, T) = g[T]
  <2>1. IsFiniteSet(T) /\ Integral(f, T)
    BY FS_Subset DEF Integral
  <2>2. PICK k : Sums(k, f, T) /\ SumFunctionOnSet(f, T) = k[T]
    BY <2>1, SumSolves
  <2> DEFINE Good == {U \in SUBSET T : k[U] = g[U]}
  <2>3. {} \in Good
    BY <1>1, <2>2 DEF Sums
  <2>4. ASSUME NEW U \in SUBSET T, U # {}, \A x \in U : U \ {x} \in Good PROVE U \in Good
    <3>1. PICK x \in U : x = Chosen(U)
      BY <2>2, <2>4 DEF Sums
    <3>2. k[U] = f[x] + k[U \ {x}]
      BY <2>2, <2>4, <3>1 DEF Sums
    <3>3. g[U] = f[x] + g[U \ {x}]
      BY <1>1, <2>4, <3>1 DEF Sums
    <3>4. k[U \ {x}] = g[U \ {x}]
      BY <2>4
    <3> QED BY <3>2, <3>3, <3>4
  <2>5. SUBSET T \subseteq Good
    <3> HIDE DEF Good
    <3> QED BY <2>1, <2>3, <2>4, OneByOne
  <2> QED BY <2>2, <2>5
<1>3. \A x \in S : g[S] = f[x] + g[S \ {x}]
  BY <1>1, SumAny
<1>4. g[{}] = 0 /\ g \in [SUBSET S -> Int]
  BY <1>1 DEF Sums
<1> QED BY <1>2, <1>3, <1>4

\* Sums of the same values, of natural numbers, and of sums.
LEMMA SumSame ==
    ASSUME NEW S, IsFiniteSet(S), NEW f, NEW g, Integral(f, S), \A x \in S : f[x] = g[x]
    PROVE  SumFunctionOnSet(f, S) = SumFunctionOnSet(g, S)
<1> DEFINE Good == {T \in SUBSET S : SumFunctionOnSet(f, T) = SumFunctionOnSet(g, T)}
<1>1. \A T \in SUBSET S : IsFiniteSet(T) /\ Integral(f, T) /\ Integral(g, T)
  BY FS_Subset DEF Integral
<1>2. {} \in Good
  BY <1>1, SumOver
<1>3. ASSUME NEW T \in SUBSET S, T # {}, \A x \in T : T \ {x} \in Good PROVE T \in Good
  <2>1. PICK x : x \in T
    BY <1>3
  <2>2. SumFunctionOnSet(f, T) = f[x] + SumFunctionOnSet(f, T \ {x})
    BY <1>1, <2>1, SumOver
  <2>3. SumFunctionOnSet(g, T) = g[x] + SumFunctionOnSet(g, T \ {x})
    BY <1>1, <2>1, SumOver
  <2> QED BY <1>3, <2>1, <2>2, <2>3
<1>4. SUBSET S \subseteq Good
  <2> HIDE DEF Good
  <2> QED BY <1>2, <1>3, OneByOne
<1> QED BY <1>4

\* A sum of natural numbers is one.
LEMMA SumIsNat ==
    ASSUME NEW S, IsFiniteSet(S), NEW f, \A x \in S : f[x] \in Nat
    PROVE  SumFunctionOnSet(f, S) \in Nat
<1> DEFINE Good == {T \in SUBSET S : SumFunctionOnSet(f, T) \in Nat}
<1>1. \A T \in SUBSET S : IsFiniteSet(T) /\ Integral(f, T)
  BY FS_Subset DEF Integral
<1>2. {} \in Good
  BY <1>1, SumOver
<1>3. ASSUME NEW T \in SUBSET S, T # {}, \A x \in T : T \ {x} \in Good PROVE T \in Good
  <2>1. PICK x : x \in T
    BY <1>3
  <2>2. SumFunctionOnSet(f, T) = f[x] + SumFunctionOnSet(f, T \ {x})
    BY <1>1, <2>1, SumOver
  <2> QED BY <1>3, <2>1, <2>2
<1>4. SUBSET S \subseteq Good
  <2> HIDE DEF Good
  <2> QED BY <1>2, <1>3, OneByOne
<1> QED BY <1>4

\* A set of which some elements count the same more: as often as there are such.
LEMMA SumWithSurcharge ==
    ASSUME NEW S, IsFiniteSet(S), NEW f, NEW g, Integral(f, S), NEW c \in Int, NEW W \in SUBSET S,
           \A x \in S : g[x] = f[x] + (IF x \in W THEN c ELSE 0)
    PROVE  SumFunctionOnSet(g, S) = SumFunctionOnSet(f, S) + c * Cardinality(W)
<1> DEFINE Good == {T \in SUBSET S : SumFunctionOnSet(g, T) = SumFunctionOnSet(f, T) + c * Cardinality(T \cap W)}
<1>1. \A T \in SUBSET S : /\ IsFiniteSet(T) /\ Integral(f, T) /\ Integral(g, T)
                         /\ IsFiniteSet(T \cap W) /\ Cardinality(T \cap W) \in Nat
  BY FS_Subset, FS_CardinalityType DEF Integral
<1>2. {} \in Good
  <2>1. SumFunctionOnSet(f, {}) = 0 /\ SumFunctionOnSet(g, {}) = 0
    BY <1>1, SumOver
  <2>2. {} \cap W = {} /\ Cardinality({}) = 0
    BY FS_EmptySet
  <2> QED BY <2>1, <2>2
<1>3. ASSUME NEW T \in SUBSET S, T # {}, \A x \in T : T \ {x} \in Good PROVE T \in Good
  <2>1. PICK x : x \in T
    BY <1>3
  <2> DEFINE U == T \ {x}
  <2>2. /\ SumFunctionOnSet(f, T) = f[x] + SumFunctionOnSet(f, U) /\ SumFunctionOnSet(f, U) \in Int
        /\ SumFunctionOnSet(g, T) = g[x] + SumFunctionOnSet(g, U)
    BY <1>1, <2>1, SumOver
  <2>3. SumFunctionOnSet(g, U) = SumFunctionOnSet(f, U) + c * Cardinality(U \cap W)
    BY <1>3, <2>1
  <2>4. (T \cap W) \ {x} = U \cap W
    OBVIOUS
  <2>5. Cardinality(U \cap W) = IF x \in W THEN Cardinality(T \cap W) - 1 ELSE Cardinality(T \cap W)
    <3>1. CASE x \in W
      <4>1. x \in T \cap W
        BY <2>1, <3>1
      <4> QED BY <1>1, <2>4, <3>1, <4>1, FS_RemoveElement
    <3>2. CASE x \notin W
      <4>1. U \cap W = T \cap W
        BY <2>4, <3>2
      <4> QED BY <3>2, <4>1
    <3> QED BY <3>1, <3>2
  <2>6. g[x] = f[x] + (IF x \in W THEN c ELSE 0) /\ f[x] \in Int
    BY <2>1 DEF Integral
  <2> HIDE DEF U
  <2>7. Cardinality(T \cap W) \in Nat
    BY <1>1
  <2>8. c * (Cardinality(T \cap W) - 1) = c * Cardinality(T \cap W) - c
    BY <2>7
  <2>9. SumFunctionOnSet(g, T) = SumFunctionOnSet(f, T) + c * Cardinality(T \cap W)
    <3>1. CASE x \in W
      BY <2>2, <2>3, <2>5, <2>6, <2>7, <2>8, <3>1
    <3>2. CASE x \notin W
      BY <2>2, <2>3, <2>5, <2>6, <2>7, <3>2
    <3> QED BY <3>1, <3>2
  <2> QED BY <2>9
<1>4. SUBSET S \subseteq Good
  <2> HIDE DEF Good
  <2> QED BY <1>2, <1>3, OneByOne
<1>5. S \cap W = W
  OBVIOUS
<1> QED BY <1>4, <1>5

-----------------------------------------------------------------------------
(* Tables: functions whose keys come and go.                                 *)

Tables(K, V) == UNION {[S -> V] : S \in SUBSET K}

\* A table is a function from some of the keys.
LEMMA TableIs ==
    ASSUME NEW K, NEW V, NEW f
    PROVE  f \in Tables(K, V) <=> /\ DOMAIN f \subseteq K /\ f \in [DOMAIN f -> V]
  BY DEF Tables

\* A row is added,
Added(f, g, k, v) ==
    /\ DOMAIN g = DOMAIN f \cup {k} /\ IsFiniteSet(DOMAIN g)
    /\ g[k] = v /\ \A x \in DOMAIN f : x # k => g[x] = f[x]

\* With adds a row to a table, or replaces it.
LEMMA RowAdded ==
    ASSUME NEW K, NEW V, NEW f \in Tables(K, V), IsFiniteSet(DOMAIN f), NEW k \in K, NEW v \in V
    PROVE  With(f, k, v) \in Tables(K, V) /\ Added(f, With(f, k, v), k, v)
<1> DEFINE g == With(f, k, v)
<1>1. g = [x \in DOMAIN f \cup {k} |-> IF x = k THEN v ELSE f[x]]
  BY DEF With
<1>2. DOMAIN f \subseteq K /\ \A x \in DOMAIN f : f[x] \in V
  BY TableIs
<1>3. IsFiniteSet(DOMAIN f \cup {k})
  BY FS_AddElement
<1> HIDE DEF g
<1>4. DOMAIN g = DOMAIN f \cup {k} /\ g \in [DOMAIN g -> V] /\ DOMAIN g \subseteq K
  BY <1>1, <1>2
<1>5. g \in Tables(K, V)
  BY <1>4, TableIs
<1>6. g[k] = v /\ \A x \in DOMAIN f : x # k => g[x] = f[x]
  BY <1>1
<1>7. Added(f, g, k, v)
  BY <1>3, <1>4, <1>6 DEF Added
<1> QED BY <1>5, <1>7 DEF g

\* rows are deleted,
Deleted(f, g, S) ==
    /\ DOMAIN g = DOMAIN f \ S /\ IsFiniteSet(DOMAIN g)
    /\ \A x \in DOMAIN f \ S : g[x] = f[x]

\* Without deletes rows of a table.
LEMMA RowsDeleted ==
    ASSUME NEW K, NEW V, NEW f \in Tables(K, V), IsFiniteSet(DOMAIN f), NEW S
    PROVE  Without(f, S) \in Tables(K, V) /\ Deleted(f, Without(f, S), S)
<1>1. Without(f, S) = [x \in DOMAIN f \ S |-> f[x]]
  BY DEF Without, Restrict
<1>2. DOMAIN f \subseteq K /\ \A x \in DOMAIN f : f[x] \in V
  BY TableIs
<1>3. IsFiniteSet(DOMAIN f \ S)
  BY FS_Difference
<1>4. DOMAIN Without(f, S) = DOMAIN f \ S /\ Without(f, S) \in [DOMAIN f \ S -> V]
  BY <1>1, <1>2
<1>5. Without(f, S) \in Tables(K, V)
  BY <1>2, <1>4, TableIs
<1> QED BY <1>1, <1>3, <1>4, <1>5 DEF Deleted

\* or one is changed.
LEMMA RowChanged ==
    ASSUME NEW K, NEW V, NEW f \in Tables(K, V), NEW k \in DOMAIN f, NEW v \in V
    PROVE  /\ [f EXCEPT ![k] = v] \in Tables(K, V)
           /\ DOMAIN [f EXCEPT ![k] = v] = DOMAIN f /\ [f EXCEPT ![k] = v][k] = v
           /\ \A x \in DOMAIN f : x # k => [f EXCEPT ![k] = v][x] = f[x]
<1>1. DOMAIN f \subseteq K /\ f \in [DOMAIN f -> V]
  BY TableIs
<1>2. [f EXCEPT ![k] = v] \in [DOMAIN f -> V] /\ DOMAIN [f EXCEPT ![k] = v] = DOMAIN f
  BY <1>1
<1>3. [f EXCEPT ![k] = v] \in Tables(K, V)
  BY <1>1, <1>2, TableIs
<1> QED BY <1>2, <1>3

\* A finite set of integers that is not empty has a largest element.
LEMMA LargestOf ==
    ASSUME NEW S \in SUBSET Int, IsFiniteSet(S), S # {}
    PROVE  Max(S) \in S /\ \A x \in S : x <= Max(S)
<1> DEFINE Good == {T \in SUBSET S : T = {} \/ \E x \in T : \A y \in T : x >= y}
<1>1. {} \in Good
  OBVIOUS
<1>2. ASSUME NEW T \in SUBSET S, T # {}, \A x \in T : T \ {x} \in Good PROVE T \in Good
  <2>1. PICK x : x \in T
    BY <1>2
  <2>2. T \ {x} = {} \/ \E z \in T \ {x} : \A y \in T \ {x} : z >= y
    BY <1>2, <2>1
  <2>3. CASE T \ {x} = {}
    BY <2>1, <2>3
  <2>4. CASE \E z \in T \ {x} : \A y \in T \ {x} : z >= y
    <3>1. PICK z \in T \ {x} : \A y \in T \ {x} : z >= y
      BY <2>4
    <3>2. x \in Int /\ z \in Int
      BY <2>1
    <3>3. CASE z >= x
      <4>1. \A y \in T : z >= y
        BY <3>1, <3>3
      <4> QED BY <4>1
    <3>4. CASE ~ (z >= x)
      <4>1. \A y \in T : x >= y
        <5> SUFFICES ASSUME NEW y \in T PROVE x >= y
          OBVIOUS
        <5>1. y \in Int
          OBVIOUS
        <5> QED BY <3>1, <3>2, <3>4, <5>1
      <4> QED BY <2>1, <4>1
    <3> QED BY <3>3, <3>4
  <2> QED BY <2>2, <2>3, <2>4
<1>3. S \in Good
  <2>1. SUBSET S \subseteq Good
    <3> HIDE DEF Good
    <3> QED BY <1>1, <1>2, OneByOne
  <2> QED BY <2>1
<1>4. \E x \in S : \A y \in S : x >= y
  BY <1>3
<1> QED BY <1>4 DEF Max

\* The last of some numbers is one of them or zero, and none is larger.
LEMMA LastNumberIs ==
    ASSUME NEW S \in SUBSET Nat, IsFiniteSet(S)
    PROVE  /\ LastNumber(S) \in Nat /\ LastNumber(S) \in {0} \cup S
           /\ \A x \in S : x <= LastNumber(S)
<1> DEFINE T == {0} \cup S
<1>1. IsFiniteSet(S \cup {0}) /\ S \cup {0} = T /\ T # {} /\ T \in SUBSET Int /\ T \in SUBSET Nat
  BY FS_AddElement
<1> HIDE DEF T
<1>2. Max(T) \in T /\ \A x \in T : x <= Max(T)
  BY <1>1, LargestOf
<1> QED BY <1>1, <1>2 DEF LastNumber, T

\* Of so many numbers and one more, one is not taken.
LEMMA OneIsFree ==
    ASSUME NEW S, IsFiniteSet(S), NEW f \in [1..(Cardinality(S) + 1) -> Int],
           \A i, j \in 1..(Cardinality(S) + 1) : f[i] = f[j] => i = j
    PROVE  \E i \in 1..(Cardinality(S) + 1) : f[i] \notin S
<1> SUFFICES ASSUME \A i \in 1..(Cardinality(S) + 1) : f[i] \in S PROVE FALSE
  OBVIOUS
<1> DEFINE n == Cardinality(S)  I == 1..(n + 1)
<1>1. n \in Nat
  BY FS_CardinalityType
<1>2. IsFiniteSet(I) /\ Cardinality(I) = n + 1
  BY <1>1, FS_Interval
<1>3. f \in Injection(I, S)
  BY DEF Injection, IsInjective
<1> HIDE DEF I
<1>4. Cardinality(I) <= n
  BY <1>3, FS_Injection
<1> QED BY <1>1, <1>2, <1>4

\* An id of a new row is a natural number that no row has.
LEMMA NextIdIs ==
    ASSUME NEW V, NEW f \in Tables(Nat, V), IsFiniteSet(DOMAIN f)
    PROVE  NextId(f) \in Nat /\ NextId(f) \notin DOMAIN f
<1> DEFINE n == Cardinality(DOMAIN f)  Free == 1 .. n + 1 \ DOMAIN f
           id == [i \in 1..(n + 1) |-> i]
<1>1. n \in Nat
  BY FS_CardinalityType
<1>2. \E i \in 1..(n + 1) : id[i] \notin DOMAIN f
  <2>1. id \in [1..(n + 1) -> Int] /\ \A i, j \in 1..(n + 1) : id[i] = id[j] => i = j
    OBVIOUS
  <2> HIDE DEF id
  <2> QED BY <2>1, OneIsFree
<1>3. Free # {} /\ Free \in SUBSET Nat
  BY <1>1, <1>2
<1> HIDE DEF Free
<1>4. Smallest(Free) \in Free
  BY <1>3, SmallestIsLeast
<1> QED BY <1>3, <1>4 DEF NextId, Free

-----------------------------------------------------------------------------
(* The database.                                                             *)

Row == [status : OrderStatuses, shipping : Methods, manual : BOOLEAN, total_weight : Nat,
        boxes : Boxes \cup {<<>>}, subtotal : Nat, cost : Nat \cup {NoRate}, total : Int,
        invoice : Nat \cup {None}, when_created : Nat]
Line == [suborder : Int \X Nat, product : Products, price : Nat, quantity : Nat,
         status : ProductStatuses]
OrderIds == Int
SuborderIds == Int \X Nat
LineIds == Nat
Databases(invoices, requests) ==
    [orders : Tables(OrderIds, Row), suborders : Tables(SuborderIds, Subcustomers),
     lines : Tables(LineIds, Line), invoices : {invoices}, subcustomers : SUBSET Subcustomers,
     unpriced : SUBSET Int, requests : {requests}]

\* The rows have their types, and they refer to rows that are there.
Finite(d) == /\ IsFiniteSet(DOMAIN d.orders) /\ IsFiniteSet(DOMAIN d.suborders)
             /\ IsFiniteSet(DOMAIN d.lines) /\ IsFiniteSet(DOMAIN d.invoices)
             /\ DOMAIN d.invoices \subseteq Nat
Linked(d) ==
    /\ \A s \in DOMAIN d.suborders : /\ s[1] \in DOMAIN d.orders
                                    /\ d.suborders[s] \in d.subcustomers
    /\ \A l \in DOMAIN d.lines : d.lines[l].suborder \in DOMAIN d.suborders
    /\ \A o \in DOMAIN d.orders : d.orders[o].invoice \in DOMAIN d.invoices \cup {None}
    /\ d.unpriced \subseteq DOMAIN d.orders
Sound(d) == d \in Databases(d.invoices, d.requests) /\ Finite(d) /\ Linked(d)

\* What an order has is in two databases the same,
Mine(d, o) == {l \in DOMAIN d.lines : d.lines[l].suborder[1] = o}
Alike(d, e, o) ==
    /\ SubordersOf(e, o) = SubordersOf(d, o)
    /\ Mine(e, o) = Mine(d, o)
    /\ \A l \in Mine(d, o) : e.lines[l] = d.lines[l]

\* and the databases that differ from d in one order.
Only(d, e, o) == \A x \in DOMAIN d.orders \ {o} : Alike(d, e, x) /\ e.orders[x] = d.orders[x]
States(d, o) ==
    {e \in Databases(d.invoices, d.requests) :
        /\ Sound(e) /\ DOMAIN e.orders = DOMAIN d.orders /\ e.unpriced = d.unpriced
        /\ Only(d, e, o)}

\* A sound database differs from itself in no order.
LEMMA StatesBegin ==
    ASSUME NEW d, Sound(d), NEW o
    PROVE  d \in States(d, o)
  BY DEF States, Sound, Only, Alike

\* Two tables of order products agree on those of every order but o.
ElsewhereSame(K, L, o) ==
    /\ \A l \in DOMAIN K : K[l].suborder[1] # o => l \in DOMAIN L /\ L[l] = K[l]
    /\ \A l \in DOMAIN L : L[l].suborder[1] # o => l \in DOMAIN K /\ L[l] = K[l]

\* A database stays sound, and differs in one order only, when that gets other products,
LEMMA WithLines ==
    ASSUME NEW d, NEW o, NEW e \in States(d, o),
           NEW L \in Tables(LineIds, Line), IsFiniteSet(DOMAIN L), ElsewhereSame(e.lines, L, o),
           \A l \in DOMAIN L : L[l].suborder \in DOMAIN e.suborders
    PROVE  [e EXCEPT !.lines = L] \in States(d, o)
<1> DEFINE f == [e EXCEPT !.lines = L]
<1>1. /\ e \in Databases(d.invoices, d.requests) /\ Finite(e) /\ Linked(e)
      /\ DOMAIN e.orders = DOMAIN d.orders /\ e.unpriced = d.unpriced /\ Only(d, e, o)
  BY DEF States, Sound
<1>2. /\ f \in Databases(d.invoices, d.requests) /\ f.lines = L /\ f.orders = e.orders
      /\ f.suborders = e.suborders /\ f.invoices = e.invoices /\ f.subcustomers = e.subcustomers
      /\ f.unpriced = e.unpriced /\ f.requests = e.requests /\ f.invoices = d.invoices
      /\ f.requests = d.requests
  BY <1>1 DEF Databases
<1> HIDE DEF f
<1>3. Sound(f)
  BY <1>1, <1>2 DEF Sound, Finite, Linked
<1>4. Only(d, f, o)
  <2> SUFFICES ASSUME NEW x \in DOMAIN d.orders \ {o} PROVE Alike(d, f, x) /\ f.orders[x] = d.orders[x]
    BY DEF Only
  <2>1. Alike(d, e, x) /\ e.orders[x] = d.orders[x]
    BY <1>1 DEF Only
  <2>2. Mine(f, x) = Mine(e, x) /\ \A l \in Mine(e, x) : f.lines[l] = e.lines[l]
    BY <1>2 DEF Mine, ElsewhereSame
  <2>3. SubordersOf(f, x) = SubordersOf(e, x)
    BY <1>2 DEF SubordersOf
  <2> QED BY <1>2, <2>1, <2>2, <2>3 DEF Alike
<1> QED BY <1>1, <1>2, <1>3, <1>4 DEF States, f

\* other suborders,
LEMMA WithSuborders ==
    ASSUME NEW d, NEW o, NEW e \in States(d, o),
           NEW S \in Tables(SuborderIds, Subcustomers), IsFiniteSet(DOMAIN S),
           \A s \in DOMAIN S : S[s] \in e.subcustomers /\ s[1] \in DOMAIN e.orders,
           \A s : s[1] # o => (s \in DOMAIN S <=> s \in DOMAIN e.suborders),
           \A l \in DOMAIN e.lines : e.lines[l].suborder \in DOMAIN S
    PROVE  [e EXCEPT !.suborders = S] \in States(d, o)
<1> DEFINE f == [e EXCEPT !.suborders = S]
<1>1. /\ e \in Databases(d.invoices, d.requests) /\ Finite(e) /\ Linked(e)
      /\ DOMAIN e.orders = DOMAIN d.orders /\ e.unpriced = d.unpriced /\ Only(d, e, o)
  BY DEF States, Sound
<1>2. /\ f \in Databases(d.invoices, d.requests) /\ f.lines = e.lines /\ f.orders = e.orders
      /\ f.suborders = S /\ f.invoices = e.invoices /\ f.subcustomers = e.subcustomers
      /\ f.unpriced = e.unpriced /\ f.requests = e.requests /\ f.invoices = d.invoices
      /\ f.requests = d.requests
  BY <1>1 DEF Databases
<1> HIDE DEF f
<1>3. Sound(f)
  BY <1>1, <1>2 DEF Sound, Finite, Linked
<1>4. Only(d, f, o)
  <2> SUFFICES ASSUME NEW x \in DOMAIN d.orders \ {o} PROVE Alike(d, f, x) /\ f.orders[x] = d.orders[x]
    BY DEF Only
  <2>1. Alike(d, e, x) /\ e.orders[x] = d.orders[x]
    BY <1>1 DEF Only
  <2>2. Mine(f, x) = Mine(e, x) /\ \A l \in Mine(e, x) : f.lines[l] = e.lines[l]
    BY <1>2 DEF Mine
  <2>3. SubordersOf(f, x) = SubordersOf(e, x)
    BY <1>2 DEF SubordersOf
  <2> QED BY <1>2, <2>1, <2>2, <2>3 DEF Alike
<1> QED BY <1>1, <1>2, <1>3, <1>4 DEF States, f

\* another row,
LEMMA WithOrder ==
    ASSUME NEW d, NEW o \in DOMAIN d.orders, NEW e \in States(d, o),
           NEW r \in Row, r.invoice \in DOMAIN e.invoices \cup {None}
    PROVE  [e EXCEPT !.orders[o] = r] \in States(d, o)
<1> DEFINE f == [e EXCEPT !.orders[o] = r]
<1>1. /\ e \in Databases(d.invoices, d.requests) /\ Finite(e) /\ Linked(e)
      /\ DOMAIN e.orders = DOMAIN d.orders /\ e.unpriced = d.unpriced /\ Only(d, e, o)
  BY DEF States, Sound
<1>2. e.orders \in Tables(OrderIds, Row)
  BY <1>1 DEF Databases
<1> DEFINE O == [e.orders EXCEPT ![o] = r]
<1>3. /\ O \in Tables(OrderIds, Row) /\ DOMAIN O = DOMAIN e.orders
      /\ O[o] = r /\ \A x \in DOMAIN e.orders : x # o => O[x] = e.orders[x]
  BY <1>1, <1>2, RowChanged
<1>4. f = [e EXCEPT !.orders = O]
  BY <1>1 DEF Databases
<1> HIDE DEF O, f
<1>5. /\ f \in Databases(d.invoices, d.requests) /\ f.lines = e.lines /\ f.orders = O
      /\ f.suborders = e.suborders /\ f.invoices = e.invoices /\ f.subcustomers = e.subcustomers
      /\ f.unpriced = e.unpriced /\ f.requests = e.requests /\ f.invoices = d.invoices
      /\ f.requests = d.requests
  BY <1>1, <1>3, <1>4 DEF Databases
<1>6. Sound(f)
  BY <1>1, <1>3, <1>5 DEF Sound, Finite, Linked
<1>7. Only(d, f, o)
  <2> SUFFICES ASSUME NEW x \in DOMAIN d.orders \ {o} PROVE Alike(d, f, x) /\ f.orders[x] = d.orders[x]
    BY DEF Only
  <2>1. Alike(d, e, x) /\ e.orders[x] = d.orders[x]
    BY <1>1 DEF Only
  <2>2. Mine(f, x) = Mine(e, x) /\ SubordersOf(f, x) = SubordersOf(e, x)
    BY <1>5 DEF Mine, SubordersOf
  <2> QED BY <1>1, <1>3, <1>5, <2>1, <2>2 DEF Alike
<1> QED BY <1>1, <1>3, <1>5, <1>6, <1>7 DEF States, f

\* or a subcustomer becomes known.
LEMMA WithNames ==
    ASSUME NEW d, NEW o, NEW e \in States(d, o), NEW name \in Subcustomers
    PROVE  /\ parse_subcustomer(e, name) \in States(d, o)
           /\ name \in parse_subcustomer(e, name).subcustomers
           /\ parse_subcustomer(e, name).suborders = e.suborders
           /\ parse_subcustomer(e, name).lines = e.lines
<1> DEFINE f == parse_subcustomer(e, name)
<1>1. /\ e \in Databases(d.invoices, d.requests) /\ Finite(e) /\ Linked(e)
      /\ DOMAIN e.orders = DOMAIN d.orders /\ e.unpriced = d.unpriced /\ Only(d, e, o)
  BY DEF States, Sound
<1>2. /\ f \in Databases(d.invoices, d.requests) /\ f.lines = e.lines /\ f.orders = e.orders
      /\ f.suborders = e.suborders /\ f.invoices = e.invoices
      /\ f.subcustomers = e.subcustomers \cup {name}
      /\ f.unpriced = e.unpriced /\ f.requests = e.requests /\ f.invoices = d.invoices
      /\ f.requests = d.requests
  BY <1>1 DEF Databases, parse_subcustomer
<1> HIDE DEF f
<1>3. Sound(f)
  BY <1>1, <1>2 DEF Sound, Finite, Linked
<1>4. Only(d, f, o)
  BY <1>1, <1>2 DEF Only, Alike, Mine, SubordersOf
<1>5. f \in States(d, o)
  BY <1>1, <1>2, <1>3, <1>4 DEF States
<1> QED BY <1>2, <1>5 DEF f

-----------------------------------------------------------------------------
(* What the requests do to the contents of an order.                         *)

Numbers(d, o) == {s[2] : s \in SubordersOf(d, o)}

\* The numbers of an order's suborders are finitely many natural numbers.
LEMMA NumbersAre ==
    ASSUME NEW d, Sound(d), NEW o
    PROVE  Numbers(d, o) \in SUBSET Nat /\ IsFiniteSet(Numbers(d, o))
<1> DEFINE S == SubordersOf(d, o)  f == [s \in S |-> s[2]]
<1>1. d.suborders \in Tables(SuborderIds, Subcustomers) /\ IsFiniteSet(DOMAIN d.suborders)
  BY DEF Sound, Databases, Finite
<1>2. DOMAIN d.suborders \subseteq Int \X Nat
  BY <1>1, TableIs DEF SuborderIds
<1>3. IsFiniteSet(S) /\ \A s \in S : s[2] \in Nat
  BY <1>1, <1>2, FS_Subset DEF SubordersOf
<1>4. f \in Surjection(S, Numbers(d, o))
  BY DEF Surjection, Numbers
<1>5. IsFiniteSet(Numbers(d, o))
  <2> HIDE DEF f, S
  <2> QED BY <1>3, <1>4, FS_Surjection
<1> QED BY <1>3, <1>5 DEF Numbers

\* A suborder gets a number of its own, the last one.
LEMMA SuborderAdded ==
    ASSUME NEW d, NEW o \in DOMAIN d.orders, NEW e \in States(d, o), NEW name \in e.subcustomers
    PROVE  LET f == AddSuborder(e, o, name)  s == LastSuborder(f, o)
           IN  /\ f \in States(d, o) /\ f.lines = e.lines /\ f.subcustomers = e.subcustomers
               /\ f.orders = e.orders
               /\ s[1] = o /\ s \in DOMAIN f.suborders /\ s \notin DOMAIN e.suborders
               /\ DOMAIN f.suborders = DOMAIN e.suborders \cup {s} /\ f.suborders[s] = name
               /\ \A x \in DOMAIN e.suborders : f.suborders[x] = e.suborders[x]
<1> DEFINE n == LastNumber(Numbers(e, o))  t == <<o, 1 + n>>  S == With(e.suborders, t, name)
           f == AddSuborder(e, o, name)  s == LastSuborder(f, o)
<1>1. /\ Sound(e) /\ e \in Databases(d.invoices, d.requests) /\ Finite(e) /\ Linked(e)
      /\ DOMAIN e.orders = DOMAIN d.orders
  BY DEF States, Sound
<1>2. n \in Nat /\ \A x \in Numbers(e, o) : x <= n
  BY <1>1, NumbersAre, LastNumberIs
<1>3. e.suborders \in Tables(SuborderIds, Subcustomers) /\ e.orders \in Tables(OrderIds, Row) /\ name \in Subcustomers
  BY <1>1 DEF Databases
<1>4. o \in Int
  BY <1>1, <1>3, TableIs DEF OrderIds
<1>5. t \in SuborderIds /\ t[1] = o /\ t[2] = 1 + n
  BY <1>2, <1>4 DEF SuborderIds
<1>6. t \notin DOMAIN e.suborders
  <2> SUFFICES ASSUME t \in DOMAIN e.suborders PROVE FALSE
    OBVIOUS
  <2>1. t \in SubordersOf(e, o)
    BY <1>5 DEF SubordersOf
  <2>2. t[2] \in Numbers(e, o)
    BY <2>1 DEF Numbers
  <2> QED BY <1>2, <1>5, <2>2
<1> HIDE DEF n, t
<1>7. /\ S \in Tables(SuborderIds, Subcustomers) /\ DOMAIN S = DOMAIN e.suborders \cup {t}
      /\ IsFiniteSet(DOMAIN S) /\ S[t] = name
      /\ \A x \in DOMAIN e.suborders : S[x] = e.suborders[x]
  <2>1. IsFiniteSet(DOMAIN e.suborders)
    BY <1>1 DEF Finite
  <2>2. S \in Tables(SuborderIds, Subcustomers) /\ Added(e.suborders, S, t, name)
    BY <1>3, <1>5, <2>1, RowAdded
  <2> HIDE DEF S
  <2> QED BY <1>6, <2>2 DEF Added
<1>8. f = [e EXCEPT !.suborders = S]
  BY DEF AddSuborder, n, t, Numbers
<1> HIDE DEF S, f
<1>9. f \in States(d, o)
  <2>1. \A x \in DOMAIN S : S[x] \in e.subcustomers /\ x[1] \in DOMAIN e.orders
    BY <1>1, <1>5, <1>7 DEF Linked
  <2>2. \A x : x[1] # o => (x \in DOMAIN S <=> x \in DOMAIN e.suborders)
    BY <1>5, <1>7
  <2>3. \A l \in DOMAIN e.lines : e.lines[l].suborder \in DOMAIN S
    BY <1>1, <1>7 DEF Linked
  <2> QED BY <1>7, <1>8, <2>1, <2>2, <2>3, WithSuborders
<1>10. /\ f.lines = e.lines /\ f.subcustomers = e.subcustomers /\ f.orders = e.orders
       /\ f.suborders = S
  BY <1>1, <1>8 DEF Databases
<1>11. s = t
  <2>1. SubordersOf(f, o) = SubordersOf(e, o) \cup {t}
    BY <1>5, <1>7, <1>10 DEF SubordersOf
  <2>2. Numbers(f, o) = Numbers(e, o) \cup {1 + n}
    BY <1>5, <2>1 DEF Numbers
  <2>3. Numbers(f, o) \in SUBSET Nat /\ IsFiniteSet(Numbers(f, o))
    BY <1>9, NumbersAre DEF States
  <2>4. /\ LastNumber(Numbers(f, o)) \in {0} \cup Numbers(f, o)
        /\ 1 + n <= LastNumber(Numbers(f, o))
    BY <2>2, <2>3, LastNumberIs
  <2>5. LastNumber(Numbers(f, o)) = 1 + n
    BY <1>2, <2>2, <2>3, <2>4
  <2> QED BY <2>5 DEF LastSuborder, Numbers, t
<1> HIDE DEF s
<1> QED BY <1>5, <1>6, <1>7, <1>9, <1>10, <1>11 DEF f, s

\* A product is added to a suborder of the order.
Adds(e, f, s, p, price, q) ==
    /\ f.suborders = e.suborders /\ f.orders = e.orders /\ f.subcustomers = e.subcustomers
    /\ \E id : /\ id \notin DOMAIN e.lines /\ DOMAIN f.lines = DOMAIN e.lines \cup {id}
               /\ \A l \in DOMAIN e.lines : f.lines[l] = e.lines[l]
               /\ f.lines[id] = [suborder |-> s, product |-> p, price |-> price, quantity |-> q,
                                 status |-> "pending"]

\* AddLine does that, and changes the one order.
LEMMA LineAdded ==
    ASSUME NEW d, NEW o, NEW e \in States(d, o),
           NEW s \in DOMAIN e.suborders, s[1] = o,
           NEW p \in Products, NEW price \in Nat, NEW q \in Nat
    PROVE  /\ AddLine(e, s, p, price, q) \in States(d, o)
           /\ Adds(e, AddLine(e, s, p, price, q), s, p, price, q)
<1> DEFINE f == AddLine(e, s, p, price, q)  id == NextId(e.lines)
           row == [suborder |-> s, product |-> p, price |-> price, quantity |-> q, status |-> "pending"]
           L == With(e.lines, id, row)
<1>1. /\ Sound(e) /\ e \in Databases(d.invoices, d.requests) /\ Finite(e) /\ Linked(e)
  BY DEF States, Sound
<1>2. e.lines \in Tables(LineIds, Line) /\ IsFiniteSet(DOMAIN e.lines) /\ DOMAIN e.suborders \subseteq Int \X Nat
  <2>1. e.suborders \in Tables(SuborderIds, Subcustomers) /\ e.lines \in Tables(LineIds, Line)
    BY <1>1 DEF Databases
  <2> QED BY <1>1, <2>1, TableIs DEF Finite, SuborderIds
<1>3. id \in LineIds /\ id \notin DOMAIN e.lines
  BY <1>2, NextIdIs DEF LineIds
<1>4. row \in Line /\ row.suborder = s
  BY <1>2 DEF Line, ProductStatuses
<1> HIDE DEF id
<1>5. /\ L \in Tables(LineIds, Line) /\ DOMAIN L = DOMAIN e.lines \cup {id} /\ IsFiniteSet(DOMAIN L)
      /\ L[id] = row /\ \A l \in DOMAIN e.lines : L[l] = e.lines[l]
  <2> HIDE DEF row
  <2>1. L \in Tables(LineIds, Line) /\ Added(e.lines, L, id, row)
    BY <1>2, <1>3, <1>4, RowAdded
  <2> HIDE DEF L
  <2> QED BY <1>3, <2>1 DEF Added
<1>6. f = [e EXCEPT !.lines = L]
  BY <1>1 DEF AddLine, Databases, id
<1> HIDE DEF L, f
<1>7. f \in States(d, o)
  <2>1. ElsewhereSame(e.lines, L, o)
    BY <1>4, <1>5 DEF ElsewhereSame
  <2>2. \A l \in DOMAIN L : L[l].suborder \in DOMAIN e.suborders
    BY <1>1, <1>4, <1>5 DEF Linked
  <2> QED BY <1>5, <1>6, <2>1, <2>2, WithLines
<1>8. /\ f.suborders = e.suborders /\ f.orders = e.orders /\ f.lines = L
      /\ f.subcustomers = e.subcustomers
  BY <1>1, <1>6 DEF Databases
<1>9. Adds(e, f, s, p, price, q)
  BY <1>3, <1>5, <1>8 DEF Adds
<1> QED BY <1>7, <1>9 DEF f

\* The products there are stay as they are.
Grown(e, f) == /\ DOMAIN e.lines \subseteq DOMAIN f.lines
               /\ \A l \in DOMAIN e.lines : f.lines[l] = e.lines[l]

\* So does add_order_product, which also adds to the weight and the subtotal.
LEMMA ProductAdded ==
    ASSUME NEW d, NEW o \in DOMAIN d.orders, NEW e \in States(d, o),
           NEW s \in DOMAIN e.suborders, s[1] = o, NEW p, NEW q \in Nat
    PROVE  LET f == add_order_product(e, s, p, q)
           IN  f \in States(d, o) /\ f.suborders = e.suborders /\ Grown(e, f)
<1>1. CASE p \notin Products
  BY <1>1 DEF add_order_product, Grown
<1>2. CASE p \in Products
  <2> DEFINE f == add_order_product(e, s, p, q)  g == AddLine(e, s, p, Price[p], q)
             r == [g.orders[o] EXCEPT !.total_weight = @ + Weight[p] * q,
                                      !.subtotal = @ + Price[p] * q]
  <2>1. Price[p] \in Nat /\ Weight[p] \in Nat
    BY <1>2, OrderAssumption
  <2>2. g \in States(d, o) /\ g.suborders = e.suborders /\ Grown(e, g)
    <3> HIDE DEF g
    <3>1. g \in States(d, o) /\ Adds(e, g, s, p, Price[p], q)
      BY <1>2, <2>1, LineAdded DEF g
    <3> QED BY <3>1 DEF Grown, Adds
  <2>3. f = [g EXCEPT !.orders[o].total_weight = @ + Weight[p] * q,
                      !.orders[o].subtotal = @ + Price[p] * q]
    BY <1>2 DEF add_order_product
  <2> HIDE DEF g, f
  <2>4. /\ g \in Databases(d.invoices, d.requests) /\ Linked(g) /\ o \in DOMAIN g.orders
        /\ g.orders \in Tables(OrderIds, Row)
    BY <2>2 DEF States, Sound, Databases
  <2>5. g.orders[o] \in Row /\ g.orders[o].invoice \in DOMAIN g.invoices \cup {None}
    BY <2>4, TableIs DEF Linked
  <2>6. r \in Row /\ r.invoice = g.orders[o].invoice
    <3>1. PICK w \in Nat, v \in Nat : w = Weight[p] * q /\ v = Price[p] * q
      BY <2>1
    <3>2. PICK row \in Row : row = g.orders[o]
      BY <2>5
    <3>3. row.total_weight + w \in Nat /\ row.subtotal + v \in Nat
      BY DEF Row
    <3>4. r = [row EXCEPT !.total_weight = row.total_weight + w, !.subtotal = row.subtotal + v]
      BY <3>1, <3>2
    <3> HIDE DEF r
    <3> QED BY <3>2, <3>3, <3>4 DEF Row
  <2>7. f = [g EXCEPT !.orders[o] = r]
    BY <2>3, <2>4, <2>5, ZenonT(30) DEF Databases, Row
  <2> HIDE DEF r
  <2>8. f \in States(d, o)
    BY <2>2, <2>5, <2>6, <2>7, WithOrder
  <2>9. f.suborders = g.suborders /\ f.lines = g.lines
    BY <2>4, <2>7 DEF Databases
  <2> QED BY <2>2, <2>8, <2>9 DEF f, Grown
<1> QED BY <1>1, <1>2

-----------------------------------------------------------------------------
(* What is sent, suborder by suborder and product by product.                *)

\* A fold ends where its steps stay.
LEMMA FoldLands ==
    ASSUME NEW n \in Nat, NEW D, NEW base \in D, NEW F, Through(F, n, D),
           NEW iter, Folds(iter, n, D, base, F)
    PROVE  iter[1..n] \in D
<1>1. PICK after : Chain(after, n, D, base, F) /\ after[n] = iter[1..n]
  BY FoldChain
<1>2. n \in 0..n
  OBVIOUS
<1> QED BY <1>1, <1>2 DEF Chain

\* The quantities of a product add up to a natural number.
LEMMA GroupedIsNat ==
    ASSUME NEW items \in Seq(ItemData), NEW p \in {items[i].item_code : i \in DOMAIN items}
    PROVE  Grouped(items)[p] \in Nat
<1> DEFINE n == Len(items)  D == Nat
           Step(q, item) == IF item.item_code = p THEN q + item.quantity ELSE q
           F == [i \in 1..n |-> [q \in D |-> Step(q, items[i])]]
           Iter(g) == g = [s \in SUBSET (1..n) |->
                              IF s = {} THEN 0 ELSE Step(g[s \ {Max(s)}], items[Max(s)])]
<1>1. n \in Nat /\ DOMAIN items = 1..n /\ \A i \in 1..n : items[i] \in ItemData
  OBVIOUS
<1>2. Grouped(items)[p] = (CHOOSE g : Iter(g))[1..n]
  BY <1>1 DEF Grouped, FoldLeft, MapThenFoldSet
<1>3. 0 \in D /\ \A i \in 1..n : \A q \in D : Step(q, items[i]) \in D
  BY <1>1 DEF ItemData
<1>4. Through(F, n, D) /\ \A i \in 1..n : \A x \in D : F[i][x] = Step(x, items[i])
  BY <1>3 DEF Through
<1> HIDE DEF F, D, Step, n
<1>5. PICK g \in [SUBSET (1..n) -> D] : Folds(g, n, D, 0, F)
  BY <1>1, <1>3, <1>4, FoldSolved
<1>6. Iter(g)
  <2>1. ASSUME NEW t \in SUBSET (1..n), t # {}
        PROVE  g[t] = Step(g[t \ {Max(t)}], items[Max(t)])
    <3>1. PICK m \in 1..n : m = Max(t)
      BY <1>1, <1>3, <2>1, MaxOf
    <3>2. PICK x \in D : x = g[t \ {Max(t)}]
      BY <1>5, <2>1
    <3>3. g[t] = F[m][x]
      BY <1>5, <2>1, <3>1, <3>2 DEF Folds
    <3>4. F[m][x] = Step(x, items[m])
      BY <1>4
    <3> QED BY <3>1, <3>2, <3>3, <3>4
  <2> QED BY <1>1, <1>3, <1>5, <2>1 DEF Folds
<1>7. PICK h : Iter(h) /\ h = CHOOSE x : Iter(x)
  BY <1>6
<1>8. Folds(h, n, D, 0, F)
  <2>1. h[{}] = 0
    BY <1>1, <1>3, <1>7
  <2>2. ASSUME NEW t \in SUBSET (1..n), t # {}, h[t \ {Max(t)}] \in D
        PROVE  h[t] = F[Max(t)][h[t \ {Max(t)}]]
    <3>1. PICK m \in 1..n : m = Max(t)
      BY <1>1, <1>3, <2>2, MaxOf
    <3>2. h[t] = Step(h[t \ {Max(t)}], items[Max(t)])
      BY <1>1, <1>3, <1>7, <2>2
    <3> QED BY <1>4, <2>2, <3>1, <3>2
  <2> QED BY <2>1, <2>2 DEF Folds
<1>9. h[1..n] \in D
  BY <1>1, <1>3, <1>4, <1>8, FoldLands
<1> QED BY <1>2, <1>7, <1>9 DEF D

\* The products of a suborder, each with its quantity.
LEMMA GroupedIs ==
    ASSUME NEW items \in Seq(ItemData)
    PROVE  /\ IsFiniteSet(DOMAIN Grouped(items))
           /\ \A p \in DOMAIN Grouped(items) : Grouped(items)[p] \in Nat
<1> DEFINE n == Len(items)  Codes == {items[i].item_code : i \in DOMAIN items}
<1>1. n \in Nat /\ DOMAIN items = 1..n /\ \A i \in 1..n : items[i] \in ItemData
  OBVIOUS
<1>2. DOMAIN Grouped(items) = Codes
  BY DEF Grouped
<1>3. IsFiniteSet(Codes)
  <2> DEFINE f == [i \in DOMAIN items |-> items[i].item_code]
  <2>1. f \in Surjection(DOMAIN items, Codes)
    BY DEF Surjection
  <2>2. IsFiniteSet(DOMAIN items)
    BY <1>1, FS_Interval
  <2> HIDE DEF f, Codes
  <2> QED BY <2>1, <2>2, FS_Surjection
<1>4. ASSUME NEW p \in Codes PROVE Grouped(items)[p] \in Nat
  BY <1>1, <1>4, GroupedIsNat
<1> QED BY <1>2, <1>3, <1>4

\* A suborder that is added leaves the other orders alone, and the products of its own,
LEMMA SuborderFilled ==
    ASSUME NEW d, NEW o \in DOMAIN d.orders, NEW e \in States(d, o), NEW data \in SuborderData
    PROVE  _add_suborder(e, o, data) \in States(d, o) /\ Grown(e, _add_suborder(e, o, data))
<1> DEFINE b == parse_subcustomer(e, data.subcustomer)
           c == AddSuborder(b, o, data.subcustomer)
           wanted == Grouped(data.items)  s == LastSuborder(c, o)
           f == SetToSeq(DOMAIN wanted)  n == Cardinality(DOMAIN wanted)
           D == {g \in States(d, o) : g.suborders = c.suborders /\ Grown(c, g)}
           Step(g, p) == add_order_product(g, s, p, wanted[p])
           F == [i \in 1..n |-> [g \in D |-> Step(g, f[i])]]
           Iter(g) == g = [t \in SUBSET DOMAIN f |->
                              IF t = {} THEN c ELSE Step(g[t \ {Max(t)}], f[Max(t)])]
<1>1. /\ b \in States(d, o) /\ data.subcustomer \in b.subcustomers /\ b.lines = e.lines
      /\ data.items \in Seq(ItemData)
  BY WithNames DEF SuborderData
<1>2. /\ c \in States(d, o) /\ c.lines = b.lines /\ s \in DOMAIN c.suborders /\ s[1] = o
  BY <1>1, SuborderAdded
<1>3. /\ n \in Nat /\ f \in [1..n -> DOMAIN wanted] /\ DOMAIN f = 1..n /\ \A p \in DOMAIN wanted : wanted[p] \in Nat
  BY <1>1, GroupedIs, SeqOfSet
<1>4. _add_suborder(e, o, data) = IF IsBlank(data.items) THEN b ELSE (CHOOSE g : Iter(g))[DOMAIN f]
  BY DEF _add_suborder, FoldLeft, MapThenFoldSet
<1>5. c \in D /\ \A i \in 1..n : \A g \in D : Step(g, f[i]) \in D
  <2>1. c \in D
    BY <1>2 DEF Grown
  <2>2. ASSUME NEW i \in 1..n, NEW g \in D PROVE Step(g, f[i]) \in D
    <3>1. /\ g \in States(d, o) /\ s \in DOMAIN g.suborders /\ g.suborders = c.suborders
          /\ Grown(c, g)
          /\ wanted[f[i]] \in Nat
      BY <1>2, <1>3
    <3> DEFINE k == Step(g, f[i])
    <3>2. k \in States(d, o) /\ k.suborders = g.suborders /\ Grown(g, k)
      <4> HIDE DEF s, wanted, f
      <4> QED BY <1>2, <3>1, ProductAdded
    <3> HIDE DEF k
    <3>3. Grown(c, k)
      BY <3>1, <3>2 DEF Grown
    <3> QED BY <3>1, <3>2, <3>3 DEF k
  <2> QED BY <2>1, <2>2
<1> HIDE DEF s, wanted, f
<1>6. Through(F, n, D) /\ \A i \in 1..n : \A x \in D : F[i][x] = Step(x, f[i])
  BY <1>5 DEF Through
<1> HIDE DEF F, D, Step, n
<1>7. PICK g \in [SUBSET (1..n) -> D] : Folds(g, n, D, c, F)
  BY <1>3, <1>5, <1>6, FoldSolved
<1>8. Iter(g)
  <2>1. ASSUME NEW t \in SUBSET (1..n), t # {}
        PROVE  g[t] = Step(g[t \ {Max(t)}], f[Max(t)])
    <3>1. PICK m \in 1..n : m = Max(t)
      BY <1>3, <1>5, <2>1, MaxOf
    <3>2. PICK x \in D : x = g[t \ {Max(t)}]
      BY <1>7, <2>1
    <3>3. g[t] = F[m][x]
      BY <1>7, <2>1, <3>1, <3>2 DEF Folds
    <3>4. F[m][x] = Step(x, f[m])
      BY <1>6
    <3> QED BY <3>1, <3>2, <3>3, <3>4
  <2> QED BY <1>3, <1>5, <1>7, <2>1 DEF Folds
<1>9. PICK h : Iter(h) /\ h = CHOOSE x : Iter(x)
  BY <1>8
<1>10. Folds(h, n, D, c, F)
  <2>1. h[{}] = c
    BY <1>3, <1>5, <1>9
  <2>2. ASSUME NEW t \in SUBSET (1..n), t # {}, h[t \ {Max(t)}] \in D
        PROVE  h[t] = F[Max(t)][h[t \ {Max(t)}]]
    <3>1. PICK m \in 1..n : m = Max(t)
      BY <1>3, <1>5, <2>2, MaxOf
    <3>2. h[t] = Step(h[t \ {Max(t)}], f[Max(t)])
      BY <1>3, <1>5, <1>9, <2>2
    <3> QED BY <1>6, <2>2, <3>1, <3>2
  <2> QED BY <2>1, <2>2 DEF Folds
<1>11. h[1..n] \in D
  BY <1>3, <1>5, <1>6, <1>10, FoldLands
<1>12. h[1..n] \in States(d, o) /\ Grown(e, h[1..n])
  BY <1>1, <1>2, <1>11 DEF D, Grown
<1>13. b \in States(d, o) /\ Grown(e, b)
  BY <1>1 DEF Grown
<1> HIDE DEF b
<1> QED BY <1>3, <1>4, <1>9, <1>12, <1>13

\* The suborders of more products than fit are split,
LEMMA ChunksAre ==
    ASSUME NEW data \in SuborderData
    PROVE  Chunks(data) \in Seq(SuborderData)
<1> DEFINE n == Len(data.items)  K == ItemsPerSuborder  c == Ceil(n, K)
<1>1. data.items \in Seq(ItemData) /\ n \in Nat /\ \A i \in 1..n : data.items[i] \in ItemData
  BY DEF SuborderData
<1>2. K \in Nat \ {0} /\ c \in Nat
  <2>1. K \in Nat \ {0}
    BY OrderAssumption
  <2> HIDE DEF n, K
  <2> QED BY <1>1, <2>1, CeilCovers
<1>3. ASSUME NEW i \in 1..c
      PROVE  SubSeq(data.items, (i - 1) * K + 1, Min({i * K, n})) \in Seq(ItemData)
  <2> DEFINE a == (i - 1) * K + 1  b == Min({i * K, n})
  <2>1. (i - 1) * K \in Nat /\ i * K \in Nat
    BY <1>2
  <2>2. b \in Int /\ b <= n
    <3> DEFINE k == i * K
    <3> HIDE DEF k, n
    <3>1. k \in Nat
      BY <2>1 DEF k
    <3>2. \E x \in {k, n} : \A y \in {k, n} : x =< y
      <4>1. CASE k =< n
        BY <1>1, <3>1, <4>1
      <4>2. CASE ~ (k =< n)
        BY <1>1, <3>1, <4>2
      <4> QED BY <4>1, <4>2
    <3>3. Min({k, n}) \in {k, n} /\ \A y \in {k, n} : Min({k, n}) =< y
      BY <3>2 DEF Min
    <3> QED BY <1>1, <3>1, <3>3 DEF k
  <2>3. a \in Int /\ a >= 1
    BY <2>1
  <2> HIDE DEF a, b
  <2>4. \A j \in a .. b : data.items[j] \in ItemData
    BY <1>1, <2>2, <2>3
  <2>5. SubSeq(data.items, a, b) \in Seq(ItemData)
    BY <2>2, <2>3, <2>4, SubSeqProperties
  <2> QED BY <2>5 DEF a, b
<1>4. \A i \in 1..c : Chunks(data)[i] = [data EXCEPT !.items = SubSeq(@, (i - 1) * K + 1, Min({i * K, Len(@)}))]
  BY DEF Chunks
<1>5. \A i \in 1..c : Chunks(data)[i] \in SuborderData
  <2> SUFFICES ASSUME NEW i \in 1..c PROVE Chunks(data)[i] \in SuborderData
    OBVIOUS
  <2>1. PICK items \in Seq(ItemData) : items = SubSeq(data.items, (i - 1) * K + 1, Min({i * K, n}))
    BY <1>3
  <2>2. Chunks(data)[i] = [data EXCEPT !.items = items]
    BY <1>4, <2>1 DEF SuborderData
  <2> QED BY <2>2 DEF SuborderData
<1>6. Chunks(data) \in [1..c -> SuborderData]
  <2>1. DOMAIN Chunks(data) = 1..c /\ Chunks(data) = [i \in DOMAIN Chunks(data) |-> Chunks(data)[i]]
    BY DEF Chunks
  <2> HIDE DEF c
  <2> QED BY <1>5, <2>1
<1> QED BY <1>2, <1>6

\* and what they are split into comes one after the other.
LEMMA FlattenIs ==
    ASSUME NEW X, NEW seqs \in Seq(Seq(X))
    PROVE  FlattenSeq(seqs) \in Seq(X)
<1> DEFINE n == Len(seqs)  D == Seq(X)
           F == [i \in 1..n |-> [e \in D |-> e \o seqs[i]]]
           Iter(f) == f = [i \in 1..n |-> IF i = 1 THEN seqs[i] ELSE f[i - 1] \o seqs[i]]
<1>1. n \in Nat /\ DOMAIN seqs = 1..n /\ \A i \in 1..n : seqs[i] \in D
  OBVIOUS
<1>2. FlattenSeq(seqs) = IF n = 0 THEN seqs ELSE (CHOOSE f : Iter(f))[n]
  BY DEF FlattenSeq
<1>3. CASE n = 0
  <2>1. seqs = <<>>
    BY <1>3, EmptySeq
  <2> QED BY <1>2, <1>3, <2>1
<1>4. CASE n # 0
  <2>1. \A e \in D : \A i \in 1..n : e \o seqs[i] \in D /\ <<>> \o seqs[i] = seqs[i]
    BY <1>1, ConcatProperties, ConcatEmptySeq
  <2>2. Through(F, n, D) /\ \A i \in 1..n : \A e \in D : F[i][e] = e \o seqs[i]
    BY <2>1 DEF Through
  <2>3. <<>> \in D
    OBVIOUS
  <2> HIDE DEF F, D, n
  <2>4. PICK g \in [SUBSET (1..n) -> D] : Folds(g, n, D, <<>>, F)
    BY <1>1, <2>2, <2>3, FoldSolved
  <2>5. PICK after : Chain(after, n, D, <<>>, F)
    BY <1>1, <2>2, <2>3, <2>4, FoldChain
  <2> DEFINE f == [i \in 1..n |-> after[i]]
  <2>6. \A i \in 1..n : i - 1 \in 0..n /\ i \in 0..n /\ (i # 1 => i - 1 \in 1..n) /\ (i = 1 => i - 1 = 0)
    BY <1>1
  <2>7. \A i \in 1..n : after[i] = after[i - 1] \o seqs[i] /\ after[i - 1] \in D
    BY <2>2, <2>5, <2>6 DEF Chain
  <2>8. \A i \in 1..n : after[i] = IF i = 1 THEN seqs[i] ELSE f[i - 1] \o seqs[i]
    <3> SUFFICES ASSUME NEW i \in 1..n
                 PROVE  after[i] = IF i = 1 THEN seqs[i] ELSE f[i - 1] \o seqs[i]
      OBVIOUS
    <3>1. CASE i = 1
      <4>1. after[i - 1] = <<>>
        BY <2>5, <2>6, <3>1 DEF Chain
      <4>2. after[i] = <<>> \o seqs[i] /\ <<>> \o seqs[i] = seqs[i]
        BY <2>1, <2>3, <2>7, <4>1
      <4> QED BY <3>1, <4>2
    <3>2. CASE i # 1
      <4>1. f[i - 1] = after[i - 1]
        BY <2>6, <3>2
      <4> QED BY <2>7, <3>2, <4>1
    <3> QED BY <3>1, <3>2
  <2>9. Iter(f)
    BY <2>8
  <2> HIDE DEF f
  <2>10. PICK h : Iter(h) /\ h = CHOOSE x : Iter(x)
    BY <2>9
  <2> DEFINE Good == {i \in 0..n : i = 0 \/ h[i] \in D}
  <2>11. 0 \in Good
    BY <1>1
  <2>12. ASSUME NEW i \in 1..n, i - 1 \in Good PROVE i \in Good
    <3>1. h[i] = IF i = 1 THEN seqs[i] ELSE h[i - 1] \o seqs[i]
      BY <2>10
    <3>2. CASE i = 1
      BY <1>1, <2>6, <3>1, <3>2
    <3>3. CASE i # 1
      <4>1. h[i - 1] \in D
        BY <2>12, <3>3
      <4> QED BY <2>1, <2>6, <3>1, <3>3, <4>1
    <3> QED BY <3>2, <3>3
  <2>13. 0..n \subseteq Good
    <3> HIDE DEF Good
    <3> QED BY <1>1, <2>11, <2>12, UpTo
  <2>14. h[n] \in D
    BY <1>1, <1>4, <2>13
  <2> QED BY <1>2, <1>4, <2>10, <2>14 DEF D
<1> QED BY <1>3, <1>4

\* The suborders of a new order are added to it alone.
LEMMA SubordersAdded ==
    ASSUME NEW d, Sound(d), NEW o \in DOMAIN d.orders, NEW suborders \in Seq(SuborderData)
    PROVE  add_suborders(d, o, suborders) \in States(d, o)
<1> DEFINE seqs == [i \in DOMAIN suborders |-> Chunks(suborders[i])]
           f == FlattenSeq(seqs)  n == Len(f)  D == States(d, o)
           Step(e, data) == _add_suborder(e, o, data)
           F == [i \in 1..n |-> [e \in D |-> Step(e, f[i])]]
           Iter(g) == g = [t \in SUBSET DOMAIN f |->
                              IF t = {} THEN d ELSE Step(g[t \ {Max(t)}], f[Max(t)])]
<1>1. f \in Seq(SuborderData)
  <2>1. seqs \in Seq(Seq(SuborderData))
    <3>1. \A i \in 1..Len(suborders) : suborders[i] \in SuborderData
      OBVIOUS
    <3>2. \A i \in 1..Len(suborders) : Chunks(suborders[i]) \in Seq(SuborderData)
      BY <3>1, ChunksAre
    <3>3. seqs \in [1..Len(suborders) -> Seq(SuborderData)] /\ Len(suborders) \in Nat
      BY <3>2
    <3> HIDE DEF seqs
    <3> QED BY <3>3
  <2> HIDE DEF seqs
  <2> QED BY <2>1, FlattenIs
<1>2. add_suborders(d, o, suborders) = (CHOOSE g : Iter(g))[DOMAIN f]
  BY DEF add_suborders, FoldLeft, MapThenFoldSet
<1> HIDE DEF f
<1>3. n \in Nat /\ DOMAIN f = 1..n /\ \A i \in 1..n : f[i] \in SuborderData
  BY <1>1
<1>4. d \in D /\ \A i \in 1..n : \A e \in D : Step(e, f[i]) \in D
  BY <1>3, StatesBegin, SuborderFilled
<1>5. Through(F, n, D) /\ \A i \in 1..n : \A x \in D : F[i][x] = Step(x, f[i])
  BY <1>4 DEF Through
<1> HIDE DEF F, D, Step, n
<1>6. PICK g \in [SUBSET (1..n) -> D] : Folds(g, n, D, d, F)
  BY <1>3, <1>4, <1>5, FoldSolved
<1>7. Iter(g)
  <2>1. ASSUME NEW t \in SUBSET (1..n), t # {}
        PROVE  g[t] = Step(g[t \ {Max(t)}], f[Max(t)])
    <3>1. PICK m \in 1..n : m = Max(t)
      BY <1>3, <1>4, <2>1, MaxOf
    <3>2. PICK x \in D : x = g[t \ {Max(t)}]
      BY <1>6, <2>1
    <3>3. g[t] = F[m][x]
      BY <1>6, <2>1, <3>1, <3>2 DEF Folds
    <3>4. F[m][x] = Step(x, f[m])
      BY <1>5
    <3> QED BY <3>1, <3>2, <3>3, <3>4
  <2> QED BY <1>3, <1>4, <1>6, <2>1 DEF Folds
<1>8. PICK h : Iter(h) /\ h = CHOOSE x : Iter(x)
  BY <1>7
<1>9. Folds(h, n, D, d, F)
  <2>1. h[{}] = d
    BY <1>3, <1>4, <1>8
  <2>2. ASSUME NEW t \in SUBSET (1..n), t # {}, h[t \ {Max(t)}] \in D
        PROVE  h[t] = F[Max(t)][h[t \ {Max(t)}]]
    <3>1. PICK m \in 1..n : m = Max(t)
      BY <1>3, <1>4, <2>2, MaxOf
    <3>2. h[t] = Step(h[t \ {Max(t)}], f[Max(t)])
      BY <1>3, <1>4, <1>8, <2>2
    <3> QED BY <1>5, <2>2, <3>1, <3>2
  <2> QED BY <2>1, <2>2 DEF Folds
<1>10. h[1..n] \in D
  BY <1>3, <1>4, <1>5, <1>9, FoldLands
<1> QED BY <1>2, <1>3, <1>8, <1>10 DEF D

-----------------------------------------------------------------------------
(* What an edit does to an order.                                            *)

\* The order products that have not been mentioned are the order's.
Edits(b, o) == {a \in [d : States(b, o), left : SUBSET LineIds] : a.left \subseteq Mine(a.d, o)}

\* An edit goes on when its order has grown.
LEMMA EditsGrow ==
    ASSUME NEW b, NEW o, NEW a \in Edits(b, o), NEW f \in States(b, o), Grown(a.d, f)
    PROVE  [a EXCEPT !.d = f] \in Edits(b, o) /\ [a EXCEPT !.d = f].d = f
<1>1. a.left \subseteq Mine(f, o)
  BY DEF Edits, Mine, Grown
<1>2. [a EXCEPT !.d = f] = [d |-> f, left |-> a.left] /\ a.left \in SUBSET LineIds
  BY DEF Edits
<1> QED BY <1>1, <1>2 DEF Edits

\* One product of a suborder is set,
LEMMA ProductUpdated ==
    ASSUME NEW b, NEW o \in DOMAIN b.orders, NEW a \in Edits(b, o),
           NEW s \in DOMAIN a.d.suborders, s[1] = o, NEW p, NEW q \in Nat
    PROVE  /\ UpdateProduct(a, s, p, q) \in Edits(b, o)
           /\ UpdateProduct(a, s, p, q).d.suborders = a.d.suborders
<1> DEFINE e == a.d  same == {l \in LinesOf(e, s) : e.lines[l].product = p}
<1>1. /\ e \in States(b, o) /\ e \in Databases(b.invoices, b.requests) /\ Finite(e) /\ Linked(e)
      /\ a.left \in SUBSET LineIds /\ a.left \subseteq Mine(e, o)
      /\ a = [d |-> e, left |-> a.left]
  BY DEF Edits, States, Sound
<1>2. CASE same = {}
  <2> DEFINE f == add_order_product(e, s, p, q)
  <2>1. f \in States(b, o) /\ f.suborders = e.suborders /\ Grown(e, f)
    BY <1>1, ProductAdded
  <2>2. UpdateProduct(a, s, p, q) = [a EXCEPT !.d = f]
    BY <1>1, <1>2 DEF UpdateProduct
  <2> HIDE DEF f
  <2> QED BY <2>1, <2>2, EditsGrow
<1>3. CASE same # {}
  <2> DEFINE x == Smallest(same)  r == [e.lines[x] EXCEPT !.quantity = q]
             L == [e.lines EXCEPT ![x] = r]  f == [e EXCEPT !.lines = L]
  <2>1. e.lines \in Tables(LineIds, Line) /\ e.suborders \in Tables(SuborderIds, Subcustomers)
    BY <1>1 DEF Databases
  <2>2. DOMAIN e.lines \subseteq Nat /\ \A l \in DOMAIN e.lines : e.lines[l] \in Line
    BY <2>1, TableIs DEF LineIds
  <2>3. x \in same
    <3>1. same \in SUBSET Nat
      BY <2>2 DEF LinesOf
    <3> HIDE DEF same
    <3> QED BY <1>3, <3>1, SmallestIsLeast
  <2>4. UpdateProduct(a, s, p, q) = [a EXCEPT !.d.lines[x].quantity = q, !.left = @ \ {x}]
    BY <1>3 DEF UpdateProduct
  <2>5. x \in DOMAIN e.lines /\ e.lines[x].suborder = s /\ e.lines[x] \in Line
    BY <2>2, <2>3 DEF LinesOf
  <2> HIDE DEF x
  <2>6. r \in Line /\ r.suborder = s
    BY <2>5 DEF Line
  <2>7. UpdateProduct(a, s, p, q) = [d |-> f, left |-> a.left \ {x}]
    BY <1>1, <2>4, <2>5 DEF Databases, Line
  <2> HIDE DEF r
  <2>8. /\ L \in Tables(LineIds, Line) /\ DOMAIN L = DOMAIN e.lines
        /\ L[x] = r /\ \A l \in DOMAIN e.lines : l # x => L[l] = e.lines[l]
    BY <2>1, <2>5, <2>6, RowChanged
  <2> HIDE DEF L
  <2>9. f \in States(b, o)
    <3>1. ElsewhereSame(e.lines, L, o)
      BY <2>5, <2>6, <2>8 DEF ElsewhereSame
    <3>2. \A l \in DOMAIN L : L[l].suborder \in DOMAIN e.suborders
      BY <1>1, <2>6, <2>8 DEF Linked
    <3>3. IsFiniteSet(DOMAIN L)
      BY <1>1, <2>8 DEF Finite
    <3> HIDE DEF e
    <3> QED BY <1>1, <2>8, <3>1, <3>2, <3>3, WithLines
  <2>10. f.lines = L /\ f.suborders = e.suborders
    BY <1>1 DEF Databases
  <2>11. Mine(e, o) \subseteq Mine(f, o)
    BY <2>5, <2>6, <2>8, <2>10 DEF Mine
  <2> HIDE DEF f
  <2> QED BY <1>1, <2>7, <2>9, <2>10, <2>11 DEF Edits
<1> QED BY <1>2, <1>3

\* those of a suborder are,
LEMMA SuborderUpdated ==
    ASSUME NEW b, NEW o \in DOMAIN b.orders, NEW a \in Edits(b, o), NEW data \in SuborderData
    PROVE  _update_suborder(a, o, data) \in Edits(b, o)
<1> DEFINE s == <<o, data.seq_num>>  e == a.d
<1>1. /\ e \in States(b, o) /\ data.subcustomer \in Subcustomers /\ data.items \in Seq(ItemData)
      /\ a.left \in SUBSET LineIds /\ a.left \subseteq Mine(e, o) /\ a = [d |-> e, left |-> a.left]
      /\ s[1] = o
  BY DEF Edits, SuborderData
<1>2. CASE s \notin DOMAIN e.suborders
  <2> DEFINE f == _add_suborder(e, o, data)
  <2>1. _update_suborder(a, o, data) = [a EXCEPT !.d = f]
    BY <1>1, <1>2 DEF _update_suborder
  <2>2. f \in States(b, o) /\ Grown(e, f)
    BY <1>1, SuborderFilled
  <2> HIDE DEF f
  <2> QED BY <2>1, <2>2, EditsGrow
<1>3. CASE s \in DOMAIN e.suborders
  <2> DEFINE name == data.subcustomer  c == parse_subcustomer(e, name)
             S == [c.suborders EXCEPT ![s] = name]  known == [c EXCEPT !.suborders = S]
             start == [a EXCEPT !.d = known]  wanted == Grouped(data.items)
             f == SetToSeq(DOMAIN wanted)  n == Cardinality(DOMAIN wanted)
             D == {x \in Edits(b, o) : x.d.suborders = S}
             Step(x, p) == UpdateProduct(x, s, p, wanted[p])
             F == [i \in 1..n |-> [x \in D |-> Step(x, f[i])]]
             Iter(g) == g = [t \in SUBSET DOMAIN f |->
                                IF t = {} THEN start ELSE Step(g[t \ {Max(t)}], f[Max(t)])]
  <2>1. c \in States(b, o) /\ name \in c.subcustomers /\ c.suborders = e.suborders /\ c.lines = e.lines
    BY <1>1, WithNames
  <2>2. _update_suborder(a, o, data) = (CHOOSE g : Iter(g))[DOMAIN f]
    BY <1>3 DEF _update_suborder, FoldLeft, MapThenFoldSet
  <2> HIDE DEF c, s
  <2>3. /\ c \in Databases(b.invoices, b.requests) /\ Finite(c) /\ Linked(c)
        /\ c.suborders \in Tables(SuborderIds, Subcustomers)
    BY <2>1 DEF States, Sound, Databases
  <2>4. /\ S \in Tables(SuborderIds, Subcustomers) /\ DOMAIN S = DOMAIN c.suborders
        /\ S[s] = name /\ \A x \in DOMAIN c.suborders : x # s => S[x] = c.suborders[x]
    BY <1>1, <1>3, <2>1, <2>3, RowChanged
  <2> HIDE DEF S
  <2>5. known \in States(b, o)
    <3>1. \A x \in DOMAIN S : S[x] \in c.subcustomers /\ x[1] \in DOMAIN c.orders
      BY <2>1, <2>3, <2>4 DEF Linked
    <3>2. \A x : x[1] # o => (x \in DOMAIN S <=> x \in DOMAIN c.suborders)
      BY <2>4
    <3>3. \A l \in DOMAIN c.lines : c.lines[l].suborder \in DOMAIN S
      BY <2>3, <2>4 DEF Linked
    <3>4. IsFiniteSet(DOMAIN S)
      BY <2>3, <2>4 DEF Finite
    <3> QED BY <2>1, <2>4, <3>1, <3>2, <3>3, <3>4, WithSuborders
  <2>6. known.suborders = S /\ known.lines = e.lines
    BY <2>1, <2>3 DEF Databases
  <2> HIDE DEF known
  <2>7. start \in D
    <3>1. Grown(e, known)
      BY <2>6 DEF Grown
    <3>2. start \in Edits(b, o) /\ start.d = known
      BY <2>5, <3>1, EditsGrow
    <3> HIDE DEF start
    <3> QED BY <2>6, <3>2
  <2>8. n \in Nat /\ f \in [1..n -> DOMAIN wanted] /\ DOMAIN f = 1..n /\ \A p \in DOMAIN wanted : wanted[p] \in Nat
    BY <1>1, GroupedIs, SeqOfSet
  <2>9. \A i \in 1..n : \A x \in D : Step(x, f[i]) \in D
    <3> SUFFICES ASSUME NEW i \in 1..n, NEW x \in D PROVE Step(x, f[i]) \in D
      OBVIOUS
    <3>1. x \in Edits(b, o) /\ x.d.suborders = S /\ s \in DOMAIN x.d.suborders /\ wanted[f[i]] \in Nat
      BY <1>3, <2>1, <2>4, <2>8
    <3> HIDE DEF wanted, f
    <3>2. /\ UpdateProduct(x, s, f[i], wanted[f[i]]) \in Edits(b, o)
          /\ UpdateProduct(x, s, f[i], wanted[f[i]]).d.suborders = x.d.suborders
      BY <1>1, <3>1, ProductUpdated
    <3> QED BY <3>1, <3>2
  <2> HIDE DEF start, wanted, f
  <2>10. Through(F, n, D) /\ \A i \in 1..n : \A x \in D : F[i][x] = Step(x, f[i])
    BY <2>7, <2>9 DEF Through
  <2> HIDE DEF F, D, Step, n
  <2>11. PICK g \in [SUBSET (1..n) -> D] : Folds(g, n, D, start, F)
    BY <2>8, <2>7, <2>10, FoldSolved
  <2>12. Iter(g)
    <3>1. ASSUME NEW t \in SUBSET (1..n), t # {}
          PROVE  g[t] = Step(g[t \ {Max(t)}], f[Max(t)])
      <4>1. PICK m \in 1..n : m = Max(t)
        BY <2>8, <2>7, <3>1, MaxOf
      <4>2. PICK x \in D : x = g[t \ {Max(t)}]
        BY <2>11, <3>1
      <4>3. g[t] = F[m][x]
        BY <2>11, <3>1, <4>1, <4>2 DEF Folds
      <4>4. F[m][x] = Step(x, f[m])
        BY <2>10
      <4> QED BY <4>1, <4>2, <4>3, <4>4
    <3> QED BY <2>8, <2>7, <2>11, <3>1 DEF Folds
  <2>13. PICK h : Iter(h) /\ h = CHOOSE x : Iter(x)
    BY <2>12
  <2>14. Folds(h, n, D, start, F)
    <3>1. h[{}] = start
      BY <2>8, <2>7, <2>13
    <3>2. ASSUME NEW t \in SUBSET (1..n), t # {}, h[t \ {Max(t)}] \in D
          PROVE  h[t] = F[Max(t)][h[t \ {Max(t)}]]
      <4>1. PICK m \in 1..n : m = Max(t)
        BY <2>8, <2>7, <3>2, MaxOf
      <4>2. h[t] = Step(h[t \ {Max(t)}], f[Max(t)])
        BY <2>8, <2>7, <2>13, <3>2
      <4> QED BY <2>10, <3>2, <4>1, <4>2
    <3> QED BY <3>1, <3>2 DEF Folds
  <2>15. h[1..n] \in D
    BY <2>8, <2>7, <2>10, <2>14, FoldLands
  <2> QED BY <2>2, <2>8, <2>13, <2>15 DEF D
<1> QED BY <1>2, <1>3

\* and those of the order; what is left of it goes.
LEMMA OrderUpdated ==
    ASSUME NEW d, Sound(d), NEW o \in DOMAIN d.orders, NEW suborders \in Seq(SuborderData)
    PROVE  Updated(d, o, suborders) \in States(d, o)
<1> DEFINE n == Len(suborders)  D == Edits(d, o)
           start == [d |-> d, left |-> LinesOfOrder(d, o)]
           Step(a, data) == _update_suborder(a, o, data)
           F == [i \in 1..n |-> [a \in D |-> Step(a, suborders[i])]]
           Iter(g) == g = [t \in SUBSET DOMAIN suborders |->
                              IF t = {} THEN start ELSE Step(g[t \ {Max(t)}], suborders[Max(t)])]
           acc == (CHOOSE g : Iter(g))[DOMAIN suborders]
           e == DeleteLines(acc.d, acc.left)
           f == [e EXCEPT !.suborders = Without(@, {s \in SubordersOf(e, o) : LinesOf(e, s) = {}})]
<1>1. Updated(d, o, suborders) = IF suborders = <<>> THEN d ELSE f
  BY DEF Updated, FoldLeft, MapThenFoldSet
<1>2. n \in Nat /\ DOMAIN suborders = 1..n /\ \A i \in 1..n : suborders[i] \in SuborderData
  OBVIOUS
<1>3. start \in D
  <2>1. d \in States(d, o) /\ d.lines \in Tables(LineIds, Line)
    BY StatesBegin DEF Sound, Databases
  <2>2. LinesOfOrder(d, o) \subseteq Mine(d, o) /\ LinesOfOrder(d, o) \in SUBSET LineIds
    BY <2>1, TableIs DEF LinesOfOrder, LinesOf, SubordersOf, Mine
  <2> QED BY <2>1, <2>2 DEF Edits
<1>4. start \in D /\ \A i \in 1..n : \A a \in D : Step(a, suborders[i]) \in D
  BY <1>2, <1>3, SuborderUpdated
<1> HIDE DEF start
<1>5. Through(F, n, D) /\ \A i \in 1..n : \A x \in D : F[i][x] = Step(x, suborders[i])
  BY <1>4 DEF Through
<1> HIDE DEF F, D, Step, n
<1>6. PICK g \in [SUBSET (1..n) -> D] : Folds(g, n, D, start, F)
  BY <1>2, <1>4, <1>5, FoldSolved
<1>7. Iter(g)
  <2>1. ASSUME NEW t \in SUBSET (1..n), t # {}
        PROVE  g[t] = Step(g[t \ {Max(t)}], suborders[Max(t)])
    <3>1. PICK m \in 1..n : m = Max(t)
      BY <1>2, <1>4, <2>1, MaxOf
    <3>2. PICK x \in D : x = g[t \ {Max(t)}]
      BY <1>6, <2>1
    <3>3. g[t] = F[m][x]
      BY <1>6, <2>1, <3>1, <3>2 DEF Folds
    <3>4. F[m][x] = Step(x, suborders[m])
      BY <1>5
    <3> QED BY <3>1, <3>2, <3>3, <3>4
  <2> QED BY <1>2, <1>4, <1>6, <2>1 DEF Folds
<1>8. PICK h : Iter(h) /\ h = CHOOSE x : Iter(x)
  BY <1>7
<1>9. Folds(h, n, D, start, F)
  <2>1. h[{}] = start
    BY <1>2, <1>4, <1>8
  <2>2. ASSUME NEW t \in SUBSET (1..n), t # {}, h[t \ {Max(t)}] \in D
        PROVE  h[t] = F[Max(t)][h[t \ {Max(t)}]]
    <3>1. PICK m \in 1..n : m = Max(t)
      BY <1>2, <1>4, <2>2, MaxOf
    <3>2. h[t] = Step(h[t \ {Max(t)}], suborders[Max(t)])
      BY <1>2, <1>4, <1>8, <2>2
    <3> QED BY <1>5, <2>2, <3>1, <3>2
  <2> QED BY <2>1, <2>2 DEF Folds
<1>10. h[1..n] \in D
  BY <1>2, <1>4, <1>5, <1>9, FoldLands
<1>11. acc \in Edits(d, o)
  BY <1>2, <1>8, <1>10 DEF D
<1> HIDE DEF acc
<1>12. f \in States(d, o)
  <2> DEFINE c == acc.d  L == Without(c.lines, acc.left)
  <2>1. /\ c \in States(d, o) /\ c \in Databases(d.invoices, d.requests) /\ Finite(c) /\ Linked(c)
        /\ acc.left \subseteq Mine(c, o) /\ c.lines \in Tables(LineIds, Line)
    BY <1>11 DEF Edits, States, Sound, Databases
  <2>2. L \in Tables(LineIds, Line) /\ Deleted(c.lines, L, acc.left)
    BY <2>1, RowsDeleted DEF Finite
  <2>3. e = [c EXCEPT !.lines = L]
    BY <2>1 DEF DeleteLines, Databases
  <2> HIDE DEF L, c
  <2>4. e \in States(d, o)
    <3>1. ElsewhereSame(c.lines, L, o)
      BY <2>1, <2>2 DEF ElsewhereSame, Deleted, Mine
    <3>2. \A l \in DOMAIN L : L[l].suborder \in DOMAIN c.suborders
      BY <2>1, <2>2 DEF Linked, Deleted
    <3>3. IsFiniteSet(DOMAIN L)
      BY <2>2 DEF Deleted
    <3> HIDE DEF e
    <3> QED BY <2>1, <2>2, <2>3, <3>1, <3>2, <3>3, WithLines
  <2> HIDE DEF e
  <2> DEFINE W == {s \in SubordersOf(e, o) : LinesOf(e, s) = {}}  S == Without(e.suborders, W)
  <2>5. /\ e \in Databases(d.invoices, d.requests) /\ Finite(e) /\ Linked(e)
        /\ e.suborders \in Tables(SuborderIds, Subcustomers)
    BY <2>4 DEF States, Sound, Databases
  <2>6. \A s \in W : s[1] = o /\ LinesOf(e, s) = {}
    BY DEF SubordersOf
  <2>7. f = [e EXCEPT !.suborders = S]
    BY <2>5 DEF Databases
  <2> HIDE DEF W
  <2>8. S \in Tables(SuborderIds, Subcustomers) /\ Deleted(e.suborders, S, W)
    BY <2>5, RowsDeleted DEF Finite
  <2> HIDE DEF S, f
  <2>9. \A x \in DOMAIN S : S[x] \in e.subcustomers /\ x[1] \in DOMAIN e.orders
    BY <2>5, <2>8 DEF Linked, Deleted
  <2>10. \A x : x[1] # o => (x \in DOMAIN S <=> x \in DOMAIN e.suborders)
    BY <2>6, <2>8 DEF Deleted
  <2>11. \A l \in DOMAIN e.lines : e.lines[l].suborder \in DOMAIN S
    BY <2>5, <2>6, <2>8 DEF Linked, Deleted, LinesOf
  <2>12. IsFiniteSet(DOMAIN S)
    BY <2>8 DEF Deleted
  <2> QED BY <2>4, <2>7, <2>8, <2>9, <2>10, <2>11, <2>12, WithSuborders
<1> QED BY <1>1, <1>12, StatesBegin

-----------------------------------------------------------------------------
(* Totals.                                                                   *)

\* What an order should come to depends on its products alone.
LEMMA AlikeDue ==
    ASSUME NEW d, NEW e, NEW o, Alike(d, e, o)
    PROVE  DueFor(e, o) = DueFor(d, o)
<1> DEFINE S == SubordersOf(d, o)
<1>1. /\ SubordersOf(e, o) = S /\ Mine(e, o) = Mine(d, o)
      /\ \A l \in Mine(d, o) : e.lines[l] = d.lines[l]
      /\ \A s \in S : s[1] = o
  BY DEF Alike, SubordersOf
<1>2. \A l \in Mine(d, o) : Amount(e, l) = Amount(d, l)
  BY <1>1 DEF Amount
<1>3. ASSUME NEW s \in S
      PROVE  /\ LinesOf(e, s) = LinesOf(d, s) /\ LinesOf(d, s) \subseteq Mine(d, o)
             /\ Available(e, s) = Available(d, s) /\ Bulk(e, s) = Bulk(d, s)
             /\ Worth(e, Available(e, s)) = Worth(d, Available(d, s))
             /\ Worth(e, Bulk(e, s)) = Worth(d, Bulk(d, s))
  <2>1. LinesOf(e, s) = LinesOf(d, s) /\ LinesOf(d, s) \subseteq Mine(d, o)
    BY <1>1 DEF LinesOf, Mine
  <2>2. Available(e, s) = Available(d, s) /\ Available(d, s) \subseteq Mine(d, o)
    BY <1>1, <2>1 DEF Available
  <2>3. Bulk(e, s) = Bulk(d, s) /\ Bulk(d, s) \subseteq Mine(d, o)
    BY <1>1, <2>2 DEF Bulk
  <2>4. \A T \in SUBSET Mine(d, o) : Worth(e, T) = Worth(d, T)
    <3> SUFFICES ASSUME NEW T \in SUBSET Mine(d, o) PROVE Worth(e, T) = Worth(d, T)
      OBVIOUS
    <3>1. [l \in T |-> Amount(e, l)] = [l \in T |-> Amount(d, l)]
      BY <1>2
    <3> QED BY <3>1 DEF Worth
  <2> QED BY <2>1, <2>2, <2>3, <2>4
<1> HIDE DEF S
<1>4. [s \in S |-> Worth(e, Available(e, s))] = [s \in S |-> Worth(d, Available(d, s))]
  BY <1>3
<1>5. {s \in S : Bulk(e, s) # {} /\ Worth(e, Bulk(e, s)) < FreeLocalShipping}
        = {s \in S : Bulk(d, s) # {} /\ Worth(d, Bulk(d, s)) < FreeLocalShipping}
  BY <1>3
<1>6. SubordersOf(e, o) = S /\ SubordersOf(d, o) = S
  BY <1>1 DEF S
<1> QED BY <1>4, <1>5, <1>6 DEF DueFor

\* What shipping may cost.
LEMMA CostIs ==
    ASSUME NEW method, NEW weight
    PROVE  get_shipping_cost(method, weight) \in Nat \cup {NoRate}
<1> DEFINE rows == RowsFor(Rates, weight)
<1>1. rows \in SUBSET Nat /\ rows \subseteq DOMAIN Rates /\ Rates \in [DOMAIN Rates -> Nat]
  BY OrderAssumption DEF RowsFor
<1>2. rows # {} => Smallest(rows) \in rows
  <2> HIDE DEF rows
  <2> QED BY <1>1, SmallestIsLeast
<1>3. rows # {} => Rates[Smallest(rows)] \in Nat
  BY <1>1, <1>2
<1> QED BY <1>3 DEF get_shipping_cost, table_cost

\* The products of a suborder, and what they come to with their local shipping.
LEMMA SuborderComesTo ==
    ASSUME NEW d, Sound(d), NEW s
    PROVE  /\ IsFiniteSet(get_order_products(d, s))
           /\ get_order_products(d, s) \subseteq DOMAIN d.lines
           /\ get_subtotal(d, s) = Worth(d, Available(d, s)) /\ Worth(d, Available(d, s)) \in Nat
           /\ local_shipping(d, s) = IF Bulk(d, s) # {} /\ Worth(d, Bulk(d, s)) < FreeLocalShipping
                                     THEN LocalShippingCost ELSE 0
<1>1. IsFiniteSet(DOMAIN d.lines) /\ d.lines \in Tables(LineIds, Line)
  BY DEF Sound, Finite, Databases
<1>2. get_order_products(d, s) = Available(d, s) /\ Available(d, s) \in SUBSET DOMAIN d.lines
  BY DEF get_order_products, Available, LinesOf
<1>3. IsFiniteSet(Available(d, s))
  BY <1>1, <1>2, FS_Subset
<1>4. get_subtotal(d, s) = Worth(d, Available(d, s))
  BY <1>2 DEF get_subtotal, Worth
<1>5. Worth(d, Available(d, s)) \in Nat
  <2> DEFINE A == Available(d, s)  f == [l \in A |-> Amount(d, l)]
  <2>1. \A l \in A : f[l] \in Nat
    <3> SUFFICES ASSUME NEW l \in A PROVE Amount(d, l) \in Nat
      OBVIOUS
    <3>1. d.lines[l] \in Line
      BY <1>1, <1>2, TableIs
    <3> QED BY <3>1 DEF Amount, Line
  <2>2. Worth(d, A) = SumFunctionOnSet(f, A)
    BY DEF Worth, SumFunction
  <2> HIDE DEF f, A
  <2>3. SumFunctionOnSet(f, A) \in Nat
    BY <1>3, <2>1, SumIsNat DEF A
  <2> QED BY <2>2, <2>3 DEF A
<1>6. local_shipping(d, s) = IF Bulk(d, s) # {} /\ Worth(d, Bulk(d, s)) < FreeLocalShipping
                             THEN LocalShippingCost ELSE 0
  BY <1>2 DEF local_shipping, Bulk, Worth
<1> QED BY <1>1, <1>2, <1>3, <1>4, <1>5, <1>6

Goods(d, o) == UNION {get_order_products(d, s) : s \in SubordersOf(d, o)}
Subtotal(d, o) ==
    SumFunction([s \in SubordersOf(d, o) |-> get_subtotal(d, s) + local_shipping(d, s)])

\* The subtotal that is stored is what is due for the products of the order.
LEMMA SubtotalIs ==
    ASSUME NEW d, Sound(d), NEW o
    PROVE  Subtotal(d, o) = DueFor(d, o) /\ Subtotal(d, o) \in Nat
<1> DEFINE S == SubordersOf(d, o)  c == LocalShippingCost
           f == [s \in S |-> Worth(d, Available(d, s))]
           g == [s \in S |-> get_subtotal(d, s) + local_shipping(d, s)]
           W == {s \in S : Bulk(d, s) # {} /\ Worth(d, Bulk(d, s)) < FreeLocalShipping}
<1>1. IsFiniteSet(S) /\ c \in Nat
  BY FS_Subset, OrderAssumption DEF Sound, Finite, SubordersOf
<1>2. \A s \in S : f[s] \in Nat /\ g[s] = f[s] + (IF s \in W THEN c ELSE 0)
  <2> SUFFICES ASSUME NEW s \in S
               PROVE  /\ Worth(d, Available(d, s)) \in Nat
                      /\ get_subtotal(d, s) + local_shipping(d, s)
                            = Worth(d, Available(d, s)) + (IF s \in W THEN c ELSE 0)
    OBVIOUS
  <2>1. /\ get_subtotal(d, s) = Worth(d, Available(d, s)) /\ Worth(d, Available(d, s)) \in Nat
        /\ local_shipping(d, s) = IF Bulk(d, s) # {} /\ Worth(d, Bulk(d, s)) < FreeLocalShipping
                                  THEN LocalShippingCost ELSE 0
    BY SuborderComesTo
  <2> QED BY <2>1
<1>3. Subtotal(d, o) = SumFunctionOnSet(g, S)
  BY DEF Subtotal, SumFunction
<1>4. DueFor(d, o) = SumFunctionOnSet(f, S) + c * Cardinality(W)
  BY DEF DueFor, SumFunction
<1>5. W \in SUBSET S
  OBVIOUS
<1> HIDE DEF S, f, g, W, c
<1>6. SumFunctionOnSet(g, S) = SumFunctionOnSet(f, S) + c * Cardinality(W)
  <2>1. Integral(f, S) /\ c \in Int /\ \A s \in S : g[s] = f[s] + (IF s \in W THEN c ELSE 0)
    BY <1>1, <1>2 DEF Integral
  <2> QED BY <1>1, <1>5, <2>1, SumWithSurcharge
<1>7. SumFunctionOnSet(g, S) \in Nat
  <2>1. \A s \in S : g[s] \in Nat
    BY <1>1, <1>2
  <2> QED BY <1>1, <2>1, SumIsNat
<1> QED BY <1>3, <1>4, <1>6, <1>7

\* Goods weigh a natural number of grams.
LEMMA GoodsWeigh ==
    ASSUME NEW d, Sound(d), NEW o
    PROVE  SumFunction([l \in Goods(d, o) |-> Grams(d, l)]) \in Nat
<1> DEFINE S == Goods(d, o)  f == [l \in S |-> Grams(d, l)]
<1>1. S \in SUBSET DOMAIN d.lines
  BY DEF Goods, get_order_products, LinesOf
<1>2. IsFiniteSet(S) /\ d.lines \in Tables(LineIds, Line)
  BY <1>1, FS_Subset DEF Sound, Finite, Databases
<1>3. \A l \in S : f[l] \in Nat
  <2> SUFFICES ASSUME NEW l \in S PROVE Grams(d, l) \in Nat
    OBVIOUS
  <2>1. d.lines[l] \in Line
    BY <1>1, <1>2, TableIs
  <2>2. Weight[d.lines[l].product] \in Nat /\ d.lines[l].quantity \in Nat
    BY <2>1, OrderAssumption DEF Line
  <2> QED BY <2>2 DEF Grams
<1>4. SumFunction(f) = SumFunctionOnSet(f, S)
  BY DEF SumFunction
<1> HIDE DEF f, S
<1>5. SumFunctionOnSet(f, S) \in Nat
  BY <1>2, <1>3, SumIsNat
<1> QED BY <1>4, <1>5 DEF f, S

\* The total of one order is computed.
Totalled(d, e, o, fee) ==
    /\ e.suborders = d.suborders /\ e.lines = d.lines /\ e.subcustomers = d.subcustomers
    /\ e.invoices = d.invoices /\ e.requests = d.requests /\ e.unpriced = d.unpriced \ {o}
    /\ DOMAIN e.orders = DOMAIN d.orders
    /\ \A x \in DOMAIN d.orders \ {o} : e.orders[x] = d.orders[x]
    /\ AddsUp(e, o)
    /\ e.orders[o].total = e.orders[o].subtotal + e.orders[o].cost + fee
    /\ e.orders[o].shipping = d.orders[o].shipping
    /\ d.orders[o].shipping \in NoShipping => e.orders[o].cost = 0

\* update_total makes the order add up, and touches no other.
LEMMA TotalUpdated ==
    ASSUME NEW d, Sound(d), NEW o \in DOMAIN d.orders, NEW fee \in {0, ServiceFee}
    PROVE  Sound(update_total(d, o, fee)) /\ Totalled(d, update_total(d, o, fee), o, fee)
<1> DEFINE r == d.orders[o]
           weight == IF r.manual THEN r.total_weight
                     ELSE SumFunction([l \in Goods(d, o) |-> Grams(d, l)])
           box == IF r.manual THEN 0
                  ELSE IF r.boxes # <<>> THEN BoxesWeight(r.boxes)
                  ELSE IF r.shipping \in NoShipping THEN 0 ELSE get_box_weight(weight)
           subtotal == Subtotal(d, o)  cost == get_shipping_cost(r.shipping, weight + box)
           row == [r EXCEPT !.total_weight = weight, !.subtotal = subtotal, !.cost = cost,
                            !.total = subtotal + cost + fee]
           O == [d.orders EXCEPT ![o] = row]  e == update_total(d, o, fee)
<1>1. /\ d \in Databases(d.invoices, d.requests) /\ Finite(d) /\ Linked(d)
      /\ d.orders \in Tables(OrderIds, Row)
  BY DEF Sound, Databases
<1>2. r \in Row /\ fee \in Nat
  BY <1>1, TableIs, OrderAssumption
<1>3. e = [d EXCEPT !.orders[o] = row, !.unpriced = @ \ {o}]
  BY DEF update_total, Subtotal, Goods
<1>4. cost \in Nat \cup {NoRate} /\ (r.shipping \in NoShipping => cost = 0)
  <2>1. cost \in Nat \cup {NoRate}
    BY CostIs
  <2> QED BY <2>1 DEF get_shipping_cost
<1>5. weight \in Nat
  BY <1>2, GoodsWeigh DEF Row
<1>6. subtotal = DueFor(d, o) /\ subtotal \in Nat
  BY SubtotalIs
<1> HIDE DEF cost, weight, subtotal
<1>7. subtotal + cost + fee \in Int /\ subtotal + cost + fee - subtotal - cost = fee
  BY <1>2, <1>4, <1>6 DEF NoRate
<1>8. /\ row \in Row /\ row.subtotal = subtotal /\ row.cost = cost
      /\ row.total = subtotal + cost + fee
      /\ row.invoice = r.invoice /\ row.shipping = r.shipping
  BY <1>2, <1>4, <1>5, <1>6, <1>7 DEF Row
<1>9. e = [d EXCEPT !.orders = O, !.unpriced = @ \ {o}]
  BY <1>1, <1>3 DEF Databases
<1> HIDE DEF row, e
<1>10. /\ O \in Tables(OrderIds, Row) /\ DOMAIN O = DOMAIN d.orders
       /\ O[o] = row /\ \A x \in DOMAIN d.orders : x # o => O[x] = d.orders[x]
  <2> HIDE DEF r
  <2> QED BY <1>1, <1>8, RowChanged
<1> HIDE DEF O
<1>11. /\ e \in Databases(d.invoices, d.requests) /\ e.lines = d.lines /\ e.orders = O
       /\ e.suborders = d.suborders /\ e.invoices = d.invoices /\ e.subcustomers = d.subcustomers
       /\ e.unpriced = d.unpriced \ {o} /\ e.requests = d.requests
  BY <1>1, <1>9, <1>10 DEF Databases
<1>12. Sound(e)
  BY <1>1, <1>8, <1>10, <1>11 DEF Sound, Finite, Linked
<1>13. DueFor(e, o) = DueFor(d, o)
  <2>1. Alike(d, e, o)
    BY <1>11 DEF Alike, SubordersOf, Mine
  <2> QED BY <2>1, AlikeDue
<1>14. AddsUp(e, o)
  <2>1. /\ e.orders[o].subtotal = subtotal /\ e.orders[o].cost = cost
        /\ e.orders[o].total = subtotal + cost + fee
    BY <1>8, <1>10, <1>11
  <2>2. e.orders[o].total - e.orders[o].subtotal - e.orders[o].cost = fee
    <3>1. subtotal \in Int /\ cost \in Int /\ fee \in Int
      BY <1>2, <1>4, <1>6 DEF NoRate
    <3> HIDE DEF e
    <3> QED BY <2>1, <3>1
  <2> QED BY <1>6, <1>13, <2>1, <2>2 DEF AddsUp
<1>15. Totalled(d, e, o, fee)
  BY <1>4, <1>8, <1>10, <1>11, <1>14 DEF Totalled
<1> QED BY <1>12, <1>15 DEF e

-----------------------------------------------------------------------------
(* The invariant: a sound database in which every order adds up, but those   *)
(* whose total is left behind, and has a rate; but for the orders S that a   *)
(* request is working on.                                                    *)

Rated(d, x) == d.orders[x].cost \in Nat /\ d.orders[x].total \in Nat
WholeBut(d, S) ==
    /\ Sound(d)
    /\ \A x \in DOMAIN d.orders \ (d.unpriced \cup S) : AddsUp(d, x)
    /\ \A x \in DOMAIN d.orders \ S : Rated(d, x)
Whole(d) == WholeBut(d, {})

\* An order goes on adding up if neither its products nor its amounts change,
LEMMA GoesOnAdding ==
    ASSUME NEW d, NEW e, NEW x, AddsUp(d, x), Alike(d, e, x),
           e.orders[x].subtotal = d.orders[x].subtotal, e.orders[x].cost = d.orders[x].cost,
           e.orders[x].total = d.orders[x].total
    PROVE  AddsUp(e, x)
<1>1. DueFor(e, x) = DueFor(d, x)
  BY AlikeDue
<1> QED BY <1>1 DEF AddsUp

\* as orders do that have not changed at all.
LEMMA SameContents ==
    ASSUME NEW d, NEW e, NEW x, e.lines = d.lines, e.suborders = d.suborders
    PROVE  Alike(d, e, x)
  BY DEF Alike, SubordersOf, Mine

\* Working on one order, a request leaves the others whole.
LEMMA WholeElsewhere ==
    ASSUME NEW d, NEW S, WholeBut(d, S), NEW o, NEW e \in States(d, o)
    PROVE  WholeBut(e, S \cup {o})
<1>1. /\ Sound(e) /\ DOMAIN e.orders = DOMAIN d.orders /\ e.unpriced = d.unpriced /\ Only(d, e, o)
  BY DEF States
<1>2. ASSUME NEW x \in DOMAIN e.orders \ (e.unpriced \cup (S \cup {o})) PROVE AddsUp(e, x)
  <2>1. AddsUp(d, x)
    BY <1>1, <1>2 DEF WholeBut
  <2>2. Alike(d, e, x) /\ e.orders[x] = d.orders[x]
    BY <1>1, <1>2 DEF Only
  <2> QED BY <2>1, <2>2, GoesOnAdding
<1>3. ASSUME NEW x \in DOMAIN e.orders \ (S \cup {o}) PROVE Rated(e, x)
  BY <1>1, <1>3 DEF WholeBut, Only, Rated
<1> QED BY <1>1, <1>2, <1>3 DEF WholeBut

\* Computing the total makes an order add up.
LEMMA WholeTotalled ==
    ASSUME NEW d, NEW o \in DOMAIN d.orders, WholeBut(d, {o}), NEW fee \in {0, ServiceFee},
           HasRate(update_total(d, o, fee), o) \/ d.orders[o].shipping \in NoShipping
    PROVE  Whole(update_total(d, o, fee)) /\ Totalled(d, update_total(d, o, fee), o, fee)
<1> DEFINE e == update_total(d, o, fee)
<1>1. Sound(e) /\ Totalled(d, e, o, fee)
  BY TotalUpdated DEF WholeBut
<1> HIDE DEF e
<1>2. /\ e.suborders = d.suborders /\ e.lines = d.lines /\ e.unpriced = d.unpriced \ {o}
      /\ DOMAIN e.orders = DOMAIN d.orders /\ AddsUp(e, o)
      /\ \A x \in DOMAIN d.orders \ {o} : e.orders[x] = d.orders[x]
  BY <1>1 DEF Totalled
<1>3. ASSUME NEW x \in DOMAIN e.orders \ e.unpriced PROVE AddsUp(e, x)
  <2>1. CASE x = o
    BY <1>2, <2>1
  <2>2. CASE x # o
    <3>1. AddsUp(d, x) /\ e.orders[x] = d.orders[x]
      BY <1>2, <1>3, <2>2 DEF WholeBut
    <3> QED BY <1>2, <3>1, SameContents, GoesOnAdding
  <2> QED BY <2>1, <2>2
<1>4. Rated(e, o)
  <2>1. /\ e.orders \in Tables(OrderIds, Row) /\ o \in DOMAIN e.orders
    BY <1>1, <1>2 DEF Sound, Databases
  <2>2. e.orders[o] \in Row
    BY <2>1, TableIs
  <2>3. /\ e.orders[o].cost \in Nat \cup {NoRate} /\ e.orders[o].subtotal \in Nat
        /\ e.orders[o].total = e.orders[o].subtotal + e.orders[o].cost + fee
        /\ fee \in Nat
    BY <1>1, <2>2, OrderAssumption DEF Row, Totalled
  <2>4. e.orders[o].cost \in Nat
    <3>1. CASE HasRate(e, o)
      BY <2>3, <3>1 DEF HasRate
    <3>2. CASE d.orders[o].shipping \in NoShipping
      BY <1>1, <3>2 DEF Totalled
    <3> QED BY <3>1, <3>2 DEF e
  <2> QED BY <2>3, <2>4 DEF Rated
<1>5. ASSUME NEW x \in DOMAIN e.orders PROVE Rated(e, x)
  BY <1>2, <1>4, <1>5 DEF WholeBut, Rated
<1> QED BY <1>1, <1>3, <1>5 DEF Whole, WholeBut, e

\* What a request stores is what it has worked out.
LEMMA Committed ==
    ASSUME NEW d, Whole(d), Commit(d)
    PROVE  Whole(db') /\ db'.orders = d.orders /\ db'.lines = d.lines /\ db'.suborders = d.suborders
<1> DEFINE e == [d EXCEPT !.requests = @ + 1]
<1>1. Sound(d) /\ d \in Databases(d.invoices, d.requests) /\ Finite(d) /\ Linked(d)
  BY DEF Whole, WholeBut, Sound
<1>2. db' = e
  BY DEF Commit
<1>3. /\ e \in Databases(e.invoices, e.requests) /\ e.lines = d.lines /\ e.orders = d.orders
      /\ e.suborders = d.suborders /\ e.invoices = d.invoices /\ e.subcustomers = d.subcustomers
      /\ e.unpriced = d.unpriced
  BY <1>1 DEF Databases
<1> HIDE DEF e
<1>4. Sound(e)
  BY <1>1, <1>3 DEF Sound, Finite, Linked
<1>5. ASSUME NEW x \in DOMAIN e.orders \ e.unpriced PROVE AddsUp(e, x)
  <2>1. AddsUp(d, x)
    BY <1>3, <1>5 DEF Whole, WholeBut
  <2> QED BY <1>3, <2>1, SameContents, GoesOnAdding
<1>6. Whole(e)
  BY <1>3, <1>4, <1>5 DEF Whole, WholeBut, Rated
<1> QED BY <1>2, <1>3, <1>6

\* An order whose total is left behind is marked.
LEMMA LeftBehind ==
    ASSUME NEW d, NEW o \in DOMAIN d.orders, WholeBut(d, {o}), Rated(d, o)
    PROVE  LET e == [d EXCEPT !.unpriced = @ \cup {o}]
           IN  Whole(e) /\ e.orders = d.orders /\ e.lines = d.lines /\ e.suborders = d.suborders
<1> DEFINE e == [d EXCEPT !.unpriced = @ \cup {o}]
<1>1. /\ d \in Databases(d.invoices, d.requests) /\ Finite(d) /\ Linked(d)
      /\ d.orders \in Tables(OrderIds, Row)
  BY DEF WholeBut, Sound, Databases
<1>2. o \in Int
  BY <1>1, TableIs DEF OrderIds
<1>3. /\ e \in Databases(e.invoices, e.requests) /\ e.lines = d.lines /\ e.orders = d.orders
      /\ e.suborders = d.suborders /\ e.invoices = d.invoices /\ e.subcustomers = d.subcustomers
      /\ e.unpriced = d.unpriced \cup {o}
  BY <1>1, <1>2 DEF Databases
<1> HIDE DEF e
<1>4. Sound(e)
  BY <1>1, <1>3 DEF Sound, Finite, Linked
<1>5. ASSUME NEW x \in DOMAIN e.orders \ e.unpriced PROVE AddsUp(e, x)
  <2>1. AddsUp(d, x)
    BY <1>3, <1>5 DEF WholeBut
  <2> QED BY <1>3, <2>1, SameContents, GoesOnAdding
<1>6. Whole(e)
  BY <1>3, <1>4, <1>5 DEF Whole, WholeBut, Rated
<1> QED BY <1>3, <1>6 DEF e

\* A row of an order is edited in what its total does not depend on.
LEMMA RowEdited ==
    ASSUME NEW d, Whole(d), NEW o \in DOMAIN d.orders, NEW r \in Row,
           r.invoice = d.orders[o].invoice, r.subtotal = d.orders[o].subtotal,
           r.cost = d.orders[o].cost, r.total = d.orders[o].total
    PROVE  Whole([d EXCEPT !.orders[o] = r])
<1> DEFINE e == [d EXCEPT !.orders[o] = r]
<1>1. Sound(d) /\ Linked(d) /\ d \in Databases(d.invoices, d.requests)
  BY DEF Whole, WholeBut, Sound
<1>2. e \in States(d, o)
  BY <1>1, StatesBegin, WithOrder DEF Linked
<1>3. e.lines = d.lines /\ e.suborders = d.suborders /\ e.orders[o] = r
  BY <1>1 DEF Databases
<1>4. WholeBut(e, {o}) /\ DOMAIN e.orders = DOMAIN d.orders /\ e.unpriced = d.unpriced
  <2> HIDE DEF e
  <2>1. WholeBut(d, {})
    BY DEF Whole
  <2>2. WholeBut(e, {} \cup {o})
    BY <1>2, <2>1, WholeElsewhere
  <2> QED BY <1>2, <2>2 DEF States
<1> HIDE DEF e
<1>5. ASSUME o \notin e.unpriced PROVE AddsUp(e, o)
  <2>1. AddsUp(d, o)
    BY <1>4, <1>5 DEF Whole, WholeBut
  <2> QED BY <1>3, <2>1, SameContents, GoesOnAdding
<1>6. Rated(e, o)
  BY <1>3 DEF Whole, WholeBut, Rated
<1>7. Whole(e)
  BY <1>4, <1>5, <1>6 DEF Whole, WholeBut
<1> QED BY <1>7 DEF e

\* A new order is made.
LEMMA NewOrderIs ==
    ASSUME NEW d, Sound(d), NEW method \in Methods, NEW status \in OrderStatuses
    PROVE  NewOrder(d, method, status) \in Row /\ NewOrder(d, method, status).invoice = None
<1> DEFINE T == {d.orders[o].when_created : o \in DOMAIN d.orders}
           f == [o \in DOMAIN d.orders |-> d.orders[o].when_created]  K == DOMAIN d.orders
<1>1. d.orders \in Tables(OrderIds, Row) /\ IsFiniteSet(K)
  BY DEF Sound, Databases, Finite
<1>2. \A o \in DOMAIN d.orders : d.orders[o] \in Row
  BY <1>1, TableIs
<1>3. T \in SUBSET Nat
  BY <1>2 DEF Row
<1>4. f \in Surjection(K, T)
  BY DEF Surjection
<1> DEFINE n == LastNumber(T)
<1>5. n \in Nat
  <2> HIDE DEF T, f, K
  <2> QED BY <1>1, <1>3, <1>4, FS_Surjection, LastNumberIs
<1>6. NewOrder(d, method, status) =
        [status |-> status, shipping |-> method, manual |-> FALSE, total_weight |-> 0,
         boxes |-> <<>>, subtotal |-> 0, cost |-> 0, total |-> 0, invoice |-> None,
         when_created |-> 1 + n]
  BY DEF NewOrder
<1> HIDE DEF n
<1> QED BY <1>5, <1>6 DEF Row

\* e is d with the order o of row r, which has nothing yet and is not priced.
HasNew(d, e, o, r) ==
    /\ WholeBut(e, {o}) /\ DOMAIN e.orders = DOMAIN d.orders \cup {o}
    /\ e.lines = d.lines /\ e.suborders = d.suborders /\ e.subcustomers = d.subcustomers
    /\ e.orders[o] = r /\ \A x \in DOMAIN d.orders : e.orders[x] = d.orders[x]

\* The row of a new order is added.
LEMMA OrderAdded ==
    ASSUME NEW d, Whole(d), NEW o \in Int \ DOMAIN d.orders, NEW r \in Row, r.invoice = None
    PROVE  HasNew(d, AddOrder(d, o, r), o, r)
<1> DEFINE e == AddOrder(d, o, r)  O == With(d.orders, o, r)
<1>1. /\ d \in Databases(d.invoices, d.requests) /\ Finite(d) /\ Linked(d)
      /\ d.orders \in Tables(OrderIds, Row) /\ IsFiniteSet(DOMAIN d.orders)
  BY DEF Whole, WholeBut, Sound, Databases, Finite
<1>2. O \in Tables(OrderIds, Row) /\ Added(d.orders, O, o, r)
  BY <1>1, RowAdded DEF OrderIds
<1>3. e = [d EXCEPT !.orders = O]
  BY DEF AddOrder
<1> HIDE DEF O, e
<1>4. /\ DOMAIN O = DOMAIN d.orders \cup {o} /\ IsFiniteSet(DOMAIN O) /\ O[o] = r
      /\ \A x \in DOMAIN d.orders : O[x] = d.orders[x]
  BY <1>2 DEF Added
<1>5. /\ e \in Databases(e.invoices, e.requests) /\ e.lines = d.lines /\ e.orders = O
      /\ e.suborders = d.suborders /\ e.invoices = d.invoices /\ e.subcustomers = d.subcustomers
      /\ e.unpriced = d.unpriced
  BY <1>1, <1>2, <1>3 DEF Databases
<1>6. Sound(e)
  BY <1>1, <1>4, <1>5 DEF Sound, Finite, Linked
<1>7. ASSUME NEW x \in DOMAIN e.orders \ (e.unpriced \cup {o}) PROVE AddsUp(e, x)
  <2>1. AddsUp(d, x) /\ e.orders[x] = d.orders[x]
    BY <1>4, <1>5, <1>7 DEF Whole, WholeBut
  <2> QED BY <1>5, <2>1, SameContents, GoesOnAdding
<1>8. ASSUME NEW x \in DOMAIN e.orders \ {o} PROVE Rated(e, x)
  BY <1>4, <1>5, <1>8 DEF Whole, WholeBut, Rated
<1>9. HasNew(d, e, o, r)
  BY <1>4, <1>5, <1>6, <1>7, <1>8 DEF HasNew, WholeBut
<1> QED BY <1>9 DEF e

\* The numbers of orders and drafts are not taken.
LEMMA NewIdIs ==
    ASSUME NEW d, Sound(d)
    PROVE  get_new_id(d) \in Int \ DOMAIN d.orders
<1> DEFINE S == {o \in DOMAIN d.orders : o > 0}
<1>1. d.orders \in Tables(OrderIds, Row) /\ IsFiniteSet(DOMAIN d.orders)
  BY DEF Sound, Databases, Finite
<1>2. DOMAIN d.orders \subseteq Int
  BY <1>1, TableIs DEF OrderIds
<1>3. S \in SUBSET Nat /\ IsFiniteSet(S)
  BY <1>1, <1>2, FS_Subset
<1> DEFINE n == LastNumber(S)
<1>4. n \in Nat /\ \A x \in S : x <= n
  <2> HIDE DEF S
  <2> QED BY <1>3, LastNumberIs
<1>5. get_new_id(d) = 1 + n
  BY DEF get_new_id
<1> HIDE DEF n
<1>6. 1 + n \notin DOMAIN d.orders
  BY <1>4
<1> QED BY <1>4, <1>5, <1>6

\* Nor is the number of a draft.
LEMMA DraftIdIs ==
    ASSUME NEW d, Sound(d)
    PROVE  _set_draft(d) \in Int \ DOMAIN d.orders
<1> DEFINE K == DOMAIN d.orders  n == Cardinality(K)  f == [i \in 1..(n + 1) |-> -i]
           Free == {m \in 1..n + 1 : -m \notin K}
<1>1. IsFiniteSet(K) /\ n \in Nat
  BY FS_CardinalityType DEF Sound, Finite
<1>2. \E i \in 1..(n + 1) : f[i] \notin K
  <2>1. f \in [1..(n + 1) -> Int] /\ \A i, j \in 1..(n + 1) : f[i] = f[j] => i = j
    BY <1>1
  <2> HIDE DEF f, K
  <2> QED BY <1>1, <2>1, OneIsFree
<1>3. Free # {} /\ Free \in SUBSET Nat
  BY <1>1, <1>2
<1>4. _set_draft(d) = -Smallest(Free)
  BY DEF _set_draft
<1>5. \A m \in Free : m \in Nat /\ -m \notin K
  BY <1>3
<1> HIDE DEF Free, K
<1>6. Smallest(Free) \in Free
  BY <1>3, SmallestIsLeast
<1> QED BY <1>4, <1>5, <1>6 DEF K

\* An order is deleted with all it has.
LEMMA OrderDeleted ==
    ASSUME NEW d, Whole(d), NEW o \in DOMAIN d.orders
    PROVE  Whole(DeleteOrder(d, o)) /\ DOMAIN DeleteOrder(d, o).orders = DOMAIN d.orders \ {o}
<1> DEFINE G == LinesOfOrder(d, o)  H == SubordersOf(d, o)  L == Without(d.lines, G)
           S == Without(d.suborders, H)  O == Without(d.orders, {o})  e == DeleteOrder(d, o)
<1>1. /\ d \in Databases(d.invoices, d.requests) /\ Finite(d) /\ Linked(d)
      /\ d.orders \in Tables(OrderIds, Row) /\ IsFiniteSet(DOMAIN d.orders)
      /\ d.lines \in Tables(LineIds, Line) /\ IsFiniteSet(DOMAIN d.lines)
      /\ d.suborders \in Tables(SuborderIds, Subcustomers) /\ IsFiniteSet(DOMAIN d.suborders)
  BY DEF Whole, WholeBut, Sound, Databases, Finite
<1>2. e = [d EXCEPT !.lines = L, !.suborders = S, !.orders = O, !.unpriced = @ \ {o}]
  BY <1>1 DEF DeleteOrder, DeleteLines, Databases
<1>3. /\ \A l \in DOMAIN d.lines : l \in G <=> d.lines[l].suborder[1] = o
      /\ \A s \in DOMAIN d.suborders : s \in H <=> s[1] = o
  BY <1>1 DEF LinesOfOrder, LinesOf, SubordersOf, Linked
<1> HIDE DEF G, H
<1>4. L \in Tables(LineIds, Line) /\ Deleted(d.lines, L, G)
  BY <1>1, RowsDeleted
<1>5. S \in Tables(SuborderIds, Subcustomers) /\ Deleted(d.suborders, S, H)
  BY <1>1, RowsDeleted
<1>6. O \in Tables(OrderIds, Row) /\ Deleted(d.orders, O, {o})
  BY <1>1, RowsDeleted
<1> HIDE DEF L, S, O, e
<1>7. /\ e \in Databases(e.invoices, e.requests) /\ e.lines = L /\ e.orders = O
      /\ e.suborders = S /\ e.invoices = d.invoices /\ e.subcustomers = d.subcustomers
      /\ e.unpriced = d.unpriced \ {o}
  BY <1>1, <1>2, <1>4, <1>5, <1>6 DEF Databases
<1>8. /\ DOMAIN L = DOMAIN d.lines \ G /\ \A x \in DOMAIN L : L[x] = d.lines[x]
      /\ DOMAIN S = DOMAIN d.suborders \ H /\ \A x \in DOMAIN S : S[x] = d.suborders[x]
      /\ DOMAIN O = DOMAIN d.orders \ {o} /\ \A x \in DOMAIN O : O[x] = d.orders[x]
      /\ IsFiniteSet(DOMAIN L) /\ IsFiniteSet(DOMAIN S) /\ IsFiniteSet(DOMAIN O)
  BY <1>4, <1>5, <1>6 DEF Deleted
<1>9. Linked(e)
  BY <1>1, <1>3, <1>7, <1>8 DEF Linked
<1>10. Sound(e)
  BY <1>1, <1>7, <1>8, <1>9 DEF Sound, Finite
<1>11. ASSUME NEW x \in DOMAIN e.orders \ e.unpriced PROVE AddsUp(e, x)
  <2>1. AddsUp(d, x) /\ e.orders[x] = d.orders[x] /\ x # o
    BY <1>7, <1>8, <1>11 DEF Whole, WholeBut
  <2>2. SubordersOf(e, x) = SubordersOf(d, x)
    BY <1>3, <1>7, <1>8, <2>1 DEF SubordersOf
  <2>3. Mine(e, x) = Mine(d, x) /\ \A l \in Mine(d, x) : e.lines[l] = d.lines[l]
    BY <1>3, <1>7, <1>8, <2>1 DEF Mine
  <2>4. Alike(d, e, x)
    BY <2>2, <2>3 DEF Alike
  <2> QED BY <2>1, <2>4, GoesOnAdding
<1>12. ASSUME NEW x \in DOMAIN e.orders PROVE Rated(e, x)
  BY <1>7, <1>8, <1>12 DEF Whole, WholeBut, Rated
<1> QED BY <1>7, <1>8, <1>10, <1>11, <1>12 DEF Whole, WholeBut, e
\* Products of an order are edited,
LEMMA LineEdited ==
    ASSUME NEW d, Whole(d), NEW l \in DOMAIN d.lines, NEW row \in Line,
           row.suborder = d.lines[l].suborder
    PROVE  LET e == [d EXCEPT !.lines[l] = row]  o == d.lines[l].suborder[1]
           IN  /\ e \in States(d, o) /\ WholeBut(e, {o}) /\ o \in DOMAIN d.orders
               /\ e.orders = d.orders
<1> DEFINE L == [d.lines EXCEPT ![l] = row]  o == d.lines[l].suborder[1]
           e == [d EXCEPT !.lines[l] = row]
<1>1. /\ Sound(d) /\ d \in Databases(d.invoices, d.requests) /\ Finite(d) /\ Linked(d)
      /\ d.lines \in Tables(LineIds, Line) /\ IsFiniteSet(DOMAIN d.lines)
  BY DEF Whole, WholeBut, Sound, Databases, Finite
<1>2. /\ L \in Tables(LineIds, Line) /\ DOMAIN L = DOMAIN d.lines /\ L[l] = row
      /\ \A x \in DOMAIN d.lines : x # l => L[x] = d.lines[x]
  BY <1>1, RowChanged
<1>3. e = [d EXCEPT !.lines = L]
  BY <1>1 DEF Databases
<1> HIDE DEF L, e
<1>4. ElsewhereSame(d.lines, L, o) /\ \A x \in DOMAIN L : L[x].suborder \in DOMAIN d.suborders
  BY <1>1, <1>2 DEF ElsewhereSame, Linked
<1>5. e \in States(d, o)
  BY <1>1, <1>2, <1>3, <1>4, StatesBegin, WithLines
<1>6. o \in DOMAIN d.orders
  BY <1>1 DEF Linked
<1>7. WholeBut(e, {o})
  <2>1. WholeBut(d, {})
    BY DEF Whole
  <2>2. WholeBut(e, {} \cup {o})
    BY <1>5, <2>1, WholeElsewhere
  <2> QED BY <2>2
<1> HIDE DEF o
<1>8. e.orders = d.orders
  BY <1>1, <1>3 DEF Databases
<1> QED BY <1>5, <1>6, <1>7, <1>8 DEF e, o

\* and deleted.
Drops(e, f, l) ==
    /\ f.suborders = e.suborders /\ f.orders = e.orders /\ f.unpriced = e.unpriced
    /\ DOMAIN f.lines = DOMAIN e.lines \ {l} /\ \A x \in DOMAIN f.lines : f.lines[x] = e.lines[x]

\* Deleting a product drops its row, and changes the one order.
LEMMA LineDeleted ==
    ASSUME NEW d, NEW o, NEW e \in States(d, o), NEW l \in DOMAIN e.lines,
           o = e.lines[l].suborder[1]
    PROVE  DeleteLines(e, {l}) \in States(d, o) /\ Drops(e, DeleteLines(e, {l}), l)
<1> DEFINE L == Without(e.lines, {l})  f == DeleteLines(e, {l})
<1>1. /\ Sound(e) /\ e \in Databases(d.invoices, d.requests) /\ Linked(e)
      /\ e.lines \in Tables(LineIds, Line) /\ IsFiniteSet(DOMAIN e.lines)
  BY DEF States, Sound, Databases, Finite
<1>2. L \in Tables(LineIds, Line) /\ Deleted(e.lines, L, {l})
  BY <1>1, RowsDeleted
<1>3. f = [e EXCEPT !.lines = L]
  BY DEF DeleteLines
<1> HIDE DEF L, f
<1>4. /\ DOMAIN L = DOMAIN e.lines \ {l} /\ IsFiniteSet(DOMAIN L)
      /\ \A x \in DOMAIN L : L[x] = e.lines[x]
  BY <1>2 DEF Deleted
<1>5. ElsewhereSame(e.lines, L, o) /\ \A x \in DOMAIN L : L[x].suborder \in DOMAIN e.suborders
  BY <1>1, <1>4 DEF ElsewhereSame, Linked
<1>6. f \in States(d, o)
  BY <1>2, <1>3, <1>4, <1>5, WithLines
<1>7. f.lines = L /\ f.suborders = e.suborders /\ f.orders = e.orders /\ f.unpriced = e.unpriced
  BY <1>1, <1>3 DEF Databases
<1> QED BY <1>4, <1>6, <1>7 DEF f, Drops

\* Invoices are made and edited.
LEMMA Invoiced ==
    ASSUME NEW d, Whole(d), NEW J, IsFiniteSet(DOMAIN J), DOMAIN J \subseteq Nat,
           DOMAIN d.invoices \subseteq DOMAIN J
    PROVE  LET e == [d EXCEPT !.invoices = J]
           IN  Whole(e) /\ e.orders = d.orders /\ e.invoices = J
<1> DEFINE e == [d EXCEPT !.invoices = J]
<1>1. /\ d \in Databases(d.invoices, d.requests) /\ Finite(d) /\ Linked(d)
  BY DEF Whole, WholeBut, Sound
<1>2. /\ e \in Databases(e.invoices, e.requests) /\ e.lines = d.lines /\ e.orders = d.orders
      /\ e.suborders = d.suborders /\ e.invoices = J /\ e.subcustomers = d.subcustomers
      /\ e.unpriced = d.unpriced
  BY <1>1 DEF Databases
<1> HIDE DEF e
<1>3. Sound(e)
  BY <1>1, <1>2 DEF Sound, Finite, Linked
<1>4. ASSUME NEW x \in DOMAIN e.orders \ e.unpriced PROVE AddsUp(e, x)
  <2>1. AddsUp(d, x)
    BY <1>2, <1>4 DEF Whole, WholeBut
  <2> QED BY <1>2, <2>1, SameContents, GoesOnAdding
<1> QED BY <1>2, <1>3, <1>4 DEF Whole, WholeBut, Rated, e

-----------------------------------------------------------------------------
(* The requests keep the database whole.                                     *)

\* What is sent has the types the lemmas on contents ask for.
LEMMA PayloadIs ==
    ASSUME NEW suborders \in Payloads
    PROVE  suborders \in Seq(SuborderData)
  BY OrderAssumption

\* An order is placed,
LEMMA CreatedIsWhole ==
    ASSUME NEW d, Whole(d), NEW o \in Int \ DOMAIN d.orders, NEW method \in Methods,
           NEW status \in OrderStatuses, NEW suborders \in Payloads,
           HasRate(Created(d, o, method, status, suborders), o)
    PROVE  /\ Whole(Created(d, o, method, status, suborders))
           /\ DOMAIN Created(d, o, method, status, suborders).orders = DOMAIN d.orders \cup {o}
<1> DEFINE a == AddOrder(d, o, NewOrder(d, method, status))  b == add_suborders(a, o, suborders)
           c == update_total(b, o, ServiceFee)
<1>1. HasRate(c, o)
  BY DEF Created
<1>2. NewOrder(d, method, status) \in Row /\ NewOrder(d, method, status).invoice = None
  BY NewOrderIs DEF Whole, WholeBut
<1>3. WholeBut(a, {o}) /\ DOMAIN a.orders = DOMAIN d.orders \cup {o}
  BY <1>2, OrderAdded DEF HasNew
<1> HIDE DEF a
<1>4. b \in States(a, o)
  BY <1>3, PayloadIs, SubordersAdded DEF WholeBut
<1> HIDE DEF b
<1>5. WholeBut(b, {o}) /\ DOMAIN b.orders = DOMAIN d.orders \cup {o}
  <2>1. WholeBut(b, {o} \cup {o})
    BY <1>3, <1>4, WholeElsewhere
  <2> QED BY <1>3, <1>4, <2>1 DEF States
<1>6. Whole(c) /\ Totalled(b, c, o, ServiceFee)
  BY <1>1, <1>5, WholeTotalled
<1> HIDE DEF c
<1>7. DOMAIN c.orders = DOMAIN d.orders \cup {o}
  BY <1>5, <1>6 DEF Totalled
<1> QED BY <1>6, <1>7 DEF Created, a, b, c

\* and stored,
LEMMA PlaceIsWhole ==
    ASSUME NEW d, Whole(d), NEW o \in Int \ DOMAIN d.orders, NEW method \in Methods,
           NEW status \in OrderStatuses, NEW suborders \in Payloads,
           Place(d, o, method, status, suborders)
    PROVE  Whole(db') /\ DOMAIN db'.orders = DOMAIN d.orders \cup {o}
<1> DEFINE e == Created(d, o, method, status, suborders)
<1>1. Commit(e) /\ HasRate(e, o)
  BY DEF Place, SaveNew, Save
<1>2. Whole(e) /\ DOMAIN e.orders = DOMAIN d.orders \cup {o}
  BY <1>1, CreatedIsWhole
<1> HIDE DEF e
<1>3. Whole(db') /\ db'.orders = e.orders
  BY <1>1, <1>2, Committed
<1> QED BY <1>2, <1>3

\* as a new order or a draft,
LEMMA CreatesAreWhole ==
    ASSUME Whole(db), NEW method \in Methods, NEW suborders \in Payloads,
           user_create_order(method, suborders) \/ CreateDraft(method, suborders)
    PROVE  Whole(db') /\ DOMAIN db.orders \subseteq DOMAIN db'.orders
<1>1. "pending" \in OrderStatuses /\ "draft" \in OrderStatuses
  BY DEF OrderStatuses
<1>2. Sound(db)
  BY DEF Whole, WholeBut
<1>3. CASE user_create_order(method, suborders)
  BY <1>1, <1>2, <1>3, NewIdIs, PlaceIsWhole DEF user_create_order
<1>4. CASE CreateDraft(method, suborders)
  BY <1>1, <1>2, <1>4, DraftIdIs, PlaceIsWhole DEF CreateDraft
<1> QED BY <1>3, <1>4

\* or in place of a draft.
LEMMA PlaceDraftIsWhole ==
    ASSUME Whole(db), NEW o \in DOMAIN db.orders, NEW method \in Methods,
           NEW suborders \in Payloads, PlaceDraft(o, method, suborders)
    PROVE  /\ Whole(db') /\ db.orders[o].status = "draft"
           /\ DOMAIN db.orders \ DOMAIN db'.orders \subseteq {o}
<1> DEFINE d == DeleteOrder(db, o)
<1>1. Whole(d) /\ DOMAIN d.orders = DOMAIN db.orders \ {o}
  BY OrderDeleted
<1>2. db.orders[o].status = "draft" /\ Place(d, get_new_id(d), method, "pending", suborders)
  BY DEF PlaceDraft
<1> HIDE DEF d
<1>3. "pending" \in OrderStatuses
  BY DEF OrderStatuses
<1>4. get_new_id(d) \in Int \ DOMAIN d.orders
  BY <1>1, NewIdIs DEF Whole, WholeBut
<1>5. Whole(db') /\ DOMAIN db'.orders = DOMAIN d.orders \cup {get_new_id(d)}
  BY <1>1, <1>2, <1>3, <1>4, PlaceIsWhole
<1> QED BY <1>1, <1>2, <1>5

\* edited by its owner,
LEMMA SaveIsWhole ==
    ASSUME Whole(db), NEW o \in DOMAIN db.orders, NEW method \in Methods,
           NEW suborders \in Payloads, user_save_order(o, method, suborders)
    PROVE  Whole(db') /\ DOMAIN db'.orders = DOMAIN db.orders
<1> DEFINE r == [db.orders[o] EXCEPT !.shipping = method]
           a == [db EXCEPT !.orders[o].shipping = method]  b == Updated(a, o, suborders)
           c == update_total(b, o, ServiceFee)
<1>1. /\ Sound(db) /\ Linked(db) /\ db \in Databases(db.invoices, db.requests)
      /\ db.orders \in Tables(OrderIds, Row)
  BY DEF Whole, WholeBut, Sound, Databases
<1>2. db.orders[o] \in Row
  BY <1>1, TableIs
<1>3. r \in Row /\ r.invoice = db.orders[o].invoice
  BY <1>2 DEF Row
<1>4. a = [db EXCEPT !.orders[o] = r]
  BY <1>1 DEF Databases
<1>5. Commit(c) /\ HasRate(c, o)
  BY DEF user_save_order, Save
<1> HIDE DEF a, b, c, r
<1>6. a \in States(db, o)
  BY <1>1, <1>3, <1>4, StatesBegin, WithOrder DEF Linked
<1>7. WholeBut(a, {o}) /\ DOMAIN a.orders = DOMAIN db.orders
  <2>1. WholeBut(db, {})
    BY DEF Whole
  <2>2. WholeBut(a, {} \cup {o})
    BY <1>6, <2>1, WholeElsewhere
  <2> QED BY <1>6, <2>2 DEF States
<1>8. b \in States(a, o)
  BY <1>7, PayloadIs, OrderUpdated DEF WholeBut, b
<1>9. WholeBut(b, {o}) /\ DOMAIN b.orders = DOMAIN db.orders
  <2>1. WholeBut(b, {o} \cup {o})
    BY <1>7, <1>8, WholeElsewhere
  <2> QED BY <1>7, <1>8, <2>1 DEF States
<1>10. Whole(c) /\ Totalled(b, c, o, ServiceFee)
  BY <1>5, <1>9, WholeTotalled DEF c
<1>11. Whole(db') /\ db'.orders = c.orders
  BY <1>5, <1>10, Committed
<1> QED BY <1>9, <1>10, <1>11 DEF Totalled

\* deleted,
LEMMA DeleteIsWhole ==
    ASSUME Whole(db), NEW o \in DOMAIN db.orders, admin_delete_order(o) \/ user_delete_order(o)
    PROVE  /\ Whole(db') /\ DOMAIN db'.orders = DOMAIN db.orders \ {o}
           /\ db.orders[o].invoice = None \/ db.orders[o].status = "draft"
<1> DEFINE d == DeleteOrder(db, o)
<1>1. Whole(d) /\ DOMAIN d.orders = DOMAIN db.orders \ {o}
  BY OrderDeleted
<1>2. Commit(d) /\ (db.orders[o].invoice = None \/ db.orders[o].status = "draft")
  BY DEF admin_delete_order, user_delete_order
<1> HIDE DEF d
<1> QED BY <1>1, <1>2, Committed

\* and edited by an administrator.
LEMMA AdminSaveIsWhole ==
    ASSUME Whole(db), NEW o \in DOMAIN db.orders, admin_save_order(o)
    PROVE  Whole(db') /\ DOMAIN db'.orders = DOMAIN db.orders
<1>1. /\ Sound(db) /\ Linked(db) /\ db \in Databases(db.invoices, db.requests)
      /\ db.orders \in Tables(OrderIds, Row)
  BY DEF Whole, WholeBut, Sound, Databases
<1>2. db.orders[o] \in Row
  BY <1>1, TableIs
<1>3. ASSUME NEW boxes \in Boxes, Commit([db EXCEPT !.orders[o].boxes = boxes])
      PROVE  Whole(db') /\ DOMAIN db'.orders = DOMAIN db.orders
  <2> DEFINE r == [db.orders[o] EXCEPT !.boxes = boxes]  d == [db EXCEPT !.orders[o] = r]
  <2>1. /\ r \in Row /\ r.invoice = db.orders[o].invoice /\ r.subtotal = db.orders[o].subtotal
        /\ r.cost = db.orders[o].cost /\ r.total = db.orders[o].total
    BY <1>2 DEF Row
  <2>2. Commit(d) /\ DOMAIN d.orders = DOMAIN db.orders
    BY <1>1, <1>3 DEF Databases
  <2> HIDE DEF r
  <2>3. Whole(d)
    BY <2>1, RowEdited
  <2> HIDE DEF d
  <2> QED BY <2>2, <2>3, Committed
<1>4. ASSUME NEW status \in AdminStatuses, Commit([db EXCEPT !.orders[o].status = status])
      PROVE  Whole(db') /\ DOMAIN db'.orders = DOMAIN db.orders
  <2> DEFINE r == [db.orders[o] EXCEPT !.status = status]  d == [db EXCEPT !.orders[o] = r]
  <2>1. /\ r \in Row /\ r.invoice = db.orders[o].invoice /\ r.subtotal = db.orders[o].subtotal
        /\ r.cost = db.orders[o].cost /\ r.total = db.orders[o].total
    BY <1>2, OrderAssumption DEF Row
  <2>2. Commit(d) /\ DOMAIN d.orders = DOMAIN db.orders
    BY <1>1, <1>4 DEF Databases
  <2> HIDE DEF r
  <2>3. Whole(d)
    BY <2>1, RowEdited
  <2> HIDE DEF d
  <2> QED BY <2>2, <2>3, Committed
<1>5. ASSUME NEW weight \in ManualWeights,
             LET d == update_total([db EXCEPT !.orders[o].total_weight = weight,
                                              !.orders[o].manual = TRUE], o, 0)
             IN  Save(d, o)
      PROVE  Whole(db') /\ DOMAIN db'.orders = DOMAIN db.orders
  <2> DEFINE r == [db.orders[o] EXCEPT !.total_weight = weight, !.manual = TRUE]
             a == [db EXCEPT !.orders[o].total_weight = weight, !.orders[o].manual = TRUE]
             c == update_total(a, o, 0)
  <2>1. r \in Row /\ r.invoice = db.orders[o].invoice
    BY <1>2, OrderAssumption DEF Row
  <2>2. a = [db EXCEPT !.orders[o] = r]
    BY <1>1 DEF Databases
  <2>3. Commit(c) /\ HasRate(c, o)
    BY <1>5 DEF Save
  <2> HIDE DEF r, a, c
  <2>4. a \in States(db, o)
    BY <1>1, <2>1, <2>2, StatesBegin, WithOrder DEF Linked
  <2>5. WholeBut(a, {o}) /\ DOMAIN a.orders = DOMAIN db.orders
    <3>1. WholeBut(db, {})
      BY DEF Whole
    <3>2. WholeBut(a, {} \cup {o})
      BY <2>4, <3>1, WholeElsewhere
    <3> QED BY <2>4, <3>2 DEF States
  <2>6. Whole(c) /\ Totalled(a, c, o, 0)
    BY <2>3, <2>5, WholeTotalled DEF c
  <2>7. Whole(db') /\ db'.orders = c.orders
    BY <2>3, <2>6, Committed
  <2> QED BY <2>5, <2>6, <2>7 DEF Totalled
<1> QED BY <1>3, <1>4, <1>5 DEF admin_save_order

\* Products are deleted, edited,
LEMMA ProductDeleteIsWhole ==
    ASSUME Whole(db), NEW l \in DOMAIN db.lines, user_delete_order_product(l)
    PROVE  Whole(db') /\ DOMAIN db'.orders = DOMAIN db.orders
<1> DEFINE o == OrderOf(l)  a == DeleteLines(db, {l})  c == update_total(a, o, 0)
<1>1. o = db.lines[l].suborder[1] /\ o \in DOMAIN db.orders /\ Sound(db)
  BY DEF OrderOf, Whole, WholeBut, Sound, Linked
<1>2. Commit(c) /\ HasRate(c, o)
  BY DEF user_delete_order_product, Save
<1> HIDE DEF o
<1>3. a \in States(db, o)
  BY <1>1, StatesBegin, LineDeleted
<1> HIDE DEF a
<1>4. WholeBut(a, {o}) /\ DOMAIN a.orders = DOMAIN db.orders
  <2>1. WholeBut(db, {})
    BY DEF Whole
  <2>2. WholeBut(a, {} \cup {o})
    BY <1>3, <2>1, WholeElsewhere
  <2> QED BY <1>3, <2>2 DEF States
<1>5. Whole(c) /\ Totalled(a, c, o, 0)
  BY <1>1, <1>2, <1>4, WholeTotalled
<1> HIDE DEF c
<1>6. Whole(db') /\ db'.orders = c.orders
  BY <1>2, <1>5, Committed
<1> QED BY <1>4, <1>5, <1>6 DEF Totalled

\* have another status,
LEMMA StatusIsWhole ==
    ASSUME Whole(db), NEW l \in DOMAIN db.lines, NEW status \in LineStatuses
    PROVE  LET e == WithStatus(l, status)
           IN  Whole(e) /\ DOMAIN e.orders = DOMAIN db.orders /\ OrderOf(l) \in DOMAIN db.orders
<1> DEFINE o == OrderOf(l)  row == [db.lines[l] EXCEPT !.status = status]
           a == [db EXCEPT !.lines[l] = row]  e == WithStatus(l, status)
<1>1. /\ db \in Databases(db.invoices, db.requests) /\ db.lines \in Tables(LineIds, Line)
      /\ o = db.lines[l].suborder[1]
  BY DEF OrderOf, Whole, WholeBut, Sound, Databases
<1>2. db.lines[l] \in Line
  BY <1>1, TableIs
<1>3. row \in Line /\ row.suborder = db.lines[l].suborder
  BY <1>2, OrderAssumption DEF Line
<1>4. e = [a EXCEPT !.unpriced = @ \cup {o}]
  BY <1>1 DEF WithStatus, Databases
<1> HIDE DEF row, o
<1>5. WholeBut(a, {o}) /\ o \in DOMAIN db.orders /\ a.orders = db.orders
  BY <1>1, <1>3, LineEdited
<1> HIDE DEF a, e
<1>6. Whole(e) /\ e.orders = a.orders
  <2>1. Rated(a, o)
    BY <1>5 DEF Whole, WholeBut, Rated
  <2> QED BY <1>4, <1>5, <2>1, LeftBehind
<1> QED BY <1>5, <1>6 DEF o, e

Edited(d, o) ==
    Save(update_total(d, o, 0), o)

\* Edited as an administrator edits it, a product leaves the database whole.
LEMMA ProductSaveIsWhole ==
    ASSUME Whole(db), NEW l \in DOMAIN db.lines, admin_save_order_product(l)
    PROVE  Whole(db') /\ DOMAIN db'.orders = DOMAIN db.orders
<1> DEFINE o == OrderOf(l)
<1>1. /\ db \in Databases(db.invoices, db.requests) /\ db.lines \in Tables(LineIds, Line)
      /\ o = db.lines[l].suborder[1]
  BY DEF OrderOf, Whole, WholeBut, Sound, Databases
<1>2. db.lines[l] \in Line
  BY <1>1, TableIs
<1>3. ASSUME NEW row \in Line, row.suborder = db.lines[l].suborder,
             Edited([db EXCEPT !.lines[l] = row], o)
      PROVE  Whole(db') /\ DOMAIN db'.orders = DOMAIN db.orders
  <2> DEFINE a == [db EXCEPT !.lines[l] = row]  c == update_total(a, o, 0)
  <2> HIDE DEF o
  <2>1. WholeBut(a, {o}) /\ o \in DOMAIN db.orders /\ a.orders = db.orders
    BY <1>1, <1>3, LineEdited
  <2>2. Commit(c) /\ HasRate(c, o)
    BY <1>3 DEF Edited, Save
  <2> HIDE DEF a
  <2>3. Whole(c) /\ Totalled(a, c, o, 0)
    BY <2>1, <2>2, WholeTotalled
  <2> HIDE DEF c
  <2>4. Whole(db') /\ db'.orders = c.orders
    BY <2>2, <2>3, Committed
  <2> QED BY <2>1, <2>3, <2>4 DEF Totalled
<1>4. ASSUME NEW p \in Products, Edited([db EXCEPT !.lines[l].product = p], o)
      PROVE  Whole(db') /\ DOMAIN db'.orders = DOMAIN db.orders
  <2> DEFINE row == [db.lines[l] EXCEPT !.product = p]
  <2>1. row \in Line /\ row.suborder = db.lines[l].suborder
    BY <1>2 DEF Line
  <2>2. [db EXCEPT !.lines[l].product = p] = [db EXCEPT !.lines[l] = row]
    BY <1>1 DEF Databases
  <2> HIDE DEF row, o
  <2> QED BY <1>3, <1>4, <2>1, <2>2
<1>5. ASSUME NEW p \in Prices, Edited([db EXCEPT !.lines[l].price = p], o)
      PROVE  Whole(db') /\ DOMAIN db'.orders = DOMAIN db.orders
  <2> DEFINE row == [db.lines[l] EXCEPT !.price = p]
  <2>1. row \in Line /\ row.suborder = db.lines[l].suborder
    BY <1>2, OrderAssumption DEF Line
  <2>2. [db EXCEPT !.lines[l].price = p] = [db EXCEPT !.lines[l] = row]
    BY <1>1 DEF Databases
  <2> HIDE DEF row, o
  <2> QED BY <1>3, <1>5, <2>1, <2>2
<1>6. ASSUME NEW n \in Quantities, Edited([db EXCEPT !.lines[l].quantity = n], o)
      PROVE  Whole(db') /\ DOMAIN db'.orders = DOMAIN db.orders
  <2> DEFINE row == [db.lines[l] EXCEPT !.quantity = n]
  <2>1. row \in Line /\ row.suborder = db.lines[l].suborder
    BY <1>2, OrderAssumption DEF Line
  <2>2. [db EXCEPT !.lines[l].quantity = n] = [db EXCEPT !.lines[l] = row]
    BY <1>1 DEF Databases
  <2> HIDE DEF row, o
  <2> QED BY <1>3, <1>6, <2>1, <2>2
<1>7. ASSUME NEW status \in LineStatuses, Commit(WithStatus(l, status))
      PROVE  Whole(db') /\ DOMAIN db'.orders = DOMAIN db.orders
  <2> DEFINE e == WithStatus(l, status)
  <2>1. Whole(e) /\ DOMAIN e.orders = DOMAIN db.orders /\ Commit(e)
    BY <1>7, StatusIsWhole
  <2> HIDE DEF e
  <2> QED BY <2>1, Committed
<1> QED BY <1>4, <1>5, <1>6, <1>7 DEF admin_save_order_product, Edited

\* So it does when it gets a status, with a total that is updated or left behind,
LEMMA ProductStatusIsWhole ==
    ASSUME Whole(db), NEW l \in DOMAIN db.lines, NEW status \in LineStatuses,
           admin_set_order_product_status(l, status)
    PROVE  Whole(db') /\ DOMAIN db'.orders = DOMAIN db.orders
<1> DEFINE o == OrderOf(l)  e == WithStatus(l, status)  c == update_total(e, o, 0)
<1>1. Whole(e) /\ DOMAIN e.orders = DOMAIN db.orders /\ o \in DOMAIN db.orders
  BY StatusIsWhole
<1>2. (Commit(c) /\ HasRate(c, o)) \/ Commit(e)
  BY DEF admin_set_order_product_status, Save
<1> HIDE DEF e, o
<1>4. CASE Commit(c) /\ HasRate(c, o)
  <2>1. WholeBut(e, {o})
    BY <1>1 DEF Whole, WholeBut
  <2>2. Whole(c) /\ Totalled(e, c, o, 0)
    BY <1>1, <1>4, <2>1, WholeTotalled
  <2> HIDE DEF c
  <2> QED BY <1>1, <1>4, <2>2, Committed DEF Totalled
<1>5. CASE Commit(e)
  BY <1>1, <1>5, Committed
<1> QED BY <1>2, <1>4, <1>5

\* and move to the postponed order.  What becomes of the products: one is added to a
\* suborder of the same subcustomer in an order o, and the one that is postponed
\* is deleted.
Moved(d, e, l) ==
    \E id, s, name :
        /\ l \in DOMAIN d.lines /\ id \notin DOMAIN d.lines
        /\ DOMAIN e.lines = (DOMAIN d.lines \cup {id}) \ {l}
        /\ \A x \in DOMAIN d.lines \ {l} : e.lines[x] = d.lines[x]
        /\ \A x \in DOMAIN d.suborders : x \in DOMAIN e.suborders /\ e.suborders[x] = d.suborders[x]
        /\ d.suborders[d.lines[l].suborder] = name
        /\ e.lines[id].suborder = s /\ e.suborders[s] = name
        /\ e.lines[id].product = d.lines[l].product
        /\ e.lines[id].quantity = d.lines[l].quantity

\* The order that products are postponed to is a postponed one, or new.
LEMMA PostponedOrderIs ==
    ASSUME Whole(db)
    PROVE  /\ PostponedOrder(db) \in Int
           /\ PostponedOrder(db) \in DOMAIN db.orders =>
                 db.orders[PostponedOrder(db)].shipping = "postpone"
<1> DEFINE K == DOMAIN db.orders  w == [o \in K |-> db.orders[o].when_created]
<1>1. Sound(db) /\ db.orders \in Tables(OrderIds, Row) /\ IsFiniteSet(K)
  BY DEF Whole, WholeBut, Sound, Databases, Finite
<1>2. K \subseteq Int /\ \A o \in K : w[o] \in Nat
  <2>1. K \subseteq Int /\ \A o \in K : db.orders[o] \in Row
    BY <1>1, TableIs DEF OrderIds
  <2> QED BY <2>1 DEF Row
<1>3. Postponed(db) \in SUBSET K
  BY DEF Postponed
<1>4. CASE Postponed(db) = {}
  BY <1>1, <1>4, NewIdIs DEF PostponedOrder
<1>5. CASE Postponed(db) # {}
  <2> DEFINE Good == {T \in SUBSET K : T = {} \/ \E o \in T : \A x \in T : w[x] <= w[o]}
  <2> HIDE DEF K, w
  <2>1. {} \in Good
    OBVIOUS
  <2>2. ASSUME NEW T \in SUBSET K, T # {}, \A x \in T : T \ {x} \in Good PROVE T \in Good
    <3>1. PICK x : x \in T
      BY <2>2
    <3>2. T \ {x} = {} \/ \E z \in T \ {x} : \A y \in T \ {x} : w[y] <= w[z]
      BY <2>2, <3>1
    <3>3. CASE T \ {x} = {}
      BY <1>2, <3>1, <3>3
    <3>4. CASE \E z \in T \ {x} : \A y \in T \ {x} : w[y] <= w[z]
      <4>1. PICK z \in T \ {x} : \A y \in T \ {x} : w[y] <= w[z]
        BY <3>4
      <4>2. w[x] \in Nat /\ w[z] \in Nat /\ \A y \in T : w[y] \in Nat
        BY <1>2, <3>1, <4>1
      <4>3. CASE w[x] <= w[z]
        BY <4>1, <4>3
      <4>4. CASE ~ (w[x] <= w[z])
        <5>1. \A y \in T : w[y] <= w[x]
          BY <4>1, <4>2, <4>4
        <5> QED BY <3>1, <5>1
      <4> QED BY <4>3, <4>4
    <3> QED BY <3>2, <3>3, <3>4
  <2>3. SUBSET K \subseteq Good
    <3> HIDE DEF Good
    <3> QED BY <1>1, <2>1, <2>2, OneByOne
  <2>4. \E o \in Postponed(db) : \A x \in Postponed(db) : w[x] <= w[o]
    BY <1>3, <1>5, <2>3
  <2>5. PostponedOrder(db) \in Postponed(db)
    BY <1>3, <1>5, <2>4 DEF PostponedOrder, w, K
  <2>6. PostponedOrder(db) \in Int
    BY <1>2, <1>3, <2>5
  <2> QED BY <2>5, <2>6 DEF Postponed
<1> QED BY <1>4, <1>5

\* The suborder of the subcustomer in the postponed order is found or made,
LEMMA SuborderFor ==
    ASSUME NEW d, Sound(d), NEW o \in DOMAIN d.orders, NEW name \in d.subcustomers
    PROVE  LET e == WithSuborderFor(d, o, name)  s == CHOOSE x \in OfSubcustomer(e, o, name) : TRUE
           IN  /\ e \in States(d, o) /\ e.lines = d.lines /\ e.orders = d.orders
               /\ \A x \in DOMAIN d.suborders : x \in DOMAIN e.suborders
                                                /\ e.suborders[x] = d.suborders[x]
               /\ s \in DOMAIN e.suborders /\ s[1] = o /\ e.suborders[s] = name
<1> DEFINE e == WithSuborderFor(d, o, name)  s == CHOOSE x \in OfSubcustomer(e, o, name) : TRUE
<1>1. /\ e \in States(d, o) /\ e.lines = d.lines /\ e.orders = d.orders
      /\ \A x \in DOMAIN d.suborders : x \in DOMAIN e.suborders /\ e.suborders[x] = d.suborders[x]
      /\ OfSubcustomer(e, o, name) # {}
  <2>1. CASE OfSubcustomer(d, o, name) = {}
    <3> DEFINE f == AddSuborder(d, o, name)  t == LastSuborder(f, o)
    <3>1. e = f
      BY <2>1 DEF WithSuborderFor
    <3>2. /\ f \in States(d, o) /\ f.lines = d.lines /\ f.orders = d.orders
          /\ t[1] = o /\ t \in DOMAIN f.suborders /\ f.suborders[t] = name
          /\ DOMAIN f.suborders = DOMAIN d.suborders \cup {t}
          /\ \A x \in DOMAIN d.suborders : f.suborders[x] = d.suborders[x]
      BY StatesBegin, SuborderAdded
    <3> HIDE DEF e, f, t
    <3>3. t \in OfSubcustomer(f, o, name)
      BY <3>2 DEF OfSubcustomer, SubordersOf
    <3> QED BY <3>1, <3>2, <3>3
  <2>2. CASE OfSubcustomer(d, o, name) # {}
    BY <2>2, StatesBegin DEF WithSuborderFor
  <2> QED BY <2>1, <2>2
<1> HIDE DEF e
<1>2. s \in OfSubcustomer(e, o, name)
  BY <1>1
<1>3. s \in DOMAIN e.suborders /\ s[1] = o /\ e.suborders[s] = name
  BY <1>2 DEF OfSubcustomer, SubordersOf
<1> QED BY <1>1, <1>3 DEF e

\* and the product moves there.
LEMMA PostponeIsWhole ==
    ASSUME Whole(db), NEW l \in DOMAIN db.lines, postpone_order_product(l)
    PROVE  /\ Whole(db') /\ DOMAIN db.orders \subseteq DOMAIN db'.orders /\ Moved(db, db', l)
           /\ Sound(db)
<1> DEFINE line == db.lines[l]
           name == db.suborders[line.suborder]
           o == PostponedOrder(db)
           d == IF o \in DOMAIN db.orders THEN db
                ELSE AddOrder(db, o, NewOrder(db, "postpone", "pending"))
           e == WithSuborderFor(d, o, name)
           s == CHOOSE x \in OfSubcustomer(e, o, name) : TRUE
           a == AddLine(e, s, line.product, line.price, line.quantity)
           f == update_total(a, o, 0)
           b == DeleteLines(f, {l})
           g == IF o = OrderOf(l) THEN [b EXCEPT !.unpriced = @ \cup {o}]
                ELSE update_total(b, OrderOf(l), 0)
<1>1. Commit(g) /\ HasRate(g, OrderOf(l))
  BY DEF postpone_order_product, Save
<1>2. /\ Sound(db) /\ Linked(db) /\ db.lines \in Tables(LineIds, Line)
      /\ OrderOf(l) = line.suborder[1] /\ OrderOf(l) \in DOMAIN db.orders
      /\ name \in db.subcustomers
  BY DEF Whole, WholeBut, Sound, Linked, Databases, OrderOf
<1>3. line \in Line
  BY <1>2, TableIs
<1>4. o \in Int /\ (o \in DOMAIN db.orders => db.orders[o].shipping = "postpone")
  BY PostponedOrderIs
<1> DEFINE z == OrderOf(l)
<1>5. /\ OrderOf(l) = z /\ line.product \in Products /\ line.price \in Nat /\ line.quantity \in Nat
  BY <1>3 DEF Line
<1> HIDE DEF o, name, z
<1>6. /\ WholeBut(d, {o}) /\ o \in DOMAIN d.orders /\ DOMAIN db.orders \subseteq DOMAIN d.orders
      /\ d.lines = db.lines /\ d.suborders = db.suborders /\ d.subcustomers = db.subcustomers
      /\ d.orders[o].shipping = "postpone"
  <2>1. CASE o \in DOMAIN db.orders
    BY <1>4, <2>1 DEF Whole, WholeBut
  <2>2. CASE o \notin DOMAIN db.orders
    <3>1. "postpone" \in Methods /\ "pending" \in OrderStatuses
      BY OrderAssumption DEF OrderStatuses
    <3>2. /\ NewOrder(db, "postpone", "pending") \in Row
          /\ NewOrder(db, "postpone", "pending").invoice = None
      BY <1>2, <3>1, NewOrderIs
    <3> DEFINE r == NewOrder(db, "postpone", "pending")  c == AddOrder(db, o, r)
    <3>3. d = c
      BY <2>2
    <3> HIDE DEF d, r
    <3>4. /\ o \in Int \ DOMAIN db.orders /\ r \in Row /\ r.invoice = None
          /\ r.shipping = "postpone"
      BY <1>4, <2>2, <3>2 DEF r, NewOrder
    <3>5. HasNew(db, c, o, r)
      BY <3>4, OrderAdded
    <3> HIDE DEF c
    <3> QED BY <3>3, <3>4, <3>5 DEF HasNew
  <2> QED BY <2>1, <2>2
<1> HIDE DEF d
<1>7. /\ e \in States(d, o) /\ e.lines = db.lines /\ e.orders = d.orders
      /\ \A x \in DOMAIN db.suborders : x \in DOMAIN e.suborders /\ e.suborders[x] = db.suborders[x]
      /\ s \in DOMAIN e.suborders /\ s[1] = o /\ e.suborders[s] = name
  <2>1. Sound(d) /\ name \in d.subcustomers
    BY <1>2, <1>6 DEF WholeBut
  <2> HIDE DEF line
  <2> QED BY <1>6, <2>1, SuborderFor
<1> HIDE DEF e, s
<1>8. a \in States(d, o) /\ Adds(e, a, s, line.product, line.price, line.quantity)
  <2> HIDE DEF line
  <2> QED BY <1>5, <1>7, LineAdded
<1> HIDE DEF a
<1>9. /\ WholeBut(a, {o}) /\ DOMAIN a.orders = DOMAIN d.orders
      /\ a.orders[o].shipping \in NoShipping
  <2>1. WholeBut(a, {o} \cup {o})
    BY <1>6, <1>8, WholeElsewhere
  <2>2. a.orders = d.orders
    BY <1>7, <1>8 DEF Adds
  <2> QED BY <1>6, <1>8, <2>1, <2>2 DEF States, NoShipping
<1>10. Whole(f) /\ Totalled(a, f, o, 0)
  BY <1>6, <1>9, WholeTotalled
<1> HIDE DEF f
<1>11. f.lines = a.lines /\ f.suborders = e.suborders /\ DOMAIN f.orders = DOMAIN d.orders
  BY <1>8, <1>9, <1>10 DEF Totalled, Adds
<1>12. PICK id : /\ id \notin DOMAIN db.lines /\ DOMAIN f.lines = DOMAIN db.lines \cup {id}
                 /\ \A x \in DOMAIN db.lines : f.lines[x] = db.lines[x]
                 /\ f.lines[id] = [suborder |-> s, product |-> line.product, price |-> line.price,
                                   quantity |-> line.quantity, status |-> "pending"]
  BY <1>7, <1>8, <1>11 DEF Adds
<1>13. l \in DOMAIN f.lines /\ z = f.lines[l].suborder[1] /\ f \in States(f, z)
  BY <1>2, <1>10, <1>12, StatesBegin DEF Whole, WholeBut, z
<1>14. /\ b \in States(f, z) /\ b.suborders = f.suborders /\ b.orders = f.orders
       /\ DOMAIN b.lines = DOMAIN f.lines \ {l} /\ \A x \in DOMAIN b.lines : b.lines[x] = f.lines[x]
  <2>1. b \in States(f, z) /\ Drops(f, b, l)
    BY <1>13, LineDeleted
  <2> QED BY <2>1 DEF Drops
<1> HIDE DEF b
<1>15. WholeBut(b, {z}) /\ z \in DOMAIN b.orders /\ Rated(b, z)
  <2>1. WholeBut(f, {})
    BY <1>10 DEF Whole
  <2>2. WholeBut(b, {} \cup {z})
    BY <1>14, <2>1, WholeElsewhere
  <2>3. z \in DOMAIN f.orders
    BY <1>2, <1>6, <1>11 DEF z
  <2>4. Rated(b, z)
    BY <1>10, <1>14, <2>3 DEF Whole, WholeBut, Rated
  <2> QED BY <1>14, <2>2, <2>3, <2>4
<1>16. /\ Whole(g) /\ DOMAIN g.orders = DOMAIN b.orders /\ g.lines = b.lines
       /\ g.suborders = b.suborders
  <2>1. CASE o = z
    <3>1. g = [b EXCEPT !.unpriced = @ \cup {z}]
      BY <2>1 DEF z
    <3> HIDE DEF g
    <3> QED BY <1>15, <3>1, LeftBehind
  <2>2. CASE o # z
    <3>1. g = update_total(b, z, 0)
      BY <2>2 DEF z
    <3> HIDE DEF g
    <3>2. HasRate(g, z)
      BY <1>1 DEF z
    <3>3. Whole(g) /\ Totalled(b, g, z, 0)
      BY <1>15, <3>1, <3>2, WholeTotalled
    <3> QED BY <3>3 DEF Totalled
  <2> QED BY <2>1, <2>2
<1> HIDE DEF g
<1>17. Whole(db') /\ db'.orders = g.orders /\ db'.lines = g.lines /\ db'.suborders = g.suborders
  BY <1>1, <1>16, Committed
<1>18. DOMAIN db.orders \subseteq DOMAIN db'.orders
  BY <1>6, <1>11, <1>14, <1>16, <1>17
<1>19. Moved(db, db', l)
  <2>1. /\ id # l /\ DOMAIN db'.lines = (DOMAIN db.lines \cup {id}) \ {l}
        /\ \A x \in DOMAIN db.lines \ {l} : db'.lines[x] = db.lines[x]
        /\ \A x \in DOMAIN db.suborders : /\ x \in DOMAIN db'.suborders
                                          /\ db'.suborders[x] = db.suborders[x]
    BY <1>7, <1>11, <1>12, <1>14, <1>16, <1>17
  <2>2. db'.lines[id] = f.lines[id] /\ db'.suborders[s] = name
    BY <1>7, <1>11, <1>12, <1>14, <1>16, <1>17, <2>1
  <2>3. db.suborders[db.lines[l].suborder] = name
    BY DEF name
  <2>4. /\ db'.lines[id].suborder = s /\ db'.lines[id].product = db.lines[l].product
        /\ db'.lines[id].quantity = db.lines[l].quantity
    BY <1>12, <2>2
  <2> QED BY <1>12, <2>1, <2>2, <2>3, <2>4 DEF Moved
<1> QED BY <1>2, <1>17, <1>18, <1>19

\* Subcustomers come and go,
LEMMA SubcustomersAreWhole ==
    ASSUME Whole(db), NEW name \in Subcustomers,
           admin_create_subcustomer(name) \/ admin_delete_subcustomer(name)
    PROVE  Whole(db') /\ db'.orders = db.orders
<1>1. /\ db \in Databases(db.invoices, db.requests) /\ Finite(db) /\ Linked(db)
  BY DEF Whole, WholeBut, Sound
<1>2. ASSUME NEW N \in SUBSET Subcustomers, \A s \in DOMAIN db.suborders : db.suborders[s] \in N,
             Commit([db EXCEPT !.subcustomers = N])
      PROVE  Whole(db') /\ db'.orders = db.orders
  <2> DEFINE e == [db EXCEPT !.subcustomers = N]
  <2>1. /\ e \in Databases(e.invoices, e.requests) /\ e.lines = db.lines /\ e.orders = db.orders
        /\ e.suborders = db.suborders /\ e.invoices = db.invoices /\ e.subcustomers = N
        /\ e.unpriced = db.unpriced
    BY <1>1 DEF Databases
  <2>2. Commit(e)
    BY <1>2
  <2> HIDE DEF e
  <2>3. Sound(e)
    BY <1>1, <1>2, <2>1 DEF Sound, Finite, Linked
  <2>4. ASSUME NEW x \in DOMAIN e.orders \ e.unpriced PROVE AddsUp(e, x)
    <3>1. AddsUp(db, x)
      BY <2>1, <2>4 DEF Whole, WholeBut
    <3> QED BY <2>1, <3>1, SameContents, GoesOnAdding
  <2>5. Whole(e)
    BY <2>1, <2>3, <2>4 DEF Whole, WholeBut, Rated
  <2> QED BY <2>1, <2>2, <2>5, Committed
<1>3. db.subcustomers \in SUBSET Subcustomers
  BY <1>1 DEF Databases
<1>4. CASE admin_create_subcustomer(name)
  <2> DEFINE N == db.subcustomers \cup {name}
  <2>1. N \in SUBSET Subcustomers /\ \A s \in DOMAIN db.suborders : db.suborders[s] \in N
    BY <1>1, <1>3 DEF Linked
  <2>2. Commit([db EXCEPT !.subcustomers = N])
    BY <1>4 DEF admin_create_subcustomer
  <2> HIDE DEF N
  <2> QED BY <1>2, <2>1, <2>2
<1>5. CASE admin_delete_subcustomer(name)
  <2> DEFINE N == db.subcustomers \ {name}
  <2>1. N \in SUBSET Subcustomers /\ \A s \in DOMAIN db.suborders : db.suborders[s] \in N
    BY <1>1, <1>3, <1>5 DEF Linked, admin_delete_subcustomer
  <2>2. Commit([db EXCEPT !.subcustomers = N])
    BY <1>5 DEF admin_delete_subcustomer
  <2> HIDE DEF N
  <2> QED BY <1>2, <2>1, <2>2
<1> QED BY <1>4, <1>5

\* orders are invoiced,
LEMMA InvoiceIsWhole ==
    ASSUME Whole(db), NEW orders \in SUBSET DOMAIN db.orders, create_invoice(orders)
    PROVE  Whole(db') /\ DOMAIN db'.orders = DOMAIN db.orders
<1> DEFINE i == 1 + LastNumber(DOMAIN db.invoices)  J == With(db.invoices, i, ItemsOf(orders))
           O == [o \in DOMAIN db.orders |-> IF o \in orders THEN [db.orders[o] EXCEPT !.invoice = i]
                                            ELSE db.orders[o]]
           a == [db EXCEPT !.invoices = J]  e == [db EXCEPT !.invoices = J, !.orders = O]
<1>1. /\ Sound(db) /\ db \in Databases(db.invoices, db.requests) /\ Finite(db) /\ Linked(db)
      /\ db.orders \in Tables(OrderIds, Row)
  BY DEF Whole, WholeBut, Sound, Databases
<1>2. i \in Nat
  BY <1>1, LastNumberIs DEF Finite
<1>3. Commit(e)
  BY DEF create_invoice
<1> HIDE DEF i
<1>4. DOMAIN J = DOMAIN db.invoices \cup {i}
  BY DEF With
<1>5. IsFiniteSet(DOMAIN J) /\ DOMAIN J \subseteq Nat
  <2>1. IsFiniteSet(DOMAIN db.invoices \cup {i}) /\ DOMAIN db.invoices \subseteq Nat
    BY <1>1, FS_AddElement DEF Finite
  <2> QED BY <1>2, <1>4, <2>1
<1> HIDE DEF J
<1>6. DOMAIN db.orders \subseteq OrderIds /\ \A o \in DOMAIN db.orders : db.orders[o] \in Row
  BY <1>1, TableIs
<1>7. \A o \in DOMAIN db.orders :
         /\ O[o] \in Row /\ O[o].invoice \in {db.orders[o].invoice, i}
         /\ O[o].subtotal = db.orders[o].subtotal /\ O[o].cost = db.orders[o].cost
         /\ O[o].total = db.orders[o].total
  <2> SUFFICES ASSUME NEW o \in DOMAIN db.orders
               PROVE  /\ O[o] \in Row /\ O[o].invoice \in {db.orders[o].invoice, i}
                      /\ O[o].subtotal = db.orders[o].subtotal /\ O[o].cost = db.orders[o].cost
                      /\ O[o].total = db.orders[o].total
    OBVIOUS
  <2>1. PICK r \in Row : r = db.orders[o]
    BY <1>6
  <2>2. [r EXCEPT !.invoice = i] \in Row
    BY <1>2 DEF Row
  <2> DEFINE t == [r EXCEPT !.invoice = i]
  <2>3. t.invoice = i /\ t.subtotal = r.subtotal /\ t.cost = r.cost /\ t.total = r.total
    BY DEF Row
  <2>4. O[o] = IF o \in orders THEN t ELSE r
    BY <2>1
  <2> HIDE DEF t, O
  <2> QED BY <2>1, <2>2, <2>3, <2>4 DEF t
<1>8. DOMAIN O = DOMAIN db.orders
  OBVIOUS
<1> HIDE DEF O
<1>9. O \in Tables(OrderIds, Row)
  <2>1. O \in [DOMAIN O -> Row]
    <3>1. O = [o \in DOMAIN db.orders |-> O[o]]
      BY DEF O
    <3> QED BY <1>7, <1>8, <3>1
  <2> QED BY <1>6, <1>8, <2>1, TableIs
<1>10. /\ e \in Databases(e.invoices, e.requests) /\ e.lines = db.lines /\ e.orders = O
       /\ e.suborders = db.suborders /\ e.invoices = J /\ e.subcustomers = db.subcustomers
       /\ e.unpriced = db.unpriced
  BY <1>1, <1>9 DEF Databases
<1> HIDE DEF e
<1>11. Sound(e)
  BY <1>1, <1>4, <1>5, <1>7, <1>8, <1>10 DEF Sound, Finite, Linked
<1>12. ASSUME NEW x \in DOMAIN e.orders \ e.unpriced PROVE AddsUp(e, x)
  <2>1. AddsUp(db, x)
    BY <1>8, <1>10, <1>12 DEF Whole, WholeBut
  <2>2. Alike(db, e, x)
    BY <1>10, SameContents
  <2>3. /\ e.orders[x].subtotal = db.orders[x].subtotal /\ e.orders[x].cost = db.orders[x].cost
        /\ e.orders[x].total = db.orders[x].total
    BY <1>7, <1>8, <1>10
  <2> QED BY <2>1, <2>2, <2>3, GoesOnAdding
<1>13. Whole(e)
  BY <1>7, <1>8, <1>10, <1>11, <1>12 DEF Whole, WholeBut, Rated
<1> QED BY <1>3, <1>8, <1>10, <1>13, Committed

\* and the items of invoices are edited.
LEMMA ItemIsWhole ==
    ASSUME Whole(db), NEW i \in DOMAIN db.invoices, save_invoice_item(i) \/ delete_invoice_item(i)
    PROVE  Whole(db') /\ db'.orders = db.orders
<1>1. IsFiniteSet(DOMAIN db.invoices) /\ DOMAIN db.invoices \subseteq Nat
  BY DEF Whole, WholeBut, Sound, Finite
<1>2. ASSUME NEW J, DOMAIN J = DOMAIN db.invoices, Commit([db EXCEPT !.invoices = J])
      PROVE  Whole(db') /\ db'.orders = db.orders
  <2> DEFINE e == [db EXCEPT !.invoices = J]
  <2>1. Whole(e) /\ e.orders = db.orders
    BY <1>1, <1>2, Invoiced
  <2>2. Commit(e)
    BY <1>2
  <2> HIDE DEF e
  <2> QED BY <2>1, <2>2, Committed
<1>3. db \in Databases(db.invoices, db.requests)
  BY DEF Whole, WholeBut, Sound
<1>4. ASSUME NEW v, Commit([db EXCEPT !.invoices[i] = v])
      PROVE  Whole(db') /\ db'.orders = db.orders
  <2> DEFINE J == [db.invoices EXCEPT ![i] = v]
  <2>1. DOMAIN J = DOMAIN db.invoices
    OBVIOUS
  <2>2. [db EXCEPT !.invoices[i] = v] = [db EXCEPT !.invoices = J]
    OBVIOUS
  <2> HIDE DEF J
  <2> QED BY <1>2, <1>4, <2>1, <2>2
<1>5. ASSUME NEW k, NEW n, Commit([db EXCEPT !.invoices[i][k] = n])
      PROVE  Whole(db') /\ db'.orders = db.orders
  <2> DEFINE v == [db.invoices[i] EXCEPT ![k] = n]
  <2>1. [db EXCEPT !.invoices[i][k] = n] = [db EXCEPT !.invoices[i] = v]
    BY <1>3 DEF Databases
  <2> HIDE DEF v
  <2> QED BY <1>4, <1>5, <2>1
<1>6. ASSUME NEW k, NEW n, Commit([db EXCEPT !.invoices[i] = With(@, k, n)])
      PROVE  Whole(db') /\ db'.orders = db.orders
  <2> DEFINE v == With(db.invoices[i], k, n)
  <2>1. [db EXCEPT !.invoices[i] = With(@, k, n)] = [db EXCEPT !.invoices[i] = v]
    BY <1>3 DEF Databases
  <2> HIDE DEF v
  <2> QED BY <1>4, <1>6, <2>1
<1>7. ASSUME NEW k, Commit([db EXCEPT !.invoices[i] = Without(@, {k})])
      PROVE  Whole(db') /\ db'.orders = db.orders
  <2> DEFINE v == Without(db.invoices[i], {k})
  <2>1. [db EXCEPT !.invoices[i] = Without(@, {k})] = [db EXCEPT !.invoices[i] = v]
    BY <1>3 DEF Databases
  <2> HIDE DEF v
  <2> QED BY <1>4, <1>7, <2>1
<1> QED BY <1>5, <1>6, <1>7 DEF save_invoice_item, delete_invoice_item

-----------------------------------------------------------------------------
(* The theorems.                                                             *)

\* Orders go when they are drafts or in no invoice.
Kept == \A o \in DOMAIN db.orders \ DOMAIN db'.orders :
           db.orders[o].invoice # None => db.orders[o].status = "draft"

\* Every request keeps the database whole, and the invoiced orders,
LEMMA StepIsWhole ==
    ASSUME Whole(db), Next
    PROVE  Whole(db') /\ Kept
<1>1. ASSUME NEW method \in Methods, NEW suborders \in Payloads,
             user_create_order(method, suborders) \/ CreateDraft(method, suborders)
      PROVE  Whole(db') /\ Kept
  BY <1>1, CreatesAreWhole DEF Kept
<1>2. ASSUME NEW o \in DOMAIN db.orders, NEW method \in Methods, NEW suborders \in Payloads,
             PlaceDraft(o, method, suborders)
      PROVE  Whole(db') /\ Kept
  BY <1>2, PlaceDraftIsWhole DEF Kept
<1>3. ASSUME NEW o \in DOMAIN db.orders, NEW method \in Methods, NEW suborders \in Payloads,
             user_save_order(o, method, suborders)
      PROVE  Whole(db') /\ Kept
  BY <1>3, SaveIsWhole DEF Kept
<1>4. ASSUME NEW o \in DOMAIN db.orders, admin_delete_order(o) \/ user_delete_order(o)
      PROVE  Whole(db') /\ Kept
  BY <1>4, DeleteIsWhole DEF Kept
<1>5. ASSUME NEW o \in DOMAIN db.orders, admin_save_order(o)
      PROVE  Whole(db') /\ Kept
  BY <1>5, AdminSaveIsWhole DEF Kept
<1>6. ASSUME NEW l \in DOMAIN db.lines, user_delete_order_product(l)
      PROVE  Whole(db') /\ Kept
  BY <1>6, ProductDeleteIsWhole DEF Kept
<1>7. ASSUME NEW l \in DOMAIN db.lines, admin_save_order_product(l)
      PROVE  Whole(db') /\ Kept
  BY <1>7, ProductSaveIsWhole DEF Kept
<1>8. ASSUME NEW l \in DOMAIN db.lines, NEW status \in LineStatuses,
             admin_set_order_product_status(l, status)
      PROVE  Whole(db') /\ Kept
  BY <1>8, ProductStatusIsWhole DEF Kept
<1>9. ASSUME NEW l \in DOMAIN db.lines, postpone_order_product(l)
      PROVE  Whole(db') /\ Kept
  BY <1>9, PostponeIsWhole DEF Kept
<1>10. ASSUME NEW name \in Subcustomers,
              admin_create_subcustomer(name) \/ admin_delete_subcustomer(name)
       PROVE  Whole(db') /\ Kept
  BY <1>10, SubcustomersAreWhole DEF Kept
<1>11. ASSUME NEW orders \in SUBSET DOMAIN db.orders, create_invoice(orders)
       PROVE  Whole(db') /\ Kept
  BY <1>11, InvoiceIsWhole DEF Kept
<1>12. ASSUME NEW i \in DOMAIN db.invoices, save_invoice_item(i) \/ delete_invoice_item(i)
       PROVE  Whole(db') /\ Kept
  BY <1>12, ItemIsWhole DEF Kept
<1> HIDE DEF Kept
<1>13. ASSUME NEW o \in DOMAIN db.orders, OrderRequest(o) PROVE Whole(db') /\ Kept
  BY <1>2, <1>3, <1>4, <1>5, <1>13 DEF OrderRequest
<1>14. ASSUME NEW l \in DOMAIN db.lines, ProductRequest(l) PROVE Whole(db') /\ Kept
  BY <1>6, <1>7, <1>8, <1>9, <1>14 DEF ProductRequest
<1>15. Request
  BY DEF Next
<1> QED BY <1>1, <1>10, <1>11, <1>12, <1>13, <1>14, <1>15 DEF Request

\* and there is nothing wrong with an empty one.
LEMMA StartIsWhole ==
    ASSUME Init
    PROVE  Whole(db)
<1>1. /\ DOMAIN db.orders = {} /\ DOMAIN db.suborders = {} /\ DOMAIN db.lines = {}
      /\ DOMAIN db.invoices = {} /\ db.unpriced = {}
  BY DEF Init
<1>2. /\ db.orders \in Tables(OrderIds, Row) /\ db.suborders \in Tables(SuborderIds, Subcustomers)
      /\ db.lines \in Tables(LineIds, Line)
  <2>1. /\ db.orders \in [DOMAIN db.orders -> Row]
        /\ db.suborders \in [DOMAIN db.suborders -> Subcustomers]
        /\ db.lines \in [DOMAIN db.lines -> Line]
    BY DEF Init
  <2> QED BY <1>1, <2>1, TableIs
<1>3. db \in Databases(db.invoices, db.requests)
  BY <1>2, OrderAssumption DEF Init, Databases
<1>4. Finite(db) /\ Linked(db)
  BY <1>1, FS_EmptySet DEF Finite, Linked
<1> QED BY <1>1, <1>3, <1>4 DEF Whole, WholeBut, Sound

\* The products of a subcustomer stay the same when one of them moves.
LEMMA MovedIsWanted ==
    ASSUME Sound(db), NEW l, Moved(db, db', l), NEW name, NEW p
    PROVE  Wanted(db', name, p) = Wanted(db, name, p)
<1> DEFINE W == WantedLines(db, name, p)  V == WantedLines(db', name, p)
           f == [x \in W |-> db.lines[x].quantity]  g == [x \in V |-> db'.lines[x].quantity]
<1>1. /\ Linked(db) /\ IsFiniteSet(DOMAIN db.lines) /\ db.lines \in Tables(LineIds, Line)
  BY DEF Sound, Finite, Databases
<1>2. PICK id : /\ l \in DOMAIN db.lines /\ id \notin DOMAIN db.lines
                /\ DOMAIN db'.lines = (DOMAIN db.lines \cup {id}) \ {l}
                /\ \A x \in DOMAIN db.lines \ {l} : db'.lines[x] = db.lines[x]
                /\ \A x \in DOMAIN db.suborders : /\ x \in DOMAIN db'.suborders
                                                  /\ db'.suborders[x] = db.suborders[x]
                /\ db'.suborders[db'.lines[id].suborder] = db.suborders[db.lines[l].suborder]
                /\ db'.lines[id].product = db.lines[l].product
                /\ db'.lines[id].quantity = db.lines[l].quantity
  BY DEF Moved
<1>3. \A x \in DOMAIN db.lines \ {l} : x \in V <=> x \in W
  BY <1>1, <1>2 DEF WantedLines, Linked
<1>4. id \in V <=> l \in W
  BY <1>2 DEF WantedLines
<1>5. W \in SUBSET DOMAIN db.lines /\ V \in SUBSET DOMAIN db'.lines
  BY DEF WantedLines
<1>6. \A x \in W : f[x] \in Nat
  <2>1. \A x \in W : db.lines[x] \in Line
    BY <1>1, <1>5, TableIs
  <2> QED BY <2>1 DEF Line
<1>7. /\ \A x \in W : x # l => x \in V /\ g[x] = f[x]
      /\ l \in W => id \in V /\ g[id] = f[l]
  BY <1>2, <1>3, <1>4, <1>5
<1>8. /\ Wanted(db, name, p) = SumFunctionOnSet(f, W)
      /\ Wanted(db', name, p) = SumFunctionOnSet(g, V)
  BY DEF Wanted, SumFunction
<1>9. IsFiniteSet(W)
  BY <1>1, <1>5, FS_Subset
<1> HIDE DEF W, V, f, g
<1>10. CASE l \notin W
  <2>1. V = W
    BY <1>2, <1>3, <1>4, <1>5, <1>10
  <2>2. SumFunctionOnSet(f, W) = SumFunctionOnSet(g, W)
    BY <1>6, <1>7, <1>9, <1>10, SumSame DEF Integral
  <2> QED BY <1>8, <2>1, <2>2
<1>11. CASE l \in W
  <2> DEFINE U == W \ {l}
  <2>1. U = V \ {id} /\ V = U \cup {id} /\ IsFiniteSet(U)
    BY <1>2, <1>3, <1>4, <1>5, <1>9, <1>11, FS_RemoveElement
  <2>2. IsFiniteSet(V) /\ id \in V
    BY <2>1, FS_AddElement
  <2>3. Integral(f, W) /\ Integral(g, V) /\ Integral(f, U)
    <3>1. \A x \in V : g[x] \in Nat
      BY <1>6, <1>7, <1>11, <2>1
    <3> QED BY <1>6, <3>1 DEF Integral
  <2>4. SumFunctionOnSet(f, W) = f[l] + SumFunctionOnSet(f, U)
    BY <1>9, <1>11, <2>3, SumOver
  <2>5. SumFunctionOnSet(g, V) = g[id] + SumFunctionOnSet(g, U)
    BY <2>1, <2>2, <2>3, SumOver
  <2>6. SumFunctionOnSet(f, U) = SumFunctionOnSet(g, U)
    <3>1. \A x \in U : f[x] = g[x]
      BY <1>7
    <3> HIDE DEF U
    <3> QED BY <2>1, <2>3, <3>1, SumSame
  <2> QED BY <1>7, <1>8, <1>11, <2>4, <2>5, <2>6
<1> QED BY <1>10, <1>11

\* The invariant: the database is sound, and orders add up.
THEOREM OrdersAreWhole == Spec => []Whole(db)
<1>1. Init => Whole(db)
  BY StartIsWhole
<1>2. Whole(db) /\ [Next]_db => Whole(db)'
  <2>1. ASSUME Whole(db), Next PROVE Whole(db)'
    BY <2>1, StepIsWhole
  <2>2. ASSUME Whole(db), UNCHANGED db PROVE Whole(db)'
    BY <2>2
  <2> QED BY <2>1, <2>2
<1> QED BY <1>1, <1>2, PTL DEF Spec

\* The rows have their types, and the rows they refer to are there.
THEOREM OrdersAreTyped == Spec => []TypeOK
<1>1. Whole(db) => TypeOK
  <2> SUFFICES ASSUME Whole(db) PROVE TypeOK
    OBVIOUS
  <2>1. /\ Linked(db) /\ db \in Databases(db.invoices, db.requests)
        /\ db.orders \in Tables(OrderIds, Row) /\ db.lines \in Tables(LineIds, Line)
    BY DEF Whole, WholeBut, Sound, Databases
  <2>2. /\ \A o \in DOMAIN db.orders : db.orders[o] \in Row
        /\ \A l \in DOMAIN db.lines : db.lines[l] \in Line
    BY <2>1, TableIs
  <2>3. \A o \in DOMAIN db.orders : Rated(db, o)
    BY DEF Whole, WholeBut
  <2>4. ASSUME NEW o \in DOMAIN db.orders
        PROVE  /\ db.orders[o].status \in OrderStatuses /\ db.orders[o].shipping \in Methods
               /\ db.orders[o].manual \in BOOLEAN /\ db.orders[o].total_weight \in Nat
               /\ db.orders[o].boxes \in Boxes \cup {<<>>}
               /\ {db.orders[o].subtotal, db.orders[o].cost, db.orders[o].total} \subseteq Nat
               /\ db.orders[o].invoice \in DOMAIN db.invoices \cup {None}
    BY <2>1, <2>2, <2>3 DEF Row, Rated, Linked
  <2>5. \A s \in DOMAIN db.suborders : /\ s[1] \in DOMAIN db.orders
                                      /\ db.suborders[s] \in db.subcustomers
    BY <2>1 DEF Linked
  <2>6. \A l \in DOMAIN db.lines :
          /\ db.lines[l].suborder \in DOMAIN db.suborders
          /\ db.lines[l].product \in Products /\ db.lines[l].quantity \in Nat
          /\ db.lines[l].status \in ProductStatuses
    BY <2>1, <2>2 DEF Linked, Line
  <2>7. db.subcustomers \subseteq Subcustomers /\ db.unpriced \subseteq DOMAIN db.orders
    BY <2>1 DEF Linked, Databases
  <2> QED BY <2>4, <2>5, <2>6, <2>7 DEF TypeOK
<1> QED BY <1>1, OrdersAreWhole, PTL

\* The stored subtotal of an order is what its products and their local shipping come
\* to, and the total adds the shipping, however the order has come about.
THEOREM SubtotalsAddUp == Spec => []SubtotalIsSum
<1>1. Whole(db) => SubtotalIsSum
  BY DEF Whole, WholeBut, SubtotalIsSum
<1> QED BY <1>1, OrdersAreWhole, PTL

\* Postponing moves a product and changes for no subcustomer how many of any they wait for.
THEOREM PostponedIsKept == Spec => WantedIsKept
<1>1. ASSUME Whole(db), [Next]_db
      PROVE  [\/ \A name \in Subcustomers, p \in Products :
                    Wanted(db', name, p) = Wanted(db, name, p)
              \/ \A l \in DOMAIN db.lines : ~postpone_order_product(l)]_db
  <2>1. ASSUME NEW l \in DOMAIN db.lines, postpone_order_product(l), NEW name, NEW p
        PROVE  Wanted(db', name, p) = Wanted(db, name, p)
    <3>1. Moved(db, db', l) /\ Sound(db)
      BY <1>1, <2>1, PostponeIsWhole
    <3> QED BY <3>1, MovedIsWanted
  <2> QED BY <2>1
<1> QED BY <1>1, OrdersAreWhole, PTL DEF Spec, WantedIsKept

\* No order in an invoice is ever deleted, but as a draft.
THEOREM InvoicesKeepTheirOrders == Spec => InvoicedIsKept
<1>1. ASSUME Whole(db), [Next]_db
      PROVE  [\A o \in DOMAIN db.orders \ DOMAIN db'.orders :
                 db.orders[o].invoice # None => db.orders[o].status = "draft"]_db
  BY <1>1, StepIsWhole DEF Kept
<1> QED BY <1>1, OrdersAreWhole, PTL DEF Spec, InvoicedIsKept
=============================================================================
