-------------------------- MODULE ScalarLimbProofs --------------------------
(***************************************************************************)
(* The scalar functions on limbs answer the one number below l that the    *)
(* arithmetic means.                                                       *)
(*                                                                         *)
(* Carries leave what a row of limbs weighs, and folds leave it modulo l.  *)
(* What takes the work is that the fixed chains are enough: a bound on the *)
(* limbs follows them through both passes of carries and every fold, until *)
(* the first fold of s12 leaves a number within 2^(n B) of zero, the       *)
(* second one a number in 0 .. l - 1, and the last chain its digits.  The  *)
(* bounds ask for limbs with room; those of the program have it.           *)
(***************************************************************************)
EXTENDS CryptoKernels, KernelLemmas

(***************************************************************************)
(* The scalar functions on limbs of B bits.                                *)
(***************************************************************************)
Radix == 2^B
Half == 2^(B - 1)
Weight(i) == 2^(B * i)
Slots == 0..(2 * n - 1)
Rows == [Slots -> Int]
Upper == SL!h       \* the limbs l folds into

(* The sizes of the limbs and the powers of the radix.                     *)
LEMMA ScalarFacts ==
  /\ n \in Nat /\ n > 0 /\ B \in Nat /\ B > 0 /\ ExtraBits \in Nat /\ ExtraBits > 0
  /\ Upper \in Nat /\ Upper > 0 /\ n = 2 * Upper
  /\ Radix \in Nat /\ Half \in Nat /\ Half > 0 /\ Radix = 2 * Half
  /\ IsFiniteSet(Slots) /\ Slots \subseteq Nat
<1>1. /\ n \in Nat /\ n > 0 /\ n % 2 = 0 /\ B \in Nat /\ B > 0 /\ ExtraBits \in Nat
      /\ ExtraBits > 0
  BY KernelsAssumption DEF SL!ScalarsAssumption
<1>2. Upper \in Nat /\ n = 2 * Upper
  <2>1. Upper = n \div 2
    BY DEF Upper, SL!h
  <2> QED
    BY <1>1, <2>1
<1>3. B - 1 \in Nat /\ (B - 1) + 1 = B
  BY <1>1
<1>4. Half \in Nat /\ Half > 0 /\ Radix = Half + Half
  BY <1>3, PowerPositive, PowerSuccessor DEF Half, Radix
<1>5. IsFiniteSet(Slots) /\ Slots \subseteq Nat
  <2>1. 0 \in Int /\ 2 * n - 1 \in Int
    BY <1>1
  <2> QED
    BY <2>1, FS_Interval DEF Slots
<1> QED
  BY <1>1, <1>2, <1>4, <1>5

(* Weights are positive and multiply. *)
LEMMA WeightIsNatural == \A i \in Nat : Weight(i) \in Nat /\ Weight(i) > 0
<1> TAKE i \in Nat
<1>1. B * i \in Nat
  BY ScalarFacts
<1> QED
  BY <1>1, PowerPositive DEF Weight

(* A limb weighs Radix times the one below it, and weights multiply.        *)
LEMMA WeightFacts ==
  /\ Weight(0) = 1
  /\ \A i \in Nat : Weight(i + 1) = Weight(i) * Radix
  /\ \A i, j \in Nat : Weight(i + j) = Weight(i) * Weight(j)
<1>1. \A i \in Nat : B * i \in Nat
  BY ScalarFacts
<1>2. Weight(0) = 1
  <2>1. B * 0 = 0
    BY ScalarFacts
  <2>2. Weight(0) = 2^(B * 0)
    BY Zenon DEF Weight
  <2>3. Weight(0) = 2^0
    BY <2>1, <2>2, Zenon
  <2> QED
    BY <2>3, SmallPowers, SMT
<1>4. \A i, j \in Nat : Weight(i + j) = Weight(i) * Weight(j)
  <2> TAKE i, j \in Nat
  <2>1. B * (i + j) = B * i + B * j
    BY ScalarFacts
  <2>2. 2^(B * i + B * j) = 2^(B * i) * 2^(B * j)
    BY <1>1, PowerSum
  <2> QED
    BY <2>1, <2>2 DEF Weight
<1>5. Weight(1) = Radix
  <2>1. B * 1 = B
    BY ScalarFacts
  <2> QED
    BY <2>1 DEF Weight, Radix
<1> QED
  BY <1>2, <1>4, <1>5

(* Heavier positions. *)
LEMMA WeightsGrow ==
  \A i, j \in Nat : i <= j => Weight(i) <= Weight(j)
<1> TAKE i, j \in Nat
<1> HAVE i <= j
<1>1. B * i \in Nat /\ B * j \in Nat /\ B * i <= B * j
  <2>1. B \in Nat
    BY ScalarFacts
  <2>2. PICK d \in Nat : j = i + d
    <3>1. j - i \in Nat /\ j = i + (j - i)
      OBVIOUS
    <3> QED
      BY <3>1
  <2>3. B * i \in Nat /\ B * d \in Nat /\ B * (i + d) = B * i + B * d
    BY <2>1
  <2> QED
    BY <2>2, <2>3
<1> QED
  BY <1>1, PowersGrow DEF Weight

(* The sum of the instance is that of the library. *)
LEMMA SumOfScalars ==
  \A f : SL!SumFunction(f) = SumFunctionOnSet(f, DOMAIN f)
BY Zenon DEF SL!SumFunction, SL!SumFunctionOnSet, SumFunctionOnSet, SL!FoldFunctionOnSet,
      FoldFunctionOnSet, SL!MapThenFoldSet, MapThenFoldSet

Weighed(s) == [i \in Slots |-> s[i] * Weight(i)]
Amount(s) == SumFunctionOnSet(Weighed(s), Slots)

(* What a row of limbs stands for is a sum of integers. *)
LEMMA AmountIsSum ==
  ASSUME NEW s \in Rows
  PROVE  /\ \A i \in Slots : Weighed(s)[i] = s[i] * Weight(i) /\ Weighed(s)[i] \in Int
         /\ Amount(s) \in Int
<1>1. \A i \in Slots : s[i] \in Int /\ i \in Nat /\ Weight(i) \in Int
  BY ScalarFacts, WeightIsNatural DEF Rows
<1>2. \A i \in Slots : Weighed(s)[i] = s[i] * Weight(i) /\ Weighed(s)[i] \in Int
  BY <1>1 DEF Weighed
<1> QED
  BY <1>2, ScalarFacts, SumIsInteger DEF Amount

(* Two limbs that change by amounts that cancel leave the sum. *)
LEMMA MovedExact ==
  ASSUME NEW s \in Rows, NEW i \in Slots, i + 1 \in Slots, NEW carry \in Int
  PROVE  /\ SL!Moved(s, i, carry) \in Rows
         /\ SL!Moved(s, i, carry)[i] = s[i] - carry * Radix
         /\ SL!Moved(s, i, carry)[i + 1] = s[i + 1] + carry
         /\ \A j \in Slots : j # i /\ j # i + 1 => SL!Moved(s, i, carry)[j] = s[j]
         /\ Amount(SL!Moved(s, i, carry)) = Amount(s)
<1> DEFINE mid == [s EXCEPT ![i] = s[i] - carry * 2^B]
           res == [mid EXCEPT ![i + 1] = mid[i + 1] + carry]
<1>1. i \in Nat /\ i + 1 # i /\ s[i] \in Int /\ s[i + 1] \in Int /\ 2^B = Radix /\ Radix \in Int
  BY ScalarFacts DEF Rows, Radix
<1>2. SL!Moved(s, i, carry) = res
  BY DEF SL!Moved
<1>3. carry * Radix \in Int
  BY <1>1
<1>4. mid \in Rows /\ mid[i] = s[i] - carry * Radix /\ \A j \in Slots : j # i => mid[j] = s[j]
  BY <1>1, <1>3 DEF Rows
<1> HIDE DEF mid
<1>5. mid[i + 1] = s[i + 1]
  BY <1>1, <1>4
<1>6. res \in Rows /\ res[i] = mid[i] /\ res[i + 1] = s[i + 1] + carry
      /\ \A j \in Slots : j # i + 1 => res[j] = mid[j]
  BY <1>1, <1>4, <1>5 DEF Rows
<1> HIDE DEF res
<1> DEFINE d == carry * Weight(i + 1)
<1>7. /\ Weight(i) \in Int /\ Weight(i + 1) = Weight(i) * Radix /\ Weight(i + 1) \in Int
  BY <1>1, WeightIsNatural, WeightFacts
<1>8. d \in Int /\ d = (carry * Radix) * Weight(i)
  BY <1>1, <1>7
<1> HIDE DEF d
<1>9. Weighed(mid)[i] = Weighed(s)[i] + (0 - d)
  <2>1. (s[i] - carry * Radix) * Weight(i) = s[i] * Weight(i) - (carry * Radix) * Weight(i)
    BY <1>1, <1>3, <1>7
  <2>2. Weighed(mid)[i] = mid[i] * Weight(i) /\ Weighed(s)[i] = s[i] * Weight(i)
        /\ Weighed(s)[i] \in Int
    BY <1>4, AmountIsSum
  <2> QED
    BY <1>4, <1>8, <2>1, <2>2
<1>10. Amount(mid) = Amount(s) + (0 - d)
  <2>1. \A x \in Slots : Weighed(s)[x] \in Int
    BY AmountIsSum
  <2>2. \A x \in Slots \ {i} : Weighed(mid)[x] = Weighed(s)[x]
    BY <1>4 DEF Weighed
  <2>3. 0 - d \in Int
    BY <1>8
  <2> QED
    BY <1>9, <2>1, <2>2, <2>3, ScalarFacts, SumUpdated DEF Amount
<1>11. Weighed(res)[i + 1] = Weighed(mid)[i + 1] + d
  <2>1. (s[i + 1] + carry) * Weight(i + 1) = s[i + 1] * Weight(i + 1) + d
    BY <1>1, <1>7 DEF d
  <2>2. /\ Weighed(res)[i + 1] = res[i + 1] * Weight(i + 1)
        /\ Weighed(mid)[i + 1] = mid[i + 1] * Weight(i + 1)
    BY <1>4, <1>6, AmountIsSum
  <2> QED
    BY <1>5, <1>6, <2>1, <2>2
<1>12. Amount(res) = Amount(mid) + d
  <2>1. \A x \in Slots : Weighed(mid)[x] \in Int
    BY <1>4, AmountIsSum
  <2>2. \A x \in Slots \ {i + 1} : Weighed(res)[x] = Weighed(mid)[x]
    BY <1>6 DEF Weighed
  <2> QED
    BY <1>8, <1>11, <2>1, <2>2, ScalarFacts, SumUpdated, ZenonT(60) DEF Amount
<1>13. Amount(s) \in Int /\ Amount(mid) \in Int
  BY <1>4, AmountIsSum
<1>14. Amount(res) = Amount(s)
  BY <1>8, <1>10, <1>12, <1>13
<1>15. \A j \in Slots : j # i /\ j # i + 1 => res[j] = s[j]
  BY <1>4, <1>6
<1> QED
  BY <1>2, <1>4, <1>6, <1>14, <1>15

FoldTerms == [j \in 0..(Upper - 1) |-> Fold[j] * Weight(j)]
FoldSum == SumFunctionOnSet(FoldTerms, 0..(Upper - 1))

(* l is a power of two less the limbs of Fold. *)
LEMMA OrderFacts ==
  /\ DOMAIN Fold = 0..(Upper - 1)
  /\ \A j \in 0..(Upper - 1) : /\ Fold[j] \in Int /\ 0 - Half <= Fold[j] /\ Fold[j] <= Half
                               /\ FoldTerms[j] = Fold[j] * Weight(j) /\ FoldTerms[j] \in Int
  /\ IsFiniteSet(0..(Upper - 1)) /\ FoldSum \in Int
  /\ SL!l \in Nat /\ SL!l = Weight(n) - FoldSum
  /\ Weight(n) < SL!l /\ SL!l < Weight(n) + Weight(Upper)
<1>1. /\ Fold \in [0..(Upper - 1) -> -(2^(B - 1))..(2^(B - 1))]
      /\ 2^(n * B) < SL!l /\ SL!l < 2^(n * B) + 2^(Upper * B)
  BY KernelsAssumption, Zenon DEF SL!ScalarsAssumption, Upper
<1>2. DOMAIN Fold = 0..(Upper - 1)
  BY <1>1
<1>3. \A j \in 0..(Upper - 1) : Fold[j] \in Int /\ 0 - Half <= Fold[j] /\ Fold[j] <= Half
  <2> TAKE j \in 0..(Upper - 1)
  <2>1. Fold[j] \in -(2^(B - 1))..(2^(B - 1))
    BY <1>1
  <2>2. 2^(B - 1) = Half /\ Half \in Nat
    BY ScalarFacts DEF Half
  <2> QED
    BY <2>1, <2>2
<1>4. \A j \in 0..(Upper - 1) : FoldTerms[j] = Fold[j] * Weight(j) /\ FoldTerms[j] \in Int
  <2> TAKE j \in 0..(Upper - 1)
  <2>1. j \in Nat
    BY ScalarFacts
  <2>2. Weight(j) \in Int /\ Fold[j] \in Int
    BY <1>3, <2>1, WeightIsNatural
  <2> QED
    BY <2>2 DEF FoldTerms
<1>5. IsFiniteSet(0..(Upper - 1))
  <2>1. 0 \in Int /\ Upper - 1 \in Int
    BY ScalarFacts
  <2> QED
    BY <2>1, FS_Interval
<1>6. FoldSum \in Int
  BY <1>4, <1>5, SumIsInteger DEF FoldSum
<1>7. n * B = B * n /\ Upper * B = B * Upper
  BY ScalarFacts
<1>8. 2^(n * B) = Weight(n) /\ 2^(Upper * B) = Weight(Upper)
  BY <1>7, Zenon DEF Weight
<1>9. Weight(n) \in Nat /\ Weight(Upper) \in Nat
  BY ScalarFacts, WeightIsNatural
<1>10. SL!l = Weight(n) - FoldSum
  <2>1. SL!l = 2^(n * B) - SL!SumFunction([j \in 0..(Upper - 1) |-> Fold[j] * 2^(B * j)])
    BY Zenon DEF SL!l, Upper
  <2>2. SL!l = 2^(n * B) - SL!SumFunction(FoldTerms)
    BY <2>1, Zenon DEF FoldTerms, Weight
  <2>3. DOMAIN FoldTerms = 0..(Upper - 1)
    BY DEF FoldTerms
  <2>4. SL!SumFunction(FoldTerms) = FoldSum
    BY <2>3, SumOfScalars, Zenon DEF FoldSum
  <2> QED
    BY <1>8, <2>2, <2>4
<1>11. SL!l \in Int
  BY <1>6, <1>9, <1>10
<1> QED
  BY <1>1, <1>2, <1>3, <1>4, <1>5, <1>6, <1>8, <1>9, <1>10, <1>11

(* A limb that is folded down changes the number by a multiple of l.       *)
LEMMA FoldDownExact ==
  ASSUME NEW s \in Rows, NEW i \in n..(2 * n - 1)
  PROVE  /\ SL!FoldDown(s, i) \in Rows
         /\ SL!FoldDown(s, i)[i] = 0
         /\ \A j \in Slots : j # i =>
              SL!FoldDown(s, i)[j] = IF j - (i - n) \in 0..(Upper - 1)
                                     THEN s[j] + s[i] * Fold[j - (i - n)] ELSE s[j]
         /\ Amount(SL!FoldDown(s, i)) = Amount(s) - (s[i] * Weight(i - n)) * SL!l
<1> DEFINE g == SL!FoldDown(s, i)
           m == i - n
           gain == [x \in Slots |-> IF x = i THEN 0 - s[i] * Weight(i)
                                    ELSE IF x - m \in 0..(Upper - 1) THEN s[i] * FoldTerms[x - m] * Weight(m)
                                    ELSE 0]
           T == m..(m + Upper - 1)
<1>1. /\ i \in Slots /\ i \in Nat /\ m \in Nat /\ n \in Nat /\ i = n + m /\ m < n
      /\ s[i] \in Int /\ DOMAIN s = Slots
  BY ScalarFacts DEF Rows, Slots
<1> HIDE DEF m
<1>2. \A j \in Slots : j - m \in 0..(Upper - 1) => j # i /\ s[i] * Fold[j - m] \in Int
  BY <1>1, ScalarFacts, OrderFacts
<1>3. /\ \A j \in Slots : g[j] = IF j = i THEN 0
                                 ELSE IF j - m \in 0..(Upper - 1) THEN s[j] + s[i] * Fold[j - m]
                                 ELSE s[j]
      /\ DOMAIN g = Slots /\ g = [j \in Slots |-> g[j]]
  BY <1>1, OrderFacts DEF SL!FoldDown, m
<1>4. g \in Rows
  <2>1. \A j \in Slots : g[j] \in Int
    BY <1>2, <1>3 DEF Rows
  <2> QED
    BY <1>3, <2>1 DEF Rows
<1> HIDE DEF g
<1>5. /\ Weight(m) \in Int /\ Weight(i) = Weight(n) * Weight(m) /\ Weight(n) \in Int
      /\ s[i] * Weight(m) \in Int
  <2>1. Weight(m) \in Int /\ Weight(n) \in Int
    BY <1>1, WeightIsNatural
  <2>2. Weight(n + m) = Weight(n) * Weight(m)
    BY <1>1, WeightFacts
  <2> QED
    BY <1>1, <2>1, <2>2
<1>6. \A x \in Slots : gain[x] \in Int
  <2> TAKE x \in Slots
  <2>1. CASE x = i
    BY <1>1, <1>5, <2>1
  <2>2. CASE x # i /\ x - m \in 0..(Upper - 1)
    <3>1. FoldTerms[x - m] \in Int
      BY <2>2, OrderFacts
    <3> QED
      BY <1>1, <1>5, <2>2, <3>1
  <2>3. CASE x # i /\ ~ (x - m \in 0..(Upper - 1))
    BY <2>3
  <2> QED
    BY <2>1, <2>2, <2>3
<1>7. \A x \in Slots : Weighed(g)[x] = Weighed(s)[x] + gain[x]
  <2> TAKE x \in Slots
  <2>1. /\ Weighed(g)[x] = g[x] * Weight(x) /\ Weighed(s)[x] = s[x] * Weight(x)
        /\ Weighed(s)[x] \in Int /\ s[x] \in Int /\ x \in Nat /\ Weight(x) \in Int
    <3>1. /\ Weighed(g)[x] = g[x] * Weight(x) /\ Weighed(s)[x] = s[x] * Weight(x)
          /\ Weighed(s)[x] \in Int
      BY <1>4, AmountIsSum, Zenon
    <3>2. s[x] \in Int /\ x \in Nat
      BY ScalarFacts DEF Rows
    <3>3. Weight(x) \in Int
      BY <3>2, WeightIsNatural
    <3> QED
      BY <3>1, <3>2, <3>3
  <2>2. CASE x = i
    <3>1. gain[x] = 0 - s[i] * Weight(i) /\ g[x] = 0
      BY <1>3, <2>2
    <3> QED
      BY <2>1, <2>2, <3>1
  <2>3. CASE x # i /\ x - m \in 0..(Upper - 1)
    <3>1. PICK j \in 0..(Upper - 1) : j = x - m /\ j \in Nat /\ x = j + m
      BY <1>1, <2>1, <2>3
    <3>2. /\ FoldTerms[j] = Fold[j] * Weight(j) /\ Fold[j] \in Int /\ Weight(j) \in Int
          /\ Weight(x) = Weight(j) * Weight(m)
      <4>1. FoldTerms[j] = Fold[j] * Weight(j) /\ Fold[j] \in Int
        BY OrderFacts
      <4>2. Weight(j) \in Int
        BY <3>1, WeightIsNatural
      <4>3. Weight(j + m) = Weight(j) * Weight(m)
        BY <1>1, <3>1, WeightFacts
      <4> QED
        BY <3>1, <4>1, <4>2, <4>3
    <3>3. gain[x] = s[i] * FoldTerms[j] * Weight(m)
      BY <2>3, <3>1
    <3>4. g[x] = s[x] + s[i] * Fold[j]
      BY <1>3, <2>3, <3>1
    <3>5. (s[x] + s[i] * Fold[j]) * Weight(x) = s[x] * Weight(x) + (s[i] * Fold[j]) * Weight(x)
      BY <1>1, <2>1, <3>2
    <3>6. (s[i] * Fold[j]) * Weight(x) = s[i] * (Fold[j] * Weight(j)) * Weight(m)
      BY <1>1, <1>5, <3>2
    <3> QED
      BY <2>1, <3>2, <3>3, <3>4, <3>5, <3>6
  <2>4. CASE x # i /\ ~ (x - m \in 0..(Upper - 1))
    <3>1. gain[x] = 0 /\ g[x] = s[x]
      BY <1>3, <2>4
    <3> QED
      BY <2>1, <3>1
  <2> QED
    BY <2>2, <2>3, <2>4
<1>8. Amount(g) = Amount(s) + SumFunctionOnSet(gain, Slots)
  <2>1. \A x \in Slots : Weighed(s)[x] \in Int
    BY AmountIsSum
  <2> HIDE DEF gain
  <2> QED
    BY <1>6, <1>7, <2>1, ScalarFacts, SumOfSums DEF Amount
<1>9. SumFunctionOnSet(gain, Slots) = gain[i] + SumFunctionOnSet(gain, Slots \ {i})
  <2>1. IsFiniteSet(Slots) /\ i \in Slots
    BY <1>1, ScalarFacts
  <2> HIDE DEF gain
  <2> QED
    BY <1>6, <2>1, SumSplit, Zenon
<1>10. SumFunctionOnSet(gain, Slots \ {i}) = SumFunctionOnSet(gain, T)
  <2>1. T \in SUBSET (Slots \ {i})
    BY <1>1, ScalarFacts DEF Slots
  <2>2. \A x \in (Slots \ {i}) \ T : gain[x] = 0
    <3> TAKE x \in (Slots \ {i}) \ T
    <3>1. x # i /\ ~ (x - m \in 0..(Upper - 1)) /\ x \in Slots
      BY <1>1, ScalarFacts
    <3> QED
      BY <3>1
  <2>3. IsFiniteSet(Slots \ {i})
    BY ScalarFacts, FS_Subset
  <2> HIDE DEF gain, T
  <2> QED
    BY <1>6, <2>1, <2>2, <2>3, SumOfPart
<1>11. SumFunctionOnSet(gain, T) = (s[i] * Weight(m)) * FoldSum
  <2> DEFINE to == [j \in 0..(Upper - 1) |-> j + m]
             f == [j \in 0..(Upper - 1) |-> gain[to[j]]]
  <2>1. Renumbers(to, 0..(Upper - 1), T)
    <3>1. \A j \in 0..(Upper - 1) : to[j] = j + m /\ to[j] \in T /\ j \in Int
      BY <1>1, ScalarFacts
    <3>2. \A z \in T : \E j \in 0..(Upper - 1) : to[j] = z
      <4> TAKE z \in T
      <4>1. z - m \in 0..(Upper - 1) /\ (z - m) + m = z
        BY <1>1, ScalarFacts
      <4> QED
        BY <3>1, <4>1
    <3> QED
      BY <1>1, <3>1, <3>2 DEF Renumbers
  <2>2. \A z \in T : gain[z] \in Int
    <3>1. T \subseteq Slots
      BY <1>1, ScalarFacts DEF Slots
    <3> HIDE DEF gain, T
    <3> QED
      BY <1>6, <3>1
  <2>3. \A j \in 0..(Upper - 1) : f[j] = (s[i] * Weight(m)) * FoldTerms[j]
    <3> TAKE j \in 0..(Upper - 1)
    <3>1. j + m \in Slots /\ j + m # i /\ (j + m) - m = j
      BY <1>1, ScalarFacts DEF Slots
    <3>2. gain[j + m] = s[i] * FoldTerms[j] * Weight(m)
      BY <3>1
    <3>3. FoldTerms[j] \in Int
      BY OrderFacts
    <3>4. f[j] = gain[j + m]
      OBVIOUS
    <3> HIDE DEF gain, f
    <3> QED
      BY <1>1, <1>5, <3>2, <3>3, <3>4
  <2>4. SumFunctionOnSet(f, 0..(Upper - 1)) = SumFunctionOnSet(gain, T)
    <3>1. \A j \in 0..(Upper - 1) : f[j] = gain[to[j]]
      OBVIOUS
    <3>2. IsFiniteSet(0..(Upper - 1))
      BY OrderFacts
    <3> DEFINE S == 0..(Upper - 1)
    <3> HIDE DEF gain, T, to, f, S
    <3>3. \A j \in S : f[j] = gain[to[j]]
      BY <3>1 DEF S
    <3>4. Renumbers(to, S, T) /\ IsFiniteSet(S)
      BY <2>1, <3>2 DEF S
    <3>5. SumFunctionOnSet(f, S) = SumFunctionOnSet(gain, T)
      BY <2>2, <3>3, <3>4, SumReindexed
    <3> QED
      BY <3>5, Zenon DEF S
  <2>5. SumFunctionOnSet(f, 0..(Upper - 1)) = (s[i] * Weight(m)) * FoldSum
    <3> HIDE DEF f
    <3>1. \A j \in 0..(Upper - 1) : FoldTerms[j] \in Int
      BY OrderFacts
    <3>2. IsFiniteSet(0..(Upper - 1))
      BY OrderFacts
    <3> QED
      BY <1>5, <2>3, <3>1, <3>2, SumScaled DEF FoldSum
  <2> QED
    BY <2>4, <2>5
<1>12. gain[i] = 0 - s[i] * Weight(i)
  BY <1>1
<1> HIDE DEF gain, T
<1>13. Amount(g) = Amount(s) - (s[i] * Weight(m)) * SL!l
  <2>1. SL!l = Weight(n) - FoldSum /\ FoldSum \in Int
    BY OrderFacts
  <2>2. (s[i] * Weight(m)) * (Weight(n) - FoldSum)
          = (s[i] * Weight(m)) * Weight(n) - (s[i] * Weight(m)) * FoldSum
    BY <1>5, <2>1
  <2>3. s[i] * Weight(i) = (s[i] * Weight(m)) * Weight(n)
    BY <1>1, <1>5
  <2>4. Amount(s) \in Int /\ (s[i] * Weight(m)) * FoldSum \in Int /\ (s[i] * Weight(m)) * Weight(n) \in Int
    BY <1>5, <2>1, AmountIsSum
  <2> QED
    BY <1>8, <1>9, <1>10, <1>11, <1>12, <2>1, <2>2, <2>3, <2>4
<1>14. g[i] = 0
  BY <1>1, <1>3
<1>15. \A j \in Slots : j # i => g[j] = IF j - m \in 0..(Upper - 1) THEN s[j] + s[i] * Fold[j - m]
                                        ELSE s[j]
  BY <1>3
<1> QED
  BY <1>4, <1>13, <1>14, <1>15 DEF g, m

(* Max picks the largest element. *)
LEMMA MaxPicksLargest ==
  ASSUME NEW len \in Nat, NEW last, \A T \in SUBSET (1..len) : last[T] = SL!Max(T)
  PROVE  Largest(last, len)
<1>1. ASSUME NEW T \in SUBSET (1..len), T # {}
      PROVE  last[T] \in T /\ \A x \in T : x <= last[T]
  <2>1. \E x \in T : \A y \in T : x >= y
    BY <1>1, LargestIsMax
  <2>2. SL!Max(T) \in T /\ \A y \in T : SL!Max(T) >= y
    BY <2>1 DEF SL!Max
  <2>3. T \subseteq Int
    OBVIOUS
  <2> QED
    BY <2>2, <2>3
<1> QED
  BY <1>1 DEF Largest

(* Limbs visited one after the other. *)
Orders(order, len, S) == DOMAIN order = 1..len /\ \A k \in 1..len : order[k] \in S

Carriers == 0..(2 * n - 2)      \* the limbs that have a next one

(* What a limb carries, to the nearest and down. *)
Nearest(x) == (x + Half) \div Radix
Floor(x) == x \div Radix

(* A carry takes a multiple of the radix out of a limb and adds the        *)
(* multiple to the next.                                                   *)
LEMMA CarriesExact ==
  ASSUME NEW s \in Rows, NEW i \in Carriers
  PROVE  /\ i \in Slots /\ i + 1 \in Slots
         /\ Nearest(s[i]) \in Int /\ Floor(s[i]) \in Int
         /\ SL!CarryRound(s, i) = SL!Moved(s, i, Nearest(s[i]))
         /\ SL!CarryFloor(s, i) = SL!Moved(s, i, Floor(s[i]))
         /\ SL!CarryRound(s, i) \in Rows /\ SL!CarryFloor(s, i) \in Rows
<1>1. i \in Slots /\ i + 1 \in Slots
  BY ScalarFacts DEF Carriers, Slots
<1>2. s[i] \in Int
  BY <1>1 DEF Rows
<1>3. Nearest(s[i]) \in Int /\ Floor(s[i]) \in Int
  <2>1. Radix \in Nat /\ Radix > 0 /\ s[i] + Half \in Int
    BY <1>2, ScalarFacts
  <2> QED
    BY <1>2, <2>1, Division DEF Nearest, Floor
<1>4. /\ SL!CarryRound(s, i) = SL!Moved(s, i, Nearest(s[i]))
      /\ SL!CarryFloor(s, i) = SL!Moved(s, i, Floor(s[i]))
  BY Zenon DEF SL!CarryRound, SL!CarryFloor, Nearest, Floor, Radix, Half
<1>5. /\ SL!Moved(s, i, Nearest(s[i])) \in Rows
      /\ SL!Moved(s, i, Floor(s[i])) \in Rows
  BY <1>1, <1>3, MovedExact
<1> QED
  BY <1>1, <1>3, <1>4, <1>5

RoundsCarry(run, base, order, len) ==
  /\ run \in [0..len -> Rows] /\ run[0] = base
  /\ run[len] = SL!FoldLeft(SL!CarryRound, base, order)
  /\ \A k \in 1..len : run[k] = SL!CarryRound(run[k - 1], order[k])

(* A chain of carries is a run of them. *)
LEMMA CarryRoundRuns ==
  ASSUME NEW base \in Rows, NEW len \in Nat, NEW order, Orders(order, len, Carriers)
  PROVE  \E run : RoundsCarry(run, base, order, len)
<1>1. DOMAIN order = 1..len /\ \A k \in 1..len : order[k] \in Carriers
  BY DEF Orders
<1> DEFINE last == [T \in SUBSET (1..len) |-> SL!Max(T)]
           step == [vk \in Rows \X (1..len) |-> SL!CarryRound(vk[1], order[vk[2]])]
           Folds(it) == it = [T \in SUBSET DOMAIN order |->
                          IF T = {} THEN base
                          ELSE SL!CarryRound(it[T \ {SL!Max(T)}], order[SL!Max(T)])]
<1>2. \A v \in Rows, k \in 1..len :
        step[<< v, k >>] = SL!CarryRound(v, order[k]) /\ step[<< v, k >>] \in Rows
  BY <1>1, CarriesExact
<1>3. \A T \in SUBSET (1..len) : last[T] = SL!Max(T)
  OBVIOUS
<1> HIDE DEF step, last
<1>4. Largest(last, len) /\ Stays(step, Rows, len)
  BY <1>2, <1>3, MaxPicksLargest DEF Stays
<1>5. \A T \in SUBSET (1..len) : T # {} => last[T] \in 1..len /\ last[T] = SL!Max(T)
  BY <1>3, <1>4 DEF Largest
<1>6. PICK it \in [SUBSET (1..len) -> Rows] : Solves(it, 1..len, last, step, base)
  BY <1>4, FoldExists, Zenon
<1>7. Folds(it)
  <2>1. \A T \in SUBSET (1..len) : T # {} =>
          it[T] = SL!CarryRound(it[T \ {SL!Max(T)}], order[SL!Max(T)])
    <3> TAKE T \in SUBSET (1..len)
    <3> HAVE T # {}
    <3>1. it[T] = step[<< it[T \ {last[T]}], last[T] >>] /\ it[T \ {last[T]}] \in Rows
      BY <1>6 DEF Solves
    <3>2. last[T] \in 1..len /\ last[T] = SL!Max(T)
      BY <1>5
    <3>3. it[T] = SL!CarryRound(it[T \ {last[T]}], order[last[T]])
      BY <1>2, <3>1, <3>2
    <3> QED
      BY <3>2, <3>3
  <2>2. it[{}] = base
    BY <1>6 DEF Solves
  <2>3. it = [T \in SUBSET (1..len) |-> it[T]]
    OBVIOUS
  <2>4. [T \in SUBSET (1..len) |-> it[T]]
          = [T \in SUBSET (1..len) |->
               IF T = {} THEN base ELSE SL!CarryRound(it[T \ {SL!Max(T)}], order[SL!Max(T)])]
    BY <2>1, <2>2
  <2> QED
    BY <1>1, <2>3, <2>4, Zenon
<1>8. PICK iter : Folds(iter) /\ SL!FoldLeft(SL!CarryRound, base, order) = iter[DOMAIN order]
  <2>1. SL!FoldLeft(SL!CarryRound, base, order) = (CHOOSE i : Folds(i))[DOMAIN order]
    BY Zenon DEF SL!FoldLeft, SL!MapThenFoldSet
  <2> HIDE DEF Folds
  <2> QED
    BY <1>7, <2>1, Zenon
<1>9. Follows(iter, len, Rows, last, step, base)
  <2>1. \A T \in SUBSET (1..len) : T # {} => iter[T] = SL!CarryRound(iter[T \ {last[T]}], order[last[T]])
    <3> TAKE T \in SUBSET (1..len)
    <3> HAVE T # {}
    <3>1. last[T] \in 1..len /\ last[T] = SL!Max(T)
      BY <1>5
    <3>2. iter[T] = SL!CarryRound(iter[T \ {SL!Max(T)}], order[SL!Max(T)])
      BY <1>1, <1>8
    <3> QED
      BY <3>1, <3>2
  <2>2. iter[{}] = base
    BY <1>8
  <2> QED
    BY <1>2, <1>5, <2>1, <2>2 DEF Follows
<1>10. PICK run : IsRun(run, len, Rows, step, base, iter[1..len])
  BY <1>4, <1>9, FoldRuns, Zenon
<1>11. \A k \in 1..len : run[k] = SL!CarryRound(run[k - 1], order[k])
  <2> TAKE k \in 1..len
  <2>1. run[k - 1] \in Rows
    BY <1>10 DEF IsRun
  <2> QED
    BY <1>2, <1>10, <2>1 DEF IsRun
<1>12. iter[1..len] = SL!FoldLeft(SL!CarryRound, base, order)
  BY <1>1, <1>8, Zenon
<1>13. run \in [0..len -> Rows] /\ run[0] = base /\ run[len] = iter[1..len]
  BY <1>10 DEF IsRun
<1> QED
  BY <1>11, <1>12, <1>13, Zenon DEF RoundsCarry

FloorsCarry(run, base, order, len) ==
  /\ run \in [0..len -> Rows] /\ run[0] = base
  /\ run[len] = SL!FoldLeft(SL!CarryFloor, base, order)
  /\ \A k \in 1..len : run[k] = SL!CarryFloor(run[k - 1], order[k])

(* The same of carries that round down. *)
LEMMA CarryFloorRuns ==
  ASSUME NEW base \in Rows, NEW len \in Nat, NEW order, Orders(order, len, Carriers)
  PROVE  \E run : FloorsCarry(run, base, order, len)
<1>1. DOMAIN order = 1..len /\ \A k \in 1..len : order[k] \in Carriers
  BY DEF Orders
<1> DEFINE last == [T \in SUBSET (1..len) |-> SL!Max(T)]
           step == [vk \in Rows \X (1..len) |-> SL!CarryFloor(vk[1], order[vk[2]])]
           Folds(it) == it = [T \in SUBSET DOMAIN order |->
                          IF T = {} THEN base
                          ELSE SL!CarryFloor(it[T \ {SL!Max(T)}], order[SL!Max(T)])]
<1>2. \A v \in Rows, k \in 1..len :
        step[<< v, k >>] = SL!CarryFloor(v, order[k]) /\ step[<< v, k >>] \in Rows
  BY <1>1, CarriesExact
<1>3. \A T \in SUBSET (1..len) : last[T] = SL!Max(T)
  OBVIOUS
<1> HIDE DEF step, last
<1>4. Largest(last, len) /\ Stays(step, Rows, len)
  BY <1>2, <1>3, MaxPicksLargest DEF Stays
<1>5. \A T \in SUBSET (1..len) : T # {} => last[T] \in 1..len /\ last[T] = SL!Max(T)
  BY <1>3, <1>4 DEF Largest
<1>6. PICK it \in [SUBSET (1..len) -> Rows] : Solves(it, 1..len, last, step, base)
  BY <1>4, FoldExists, Zenon
<1>7. Folds(it)
  <2>1. \A T \in SUBSET (1..len) : T # {} =>
          it[T] = SL!CarryFloor(it[T \ {SL!Max(T)}], order[SL!Max(T)])
    <3> TAKE T \in SUBSET (1..len)
    <3> HAVE T # {}
    <3>1. it[T] = step[<< it[T \ {last[T]}], last[T] >>] /\ it[T \ {last[T]}] \in Rows
      BY <1>6 DEF Solves
    <3>2. last[T] \in 1..len /\ last[T] = SL!Max(T)
      BY <1>5
    <3>3. it[T] = SL!CarryFloor(it[T \ {last[T]}], order[last[T]])
      BY <1>2, <3>1, <3>2
    <3> QED
      BY <3>2, <3>3
  <2>2. it[{}] = base
    BY <1>6 DEF Solves
  <2>3. it = [T \in SUBSET (1..len) |-> it[T]]
    OBVIOUS
  <2>4. [T \in SUBSET (1..len) |-> it[T]]
          = [T \in SUBSET (1..len) |->
               IF T = {} THEN base ELSE SL!CarryFloor(it[T \ {SL!Max(T)}], order[SL!Max(T)])]
    BY <2>1, <2>2
  <2> QED
    BY <1>1, <2>3, <2>4, Zenon
<1>8. PICK iter : Folds(iter) /\ SL!FoldLeft(SL!CarryFloor, base, order) = iter[DOMAIN order]
  <2>1. SL!FoldLeft(SL!CarryFloor, base, order) = (CHOOSE i : Folds(i))[DOMAIN order]
    BY Zenon DEF SL!FoldLeft, SL!MapThenFoldSet
  <2> HIDE DEF Folds
  <2> QED
    BY <1>7, <2>1, Zenon
<1>9. Follows(iter, len, Rows, last, step, base)
  <2>1. \A T \in SUBSET (1..len) : T # {} => iter[T] = SL!CarryFloor(iter[T \ {last[T]}], order[last[T]])
    <3> TAKE T \in SUBSET (1..len)
    <3> HAVE T # {}
    <3>1. last[T] \in 1..len /\ last[T] = SL!Max(T)
      BY <1>5
    <3>2. iter[T] = SL!CarryFloor(iter[T \ {SL!Max(T)}], order[SL!Max(T)])
      BY <1>1, <1>8
    <3> QED
      BY <3>1, <3>2
  <2>2. iter[{}] = base
    BY <1>8
  <2> QED
    BY <1>2, <1>5, <2>1, <2>2 DEF Follows
<1>10. PICK run : IsRun(run, len, Rows, step, base, iter[1..len])
  BY <1>4, <1>9, FoldRuns, Zenon
<1>11. \A k \in 1..len : run[k] = SL!CarryFloor(run[k - 1], order[k])
  <2> TAKE k \in 1..len
  <2>1. run[k - 1] \in Rows
    BY <1>10 DEF IsRun
  <2> QED
    BY <1>2, <1>10, <2>1 DEF IsRun
<1>12. iter[1..len] = SL!FoldLeft(SL!CarryFloor, base, order)
  BY <1>1, <1>8, Zenon
<1>13. run \in [0..len -> Rows] /\ run[0] = base /\ run[len] = iter[1..len]
  BY <1>10 DEF IsRun
<1> QED
  BY <1>11, <1>12, <1>13, Zenon DEF FloorsCarry

FoldsDown(run, base, order, len) ==
  /\ run \in [0..len -> Rows] /\ run[0] = base
  /\ run[len] = SL!FoldLeft(SL!FoldDown, base, order)
  /\ \A k \in 1..len : run[k] = SL!FoldDown(run[k - 1], order[k])

(* The same of limbs folded down. *)
LEMMA FoldDownRuns ==
  ASSUME NEW base \in Rows, NEW len \in Nat, NEW order, Orders(order, len, n..(2 * n - 1))
  PROVE  \E run : FoldsDown(run, base, order, len)
<1>1. DOMAIN order = 1..len /\ \A k \in 1..len : order[k] \in n..(2 * n - 1)
  BY DEF Orders
<1> DEFINE last == [T \in SUBSET (1..len) |-> SL!Max(T)]
           step == [vk \in Rows \X (1..len) |-> SL!FoldDown(vk[1], order[vk[2]])]
           Folds(it) == it = [T \in SUBSET DOMAIN order |->
                          IF T = {} THEN base
                          ELSE SL!FoldDown(it[T \ {SL!Max(T)}], order[SL!Max(T)])]
<1>2. \A v \in Rows, k \in 1..len :
        step[<< v, k >>] = SL!FoldDown(v, order[k]) /\ step[<< v, k >>] \in Rows
  BY <1>1, FoldDownExact
<1>3. \A T \in SUBSET (1..len) : last[T] = SL!Max(T)
  OBVIOUS
<1> HIDE DEF step, last
<1>4. Largest(last, len) /\ Stays(step, Rows, len)
  BY <1>2, <1>3, MaxPicksLargest DEF Stays
<1>5. \A T \in SUBSET (1..len) : T # {} => last[T] \in 1..len /\ last[T] = SL!Max(T)
  BY <1>3, <1>4 DEF Largest
<1>6. PICK it \in [SUBSET (1..len) -> Rows] : Solves(it, 1..len, last, step, base)
  BY <1>4, FoldExists, Zenon
<1>7. Folds(it)
  <2>1. \A T \in SUBSET (1..len) : T # {} =>
          it[T] = SL!FoldDown(it[T \ {SL!Max(T)}], order[SL!Max(T)])
    <3> TAKE T \in SUBSET (1..len)
    <3> HAVE T # {}
    <3>1. it[T] = step[<< it[T \ {last[T]}], last[T] >>] /\ it[T \ {last[T]}] \in Rows
      BY <1>6 DEF Solves
    <3>2. last[T] \in 1..len /\ last[T] = SL!Max(T)
      BY <1>5
    <3>3. it[T] = SL!FoldDown(it[T \ {last[T]}], order[last[T]])
      BY <1>2, <3>1, <3>2
    <3> QED
      BY <3>2, <3>3
  <2>2. it[{}] = base
    BY <1>6 DEF Solves
  <2>3. it = [T \in SUBSET (1..len) |-> it[T]]
    OBVIOUS
  <2>4. [T \in SUBSET (1..len) |-> it[T]]
          = [T \in SUBSET (1..len) |->
               IF T = {} THEN base ELSE SL!FoldDown(it[T \ {SL!Max(T)}], order[SL!Max(T)])]
    BY <2>1, <2>2
  <2> QED
    BY <1>1, <2>3, <2>4, Zenon
<1>8. PICK iter : Folds(iter) /\ SL!FoldLeft(SL!FoldDown, base, order) = iter[DOMAIN order]
  <2>1. SL!FoldLeft(SL!FoldDown, base, order) = (CHOOSE i : Folds(i))[DOMAIN order]
    BY Zenon DEF SL!FoldLeft, SL!MapThenFoldSet
  <2> HIDE DEF Folds
  <2> QED
    BY <1>7, <2>1, Zenon
<1>9. Follows(iter, len, Rows, last, step, base)
  <2>1. \A T \in SUBSET (1..len) : T # {} => iter[T] = SL!FoldDown(iter[T \ {last[T]}], order[last[T]])
    <3> TAKE T \in SUBSET (1..len)
    <3> HAVE T # {}
    <3>1. last[T] \in 1..len /\ last[T] = SL!Max(T)
      BY <1>5
    <3>2. iter[T] = SL!FoldDown(iter[T \ {SL!Max(T)}], order[SL!Max(T)])
      BY <1>1, <1>8
    <3> QED
      BY <3>1, <3>2
  <2>2. iter[{}] = base
    BY <1>8
  <2> QED
    BY <1>2, <1>5, <2>1, <2>2 DEF Follows
<1>10. PICK run : IsRun(run, len, Rows, step, base, iter[1..len])
  BY <1>4, <1>9, FoldRuns, Zenon
<1>11. \A k \in 1..len : run[k] = SL!FoldDown(run[k - 1], order[k])
  <2> TAKE k \in 1..len
  <2>1. run[k - 1] \in Rows
    BY <1>10 DEF IsRun
  <2> QED
    BY <1>2, <1>10, <2>1 DEF IsRun
<1>12. iter[1..len] = SL!FoldLeft(SL!FoldDown, base, order)
  BY <1>1, <1>8, Zenon
<1>13. run \in [0..len -> Rows] /\ run[0] = base /\ run[len] = iter[1..len]
  BY <1>10 DEF IsRun
<1> QED
  BY <1>11, <1>12, <1>13, Zenon DEF FoldsDown

Within(x, bound) == x \in Int /\ 0 - bound <= x /\ x <= bound

(* The nearest multiple leaves a signed limb, and is no more than the      *)
(* limb's bound divided by the radix.                                      *)
LEMMA NearestBound ==
  ASSUME NEW x \in Int
  PROVE  /\ Nearest(x) \in Int /\ Nearest(x) * Radix \in Int
         /\ 0 - Half <= x - Nearest(x) * Radix /\ x - Nearest(x) * Radix < Half
         /\ \A c \in Nat : Within(x, c * Radix) => Within(Nearest(x), c)
<1> DEFINE q == Nearest(x)
<1>1. Radix \in Nat /\ Radix > 0 /\ Half \in Nat /\ Half > 0 /\ Radix = 2 * Half /\ x + Half \in Int
  BY ScalarFacts
<1>2. /\ x + Half = Radix * q + ((x + Half) % Radix) /\ (x + Half) % Radix \in 0..(Radix - 1)
      /\ q \in Int
  BY <1>1, Division DEF Nearest
<1> HIDE DEF q
<1>3. q * Radix = Radix * q /\ q * Radix \in Int
  BY <1>1, <1>2
<1>4. 0 - Half <= x - q * Radix /\ x - q * Radix < Half
  BY <1>1, <1>2, <1>3
<1>5. ASSUME NEW c \in Nat, Within(x, c * Radix) PROVE Within(q, c)
  <2>1. c * Radix \in Int /\ 0 - c * Radix <= x /\ x <= c * Radix
    BY <1>1, <1>5 DEF Within
  <2>2. ~ (q >= c + 1)
    <3> SUFFICES ASSUME q >= c + 1 PROVE FALSE
      OBVIOUS
    <3>1. q * Radix >= (c + 1) * Radix
      BY <1>1, <1>2
    <3>2. (c + 1) * Radix = c * Radix + Radix
      BY <1>1
    <3> QED
      BY <1>1, <1>3, <1>4, <2>1, <3>1, <3>2
  <2>3. ~ (q <= 0 - (c + 1))
    <3> SUFFICES ASSUME q <= 0 - (c + 1) PROVE FALSE
      OBVIOUS
    <3>1. q * Radix <= (0 - (c + 1)) * Radix
      BY <1>1, <1>2
    <3>2. (0 - (c + 1)) * Radix = 0 - (c * Radix + Radix)
      BY <1>1
    <3> QED
      BY <1>1, <1>3, <1>4, <2>1, <3>1, <3>2
  <2> QED
    BY <1>2, <2>2, <2>3 DEF Within
<1> QED
  BY <1>2, <1>3, <1>4, <1>5 DEF q

(* The limbs after carries from a, a + 2, ... : k of them.                 *)
Passed(s, a, k) ==
  [j \in Slots |-> IF j < a \/ j >= a + 2 * k THEN s[j]
                   ELSE IF (j - a) % 2 = 0 THEN s[j] - Nearest(s[j]) * Radix
                   ELSE s[j] + Nearest(s[j - 1])]

(* One carry more. *)
LEMMA PassedStep ==
  ASSUME NEW s \in Rows, NEW a \in Nat, NEW k \in Nat, a + 2 * k \in Carriers,
         Passed(s, a, k) \in Rows
  PROVE  SL!CarryRound(Passed(s, a, k), a + 2 * k) = Passed(s, a, k + 1)
<1> DEFINE r == Passed(s, a, k)
           i == a + 2 * k
           g == SL!CarryRound(r, i)
<1>1. i \in Nat /\ i \in Slots /\ i + 1 \in Slots /\ i - 1 # i
  BY ScalarFacts DEF Carriers, Slots
<1>2. r[i] = s[i] /\ r[i + 1] = s[i + 1] /\ r \in Rows
  BY <1>1 DEF Passed
<1>3. /\ g \in Rows /\ g[i] = s[i] - Nearest(s[i]) * Radix
      /\ g[i + 1] = s[i + 1] + Nearest(s[i])
      /\ \A j \in Slots : j # i /\ j # i + 1 => g[j] = r[j]
  <2>1. g = SL!Moved(r, i, Nearest(r[i])) /\ Nearest(r[i]) \in Int
    BY <1>2, CarriesExact
  <2> DEFINE q == Nearest(r[i])
  <2>2. q = Nearest(s[i]) /\ q \in Int /\ g = SL!Moved(r, i, q)
    BY <1>2, <2>1
  <2> HIDE DEF g, r, i, q
  <2>3. /\ SL!Moved(r, i, q) \in Rows
        /\ SL!Moved(r, i, q)[i] = r[i] - q * Radix
        /\ SL!Moved(r, i, q)[i + 1] = r[i + 1] + q
        /\ \A j \in Slots : j # i /\ j # i + 1 => SL!Moved(r, i, q)[j] = r[j]
    BY <1>1, <1>2, <2>2, MovedExact, ZenonT(60)
  <2> QED
    BY <1>2, <2>2, <2>3
<1>4. \A j \in Slots : g[j] = Passed(s, a, k + 1)[j]
  <2> TAKE j \in Slots
  <2>1. j \in Nat
    BY ScalarFacts
  <2>2. CASE j = i
    <3>1. ~ (j < a \/ j >= a + 2 * (k + 1)) /\ (j - a) % 2 = 0
      BY <2>2
    <3>2. Passed(s, a, k + 1)[j] = s[j] - Nearest(s[j]) * Radix
      BY <3>1 DEF Passed
    <3> HIDE DEF g, i
    <3> QED
      BY <1>3, <2>2, <3>2
  <2>3. CASE j = i + 1
    <3>1. ~ (j < a \/ j >= a + 2 * (k + 1)) /\ (j - a) % 2 # 0 /\ j - 1 = i
      BY <2>3
    <3>2. Passed(s, a, k + 1)[j] = s[j] + Nearest(s[j - 1])
      BY <3>1 DEF Passed
    <3> HIDE DEF g, i
    <3> QED
      BY <1>3, <2>3, <3>1, <3>2
  <2>4. CASE j # i /\ j # i + 1
    <3>1. (j < a \/ j >= a + 2 * k) <=> (j < a \/ j >= a + 2 * (k + 1))
      BY <2>1, <2>4
    <3>2. Passed(s, a, k + 1)[j] = r[j]
      BY <3>1 DEF Passed
    <3> HIDE DEF g, i, r
    <3> QED
      BY <1>3, <2>4, <3>2
  <2> QED
    BY <2>2, <2>3, <2>4
<1>5. DOMAIN Passed(s, a, k + 1) = Slots
      /\ Passed(s, a, k + 1) = [j \in Slots |-> Passed(s, a, k + 1)[j]]
  BY DEF Passed
<1>6. g = [j \in Slots |-> g[j]]
  <2> HIDE DEF g
  <2> QED
    BY <1>3 DEF Rows
<1> HIDE DEF g
<1>7. g = Passed(s, a, k + 1)
  BY <1>4, <1>5, <1>6
<1> QED
  BY <1>7 DEF g, r, i

(* A chain of carries from every other limb.                               *)
EveryOther(order, a, len) ==
  /\ DOMAIN order = 1..len
  /\ \A k \in 1..len : order[k] = a + 2 * (k - 1) /\ order[k] \in Carriers

(* A pass of CarryRound over every other limb is Passed in one go, since the *)
(* carries do not meet, and leaves the amount.                              *)
LEMMA PassIsClosed ==
  ASSUME NEW s \in Rows, NEW a \in Nat, NEW len \in Nat, NEW order, EveryOther(order, a, len)
  PROVE  /\ SL!FoldLeft(SL!CarryRound, s, order) = Passed(s, a, len)
         /\ Passed(s, a, len) \in Rows /\ Amount(Passed(s, a, len)) = Amount(s)
<1>0. \A k \in 1..len : order[k] = a + 2 * (k - 1)
  BY DEF EveryOther
<1>1. Orders(order, len, Carriers) /\ \A k \in 1..len : order[k] \in Carriers
  BY DEF EveryOther, Orders
<1>a. PICK run : RoundsCarry(run, s, order, len)
  BY <1>1, CarryRoundRuns, Zenon
<1>2. /\ run \in [0..len -> Rows] /\ run[0] = s
      /\ run[len] = SL!FoldLeft(SL!CarryRound, s, order)
      /\ \A k \in 1..len : run[k] = SL!CarryRound(run[k - 1], order[k])
  BY <1>a, Zenon DEF RoundsCarry
<1> DEFINE Good(k) == k <= len => run[k] = Passed(s, a, k) /\ Amount(run[k]) = Amount(s)
           G == {k \in Nat : Good(k)}
<1>3. 0 \in G
  <2>1. Passed(s, a, 0) = s
    <3>1. \A j \in Slots : Passed(s, a, 0)[j] = s[j]
      <4> TAKE j \in Slots
      <4>1. j < a \/ j >= a + 2 * 0
        BY ScalarFacts
      <4> QED
        BY <4>1 DEF Passed
    <3>2. DOMAIN Passed(s, a, 0) = Slots /\ Passed(s, a, 0) = [j \in Slots |-> Passed(s, a, 0)[j]]
      BY DEF Passed
    <3>3. s = [j \in Slots |-> s[j]]
      BY DEF Rows
    <3> QED
      BY <3>1, <3>2, <3>3
  <2> QED
    BY <1>2, <2>1
<1>4. ASSUME NEW k \in Nat, k \in G PROVE k + 1 \in G
  <2>1. CASE k + 1 <= len
    <3>1. k + 1 \in 1..len /\ (k + 1) - 1 = k /\ k \in 0..len /\ k <= len
      BY <2>1
    <3>2. /\ run[k] \in Rows /\ run[k] = Passed(s, a, k) /\ Amount(run[k]) = Amount(s)
          /\ a + 2 * k \in Carriers /\ order[k + 1] = a + 2 * k
      BY <1>0, <1>1, <1>2, <1>4, <3>1
    <3>3. run[k + 1] = SL!CarryRound(run[k], a + 2 * k)
      BY <1>2, <3>1, <3>2
    <3>4. run[k + 1] = Passed(s, a, k + 1)
      BY <3>2, <3>3, PassedStep
    <3>5. Amount(run[k + 1]) = Amount(s)
      BY <3>2, <3>3, CarriesExact, MovedExact
    <3> QED
      BY <3>4, <3>5
  <2>2. CASE ~ (k + 1 <= len)
    BY <2>2
  <2> QED
    BY <2>1, <2>2
<1>5. Nat \subseteq G
  <2> HIDE DEF G
  <2> QED
    BY <1>3, <1>4, NaturalInduction
<1>6. Good(len) /\ run[len] \in Rows
  BY <1>2, <1>5
<1> QED
  BY <1>2, <1>6

(* What two passes of carries from a to b leave: signed limbs, but for what*)
(* the second pass carries, which is a radix less than what they were.     *)
Settles(t, s, a, b, m, r) ==
  /\ t \in Rows /\ Amount(t) = Amount(s)
  /\ \A j \in Slots : j < a \/ j > b + 1 => t[j] = s[j]
  /\ \A j \in a..b : Within(t[j], m * Radix + Radix)
  /\ Within(t[b + 1], r + m * Radix + m)
  /\ (b - a) % 2 = 1 => 0 - Half <= t[b] /\ t[b] < Half

(* The limbs after both passes, of k1 carries and of k2.                   *)
LEMMA TwoPasses ==
  ASSUME NEW s \in Rows, NEW a \in Nat, NEW b \in Carriers, NEW d \in Nat, NEW e \in {0, 1},
         b = a + 2 * d + e,
         NEW m \in Nat, m < Half, \A j \in a..b : Within(s[j], (m * Radix) * Radix),
         NEW r \in Nat, Within(s[b + 1], r),
         NEW u \in Rows, u = Passed(s, a, d + 1), Amount(u) = Amount(s),
         NEW t \in Rows, t = Passed(u, a + 1, d + e), Amount(t) = Amount(u)
  PROVE  Settles(t, s, a, b, m, r)
<1> DEFINE mR == m * Radix
           big == mR * Radix
<1>1. /\ Radix \in Nat /\ Half \in Nat /\ Half > 0 /\ Radix = 2 * Half
      /\ mR \in Nat /\ big \in Nat /\ mR + m \in Nat
      /\ m * Radix = mR /\ (mR + m) * Radix = big + mR
  BY ScalarFacts
<1>2. /\ b \in Slots /\ b + 1 \in Slots /\ b \in Nat /\ b >= a
      /\ \A j \in a..(b + 1) : j \in Slots /\ j \in Nat
  BY ScalarFacts DEF Carriers, Slots
<1>3. \A j \in Slots : s[j] \in Int /\ u[j] \in Int /\ t[j] \in Int /\ j \in Nat
  BY ScalarFacts DEF Rows
<1>4. \A j \in a..b : Within(s[j], big)
  OBVIOUS
<1>a. \A j \in Slots : u[j] = IF j < a \/ j >= a + 2 * (d + 1) THEN s[j]
                              ELSE IF (j - a) % 2 = 0 THEN s[j] - Nearest(s[j]) * Radix
                              ELSE s[j] + Nearest(s[j - 1])
  BY DEF Passed
<1>b. \A j \in Slots : t[j] = IF j < a + 1 \/ j >= (a + 1) + 2 * (d + e) THEN u[j]
                              ELSE IF (j - (a + 1)) % 2 = 0 THEN u[j] - Nearest(u[j]) * Radix
                              ELSE u[j] + Nearest(u[j - 1])
  BY DEF Passed
<1> HIDE DEF mR, big
<1>5. \A j \in a..b : Within(Nearest(s[j]), mR)
  <2> TAKE j \in a..b
  <2>1. s[j] \in Int /\ Within(s[j], mR * Radix)
    BY <1>2, <1>3, <1>4 DEF big
  <2> QED
    BY <1>1, <2>1, NearestBound
<1>6. ASSUME NEW j \in a..b, (j - a) % 2 = 0
      PROVE  0 - Half <= u[j] /\ u[j] < Half
  <2>1. j \in Slots /\ ~ (j < a \/ j >= a + 2 * (d + 1))
    BY <1>2
  <2>2. u[j] = s[j] - Nearest(s[j]) * Radix
    BY <1>a, <1>6, <2>1
  <2>3. s[j] \in Int
    BY <1>3, <2>1
  <2> QED
    BY <2>2, <2>3, NearestBound
<1>7. ASSUME NEW j \in (a + 1)..(b + 1), (j - a) % 2 = 1
      PROVE  /\ u[j] = s[j] + Nearest(s[j - 1]) /\ Within(Nearest(s[j - 1]), mR)
             /\ s[j] \in Int
  <2>1. j \in Slots /\ ~ (j < a \/ j >= a + 2 * (d + 1)) /\ ~ ((j - a) % 2 = 0)
        /\ j - 1 \in a..b
    BY <1>2, <1>7
  <2>2. u[j] = s[j] + Nearest(s[j - 1])
    BY <1>a, <2>1
  <2> QED
    BY <1>3, <1>5, <2>1, <2>2
<1>8. ASSUME NEW j \in (a + 1)..b, (j - a) % 2 = 1
      PROVE  Within(Nearest(u[j]), mR + m)
  <2>1. /\ u[j] = s[j] + Nearest(s[j - 1]) /\ Within(Nearest(s[j - 1]), mR)
        /\ Within(s[j], big)
    BY <1>2, <1>4, <1>7, <1>8
  <2>2. Within(u[j], big + mR) /\ u[j] \in Int
    BY <1>1, <2>1 DEF Within
  <2>3. Within(u[j], (mR + m) * Radix)
    BY <1>1, <2>2
  <2> QED
    BY <1>1, <2>2, <2>3, NearestBound
<1>9. ASSUME NEW j \in Slots, j < a \/ j > b + 1
      PROVE  t[j] = s[j]
  <2>1. j < a \/ j >= a + 2 * (d + 1)
    BY <1>2, <1>3, <1>9
  <2>2. j < a + 1 \/ j >= (a + 1) + 2 * (d + e)
    BY <1>2, <1>3, <1>9
  <2> QED
    BY <1>a, <1>b, <2>1, <2>2
<1>10. ASSUME NEW j \in (a + 1)..b, (j - a) % 2 = 1
       PROVE  0 - Half <= t[j] /\ t[j] < Half
  <2>1. j \in Slots /\ ~ (j < a + 1 \/ j >= (a + 1) + 2 * (d + e)) /\ (j - (a + 1)) % 2 = 0
    BY <1>2, <1>10
  <2>2. t[j] = u[j] - Nearest(u[j]) * Radix
    BY <1>b, <2>1
  <2>3. u[j] \in Int
    BY <1>3, <2>1
  <2> QED
    BY <2>2, <2>3, NearestBound
<1>11. ASSUME NEW j \in (a + 1)..(b + 1), (j - a) % 2 = 0
       PROVE  t[j] = u[j] + Nearest(u[j - 1]) /\ Within(Nearest(u[j - 1]), mR + m)
  <2>1. /\ j \in Slots /\ ~ (j < a + 1 \/ j >= (a + 1) + 2 * (d + e))
        /\ ~ ((j - (a + 1)) % 2 = 0)
        /\ j - 1 \in (a + 1)..b /\ ((j - 1) - a) % 2 = 1
    BY <1>2, <1>11
  <2>2. t[j] = u[j] + Nearest(u[j - 1])
    BY <1>b, <2>1
  <2> QED
    BY <1>8, <2>1, <2>2
<1>12. ASSUME NEW j \in a..b PROVE Within(t[j], mR + Radix)
  <2>1. j \in Slots /\ j \in Nat /\ t[j] \in Int /\ u[j] \in Int /\ ((j - a) % 2 = 0 \/ (j - a) % 2 = 1)
    BY <1>2, <1>3
  <2>2. CASE (j - a) % 2 = 1
    <3>1. j \in (a + 1)..b
      <4>1. j # a
        BY <2>2
      <4> QED
        BY <1>2, <2>1, <4>1
    <3> QED
      BY <1>1, <1>10, <2>1, <2>2, <3>1 DEF Within
  <2>3. CASE (j - a) % 2 = 0 /\ j # a
    <3>1. j \in (a + 1)..(b + 1)
      BY <1>2, <2>1, <2>3
    <3>2. 0 - Half <= u[j] /\ u[j] < Half
      BY <1>6, <2>3
    <3>3. t[j] = u[j] + Nearest(u[j - 1]) /\ Within(Nearest(u[j - 1]), mR + m)
      BY <1>11, <2>3, <3>1
    <3> QED
      BY <1>1, <2>1, <3>2, <3>3 DEF Within
  <2>4. CASE j = a
    <3>1. (j - a) % 2 = 0 /\ j < a + 1
      BY <2>4
    <3>2. t[j] = u[j]
      BY <1>b, <2>1, <3>1
    <3>3. 0 - Half <= u[j] /\ u[j] < Half
      BY <1>6, <3>1
    <3> QED
      BY <1>1, <2>1, <3>2, <3>3 DEF Within
  <2> QED
    BY <2>1, <2>2, <2>3, <2>4
<1>13. Within(t[b + 1], r + mR + m)
  <2>1. b + 1 \in (a + 1)..(b + 1) /\ b + 1 \in Slots
    BY <1>2
  <2>2. CASE e = 0
    <3>1. ((b + 1) - a) % 2 = 1 /\ b + 1 >= (a + 1) + 2 * (d + e)
      BY <1>2, <2>2
    <3>2. t[b + 1] = u[b + 1]
      BY <1>b, <2>1, <3>1
    <3>3. u[b + 1] = s[b + 1] + Nearest(s[(b + 1) - 1]) /\ Within(Nearest(s[(b + 1) - 1]), mR)
      BY <1>7, <2>1, <3>1
    <3> QED
      BY <1>1, <3>2, <3>3 DEF Within
  <2>3. CASE e = 1
    <3>1. ((b + 1) - a) % 2 = 0 /\ b + 1 >= a + 2 * (d + 1)
      BY <1>2, <2>3
    <3>2. u[b + 1] = s[b + 1]
      BY <1>a, <2>1, <3>1
    <3>3. t[b + 1] = u[b + 1] + Nearest(u[(b + 1) - 1]) /\ Within(Nearest(u[(b + 1) - 1]), mR + m)
      BY <1>11, <2>1, <3>1
    <3> QED
      BY <1>1, <3>2, <3>3 DEF Within
  <2> QED
    BY <2>2, <2>3
<1>14. ASSUME (b - a) % 2 = 1 PROVE 0 - Half <= t[b] /\ t[b] < Half
  <2>1. b \in (a + 1)..b
    <3>1. b # a
      BY <1>14
    <3> QED
      BY <1>2, <3>1
  <2> QED
    BY <1>10, <1>14, <2>1
<1> QED
  BY <1>9, <1>12, <1>13, <1>14 DEF Settles, mR

(* Both passes of carries from a to b.                                     *)
LEMMA CarryEvenOddSettles ==
  ASSUME NEW s \in Rows, NEW a \in Nat, NEW b \in Carriers, a <= b,
         NEW m \in Nat, m < Half, \A j \in a..b : Within(s[j], (m * Radix) * Radix),
         NEW r \in Nat, Within(s[b + 1], r)
  PROVE  Settles(SL!CarryEvenOdd(s, a, b), s, a, b, m, r)
<1>1. b \in Nat /\ b <= 2 * n - 2 /\ n \in Nat
  BY ScalarFacts DEF Carriers
<1>2. PICK d \in Nat, e \in {0, 1} : b = a + 2 * d + e
  <2> DEFINE d == (b - a) \div 2
             e == (b - a) % 2
  <2>1. d \in Nat /\ e \in {0, 1} /\ b = a + 2 * d + e
    BY <1>1
  <2> HIDE DEF d, e
  <2> QED
    BY <2>1
<1> DEFINE evens == SL!From(a, b, 2)
           odds == SL!From(a + 1, b, 2)
<1>3. EveryOther(evens, a, d + 1)
  <2>1. (b - a) \div 2 + 1 = d + 1
    BY <1>2
  <2>2. evens = [k \in 1..(d + 1) |-> a + (k - 1) * 2]
    BY <2>1, Zenon DEF SL!From
  <2>3. \A k \in 1..(d + 1) : a + 2 * (k - 1) = a + (k - 1) * 2 /\ a + 2 * (k - 1) \in Carriers
    BY <1>1, <1>2 DEF Carriers
  <2> QED
    BY <2>2, <2>3 DEF EveryOther
<1>4. EveryOther(odds, a + 1, d + e)
  <2>1. (b - (a + 1)) \div 2 + 1 = d + e
    BY <1>2
  <2>2. odds = [k \in 1..(d + e) |-> (a + 1) + (k - 1) * 2]
    BY <2>1, Zenon DEF SL!From
  <2>3. \A k \in 1..(d + e) : /\ (a + 1) + 2 * (k - 1) = (a + 1) + (k - 1) * 2
                              /\ (a + 1) + 2 * (k - 1) \in Carriers
    BY <1>1, <1>2 DEF Carriers
  <2> QED
    BY <2>2, <2>3 DEF EveryOther
<1>5. SL!CarryEvenOdd(s, a, b) = SL!FoldLeft(SL!CarryRound, SL!FoldLeft(SL!CarryRound, s, evens), odds)
  BY Zenon DEF SL!CarryEvenOdd
<1> HIDE DEF evens, odds
<1> DEFINE u == Passed(s, a, d + 1)
           t == Passed(u, a + 1, d + e)
<1>6. SL!FoldLeft(SL!CarryRound, s, evens) = u /\ u \in Rows /\ Amount(u) = Amount(s)
  BY <1>2, <1>3, PassIsClosed
<1> HIDE DEF u
<1>7. SL!FoldLeft(SL!CarryRound, u, odds) = t /\ t \in Rows /\ Amount(t) = Amount(u)
  <2>1. d + e \in Nat /\ a + 1 \in Nat
    BY <1>2
  <2> QED
    BY <1>4, <1>6, <2>1, PassIsClosed
<1> HIDE DEF t
<1>8. SL!CarryEvenOdd(s, a, b) = t
  BY <1>5, <1>6, <1>7, Zenon
<1>9. Settles(t, s, a, b, m, r)
  BY <1>2, <1>6, <1>7, TwoPasses DEF t, u
<1> QED
  BY <1>8, <1>9, Zenon

(* Bounds multiply. *)
LEMMA ProductWithin ==
  ASSUME NEW x, NEW y, NEW a \in Nat, NEW b \in Nat, Within(x, a), Within(y, b)
  PROVE  x * y \in Int /\ Within(x * y, a * b)
<1>1. x \in Int /\ y \in Int /\ 0 - a <= x /\ x <= a /\ 0 - b <= y /\ y <= b
  BY DEF Within
<1>2. a * b \in Nat /\ x * y \in Int
  BY <1>1
<1>3. /\ (a - x) * (b - y) >= 0 /\ (a + x) * (b + y) >= 0
      /\ (a - x) * (b + y) >= 0 /\ (a + x) * (b - y) >= 0
  <2>1. \A v, w \in Nat : v * w >= 0
    OBVIOUS
  <2>2. a - x \in Nat /\ a + x \in Nat /\ b - y \in Nat /\ b + y \in Nat
    BY <1>1
  <2> QED
    BY <2>1, <2>2
<1>4. /\ (a - x) * (b - y) = a * b - a * y - x * b + x * y
      /\ (a + x) * (b + y) = a * b + a * y + x * b + x * y
      /\ (a - x) * (b + y) = a * b + a * y - x * b - x * y
      /\ (a + x) * (b - y) = a * b - a * y + x * b - x * y
  BY <1>1
<1>5. a * y \in Int /\ x * b \in Int
  BY <1>1
<1> QED
  BY <1>2, <1>3, <1>4, <1>5 DEF Within

(* Limbs in descending order. *)
LEMMA DownDescends ==
  ASSUME NEW b \in Nat, NEW len \in Nat, len > 0
  PROVE  /\ DOMAIN SL!Down(b + len - 1, b) = 1..len
         /\ \A k \in 1..len : SL!Down(b + len - 1, b)[k] = b + (len - k)
<1> DEFINE a == b + len - 1
           up == SL!From(b, a, 1)
           flat == [k \in 1..len |-> b + (k - 1) * 1]
<1>1. (a - b) \div 1 + 1 = len
  OBVIOUS
<1>2. up = flat
  BY <1>1, Zenon DEF SL!From
<1>3. Len(flat) = len /\ \A k \in 1..len : flat[k] = b + (k - 1)
  <2>1. flat \in Seq(Int) /\ DOMAIN flat = 1..len
    OBVIOUS
  <2> HIDE DEF flat
  <2>2. Len(flat) = len
    BY <2>1
  <2> QED
    BY <2>2 DEF flat
<1>4. SL!Down(a, b) = [k \in 1..Len(up) |-> up[(Len(up) - k) + 1]]
  BY Zenon DEF SL!Down, SL!Reverse
<1> HIDE DEF up, flat, a
<1>5. SL!Down(a, b) = [k \in 1..len |-> flat[(len - k) + 1]]
  BY <1>2, <1>3, <1>4
<1>6. \A k \in 1..len : flat[(len - k) + 1] = b + (len - k)
  <2> TAKE k \in 1..len
  <2>1. (len - k) + 1 \in 1..len /\ ((len - k) + 1) - 1 = len - k
    OBVIOUS
  <2> QED
    BY <1>3, <2>1
<1> QED
  BY <1>5, <1>6 DEF a

(* After k limbs from a down have been folded.                             *)
Folding(v, s, b, a, k, bound) ==
  /\ v \in Rows /\ Congruent(Amount(v), Amount(s), SL!l)
  /\ \A j \in Slots : j > a \/ (b - 1 <= j /\ j <= a - k) => v[j] = s[j]
  /\ \A j \in Slots : a - k < j /\ j <= a => v[j] = 0
  /\ \A j \in Slots : j < b => Within(v[j] - s[j], k * bound)

(* One limb more. *)
LEMMA FoldingStep ==
  ASSUME NEW s \in Rows, NEW b \in Nat, NEW a \in Nat, b >= n, a = b + Upper - 1, a \in Slots,
         NEW M \in Nat, \A j \in b..a : Within(s[j], M),
         NEW k \in Nat, b <= a - k, NEW v, Folding(v, s, b, a, k, M * Half)
  PROVE  Folding(SL!FoldDown(v, a - k), s, b, a, k + 1, M * Half)
<1> DEFINE i == a - k
           bound == M * Half
           g == SL!FoldDown(v, i)
<1>1. /\ v \in Rows /\ Congruent(Amount(v), Amount(s), SL!l)
      /\ \A j \in Slots : j > a \/ (b - 1 <= j /\ j <= a - k) => v[j] = s[j]
      /\ \A j \in Slots : a - k < j /\ j <= a => v[j] = 0
      /\ \A j \in Slots : j < b => Within(v[j] - s[j], k * bound)
  BY DEF Folding
<1>2. /\ n \in Nat /\ Upper \in Nat /\ Upper > 0 /\ n = 2 * Upper /\ Half \in Nat
      /\ i \in n..(2 * n - 1) /\ i \in Slots /\ i \in Nat /\ i \in b..a /\ i <= a /\ i >= b
      /\ a <= 2 * n - 1
  BY ScalarFacts DEF Slots
<1>3. bound \in Nat
  BY <1>2
<1> HIDE DEF bound
<1>4. /\ g \in Rows /\ g[i] = 0
      /\ \A j \in Slots : j # i =>
              g[j] = IF j - (i - n) \in 0..(Upper - 1) THEN v[j] + v[i] * Fold[j - (i - n)] ELSE v[j]
      /\ Amount(g) = Amount(v) - (v[i] * Weight(i - n)) * SL!l
  BY <1>1, <1>2, FoldDownExact
<1> HIDE DEF g
<1>5. v[i] = s[i] /\ Within(v[i], M) /\ v[i] \in Int
  <2>1. v[i] = s[i]
    BY <1>1, <1>2
  <2> QED
    BY <1>2, <2>1 DEF Within
<1>6. Congruent(Amount(g), Amount(s), SL!l)
  <2>1. Amount(g) \in Int /\ Amount(v) \in Int /\ Amount(s) \in Int
    BY <1>1, <1>4, AmountIsSum
  <2>2. v[i] * Weight(i - n) \in Int /\ SL!l \in Int
    <3>1. Weight(i - n) \in Int
      BY <1>2, WeightIsNatural
    <3> QED
      BY <1>5, <3>1, OrderFacts
  <2>3. Congruent(Amount(g), Amount(v), SL!l)
    <3> DEFINE q == v[i] * Weight(i - n)
    <3> HIDE DEF q
    <3>1. q \in Int /\ Amount(g) = Amount(v) - q * SL!l
      BY <1>4, <2>2 DEF q
    <3>2. 0 - q \in Int /\ Amount(g) = Amount(v) + SL!l * (0 - q)
      BY <2>1, <2>2, <3>1
    <3> QED
      BY <3>2 DEF Congruent
  <2> QED
    BY <1>1, <2>1, <2>2, <2>3, CongruentTransitive
<1>7. ASSUME NEW j \in Slots, j > a \/ (b - 1 <= j /\ j <= a - (k + 1))
      PROVE  g[j] = s[j]
  <2>1. j # i /\ ~ (j - (i - n) \in 0..(Upper - 1)) /\ (j > a \/ (b - 1 <= j /\ j <= a - k))
    BY <1>2, <1>7, ScalarFacts
  <2>2. v[j] = s[j]
    BY <1>1, <2>1
  <2> QED
    BY <1>4, <2>1, <2>2
<1>8. ASSUME NEW j \in Slots, a - (k + 1) < j, j <= a
      PROVE  g[j] = 0
  <2>1. j \in Nat
    BY ScalarFacts
  <2>2. CASE j = i
    BY <1>4, <2>2
  <2>3. CASE j # i
    <3>1. ~ (j - (i - n) \in 0..(Upper - 1)) /\ a - k < j
      BY <1>2, <1>8, <2>1, <2>3
    <3>2. v[j] = 0
      BY <1>1, <1>8, <3>1
    <3> QED
      BY <1>4, <2>3, <3>1, <3>2
  <2> QED
    BY <2>2, <2>3
<1>9. ASSUME NEW j \in Slots, j < b
      PROVE  Within(g[j] - s[j], (k + 1) * bound)
  <2>1. j \in Nat /\ j # i /\ v[j] \in Int /\ s[j] \in Int
    BY <1>1, <1>2, <1>9, ScalarFacts DEF Rows
  <2>2. Within(v[j] - s[j], k * bound) /\ k * bound \in Nat /\ (k + 1) * bound = k * bound + bound
    BY <1>1, <1>3, <1>9
  <2>3. CASE j - (i - n) \in 0..(Upper - 1)
    <3>1. PICK y \in Int : y = Fold[j - (i - n)] /\ Within(y, Half)
      BY <2>3, OrderFacts DEF Within
    <3>2. v[i] * y \in Int /\ Within(v[i] * y, bound)
      BY <1>2, <1>5, <3>1, ProductWithin DEF bound
    <3>3. g[j] = v[j] + v[i] * y
      BY <1>4, <2>1, <2>3, <3>1
    <3> QED
      BY <1>3, <2>1, <2>2, <3>2, <3>3 DEF Within
  <2>4. CASE ~ (j - (i - n) \in 0..(Upper - 1))
    <3>1. g[j] = v[j]
      BY <1>4, <2>1, <2>4
    <3> QED
      BY <1>3, <2>1, <2>2, <3>1 DEF Within
  <2> QED
    BY <2>3, <2>4
<1>10. Folding(g, s, b, a, k + 1, bound)
  BY <1>4, <1>6, <1>7, <1>8, <1>9 DEF Folding
<1> QED
  BY <1>10 DEF g, i, bound

(* Upper limbs folded, from the highest down: they are spent, the number is*)
(* the same modulo l, and lower limbs grow by a bound.                     *)
LEMMA FoldingExact ==
  ASSUME NEW s \in Rows, NEW b \in Nat, NEW a \in Nat, b >= n, a = b + Upper - 1, a \in Slots,
         NEW M \in Nat, \A j \in b..a : Within(s[j], M)
  PROVE  Folding(SL!FoldLeft(SL!FoldDown, s, SL!Down(a, b)), s, b, a, Upper, M * Half)
<1> DEFINE len == Upper
           order == SL!Down(a, b)
           bound == M * Half
<1>1. /\ n \in Nat /\ len \in Nat /\ len > 0 /\ n = 2 * len /\ Half \in Nat /\ a = b + len - 1
      /\ a <= 2 * n - 1 /\ bound \in Nat
  BY ScalarFacts DEF Slots
<1>2. DOMAIN order = 1..len /\ \A k \in 1..len : order[k] = b + (len - k)
  BY <1>1, DownDescends
<1>3. Orders(order, len, n..(2 * n - 1))
  <2>1. \A k \in 1..len : b + (len - k) \in n..(2 * n - 1)
    BY <1>1
  <2> QED
    BY <1>2, <2>1 DEF Orders
<1> HIDE DEF order, bound
<1>4. PICK run : FoldsDown(run, s, order, len)
  BY <1>1, <1>3, FoldDownRuns, Zenon
<1>5. /\ run \in [0..len -> Rows] /\ run[0] = s
      /\ run[len] = SL!FoldLeft(SL!FoldDown, s, order)
      /\ \A k \in 1..len : run[k] = SL!FoldDown(run[k - 1], order[k])
  BY <1>4, Zenon DEF FoldsDown
<1> DEFINE Good(k) == k <= len => Folding(run[k], s, b, a, k, bound)
           G == {k \in Nat : Good(k)}
<1>6. 0 \in G
  <2>1. Congruent(Amount(s), Amount(s), SL!l)
    <3>1. Amount(s) \in Int /\ SL!l \in Int
      BY AmountIsSum, OrderFacts
    <3>2. Amount(s) = Amount(s) + SL!l * 0
      BY <3>1
    <3> QED
      BY <3>2 DEF Congruent
  <2>2. \A j \in Slots : j \in Nat /\ s[j] \in Int /\ ~ (a - 0 < j /\ j <= a)
    BY ScalarFacts DEF Rows
  <2>3. \A j \in Slots : Within(s[j] - s[j], 0 * bound)
    BY <1>1, <2>2 DEF Within
  <2>4. Folding(s, s, b, a, 0, bound)
    BY <2>1, <2>2, <2>3 DEF Folding
  <2> QED
    BY <1>5, <2>4
<1>7. ASSUME NEW k \in Nat, k \in G PROVE k + 1 \in G
  <2>1. CASE k + 1 <= len
    <3>1. k + 1 \in 1..len /\ (k + 1) - 1 = k /\ b + (len - (k + 1)) = a - k /\ b <= a - k /\ k <= len
      BY <1>1, <2>1
    <3>2. run[k + 1] = SL!FoldDown(run[k], a - k)
      BY <1>2, <1>5, <3>1
    <3>3. Folding(run[k], s, b, a, k, bound)
      BY <1>7, <3>1
    <3>4. Folding(SL!FoldDown(run[k], a - k), s, b, a, k + 1, bound)
      BY <3>1, <3>3, FoldingStep DEF bound
    <3> QED
      BY <3>2, <3>4
  <2>2. CASE ~ (k + 1 <= len)
    BY <2>2
  <2> QED
    BY <2>1, <2>2
<1>8. Nat \subseteq G
  <2> HIDE DEF G
  <2> QED
    BY <1>6, <1>7, NaturalInduction
<1>9. Folding(run[len], s, b, a, len, bound)
  BY <1>1, <1>8
<1> QED
  BY <1>5, <1>9, Zenon DEF order, bound

(* After floors of the limbs below k.                                      *)
Floored(v, s, k) ==
  /\ v \in Rows /\ Amount(v) = Amount(s)
  /\ \A j \in Slots : j < k => 0 <= v[j] /\ v[j] < Radix
  /\ \A j \in Slots : j > k => v[j] = s[j]

(* Carries that round down, from the lowest limb: what they pass is a digit.*)
LEMMA FloorsExact ==
  ASSUME NEW s \in Rows, NEW b \in Carriers
  PROVE  Floored(SL!FoldLeft(SL!CarryFloor, s, SL!From(0, b, 1)), s, b + 1)
<1> DEFINE len == b + 1
           order == SL!From(0, b, 1)
<1>1. b \in Nat /\ len \in Nat /\ b <= 2 * n - 2 /\ n \in Nat
  BY ScalarFacts DEF Carriers
<1>2. order = [k \in 1..len |-> 0 + (k - 1) * 1]
  <2>1. (b - 0) \div 1 + 1 = len
    BY <1>1
  <2> QED
    BY <2>1, Zenon DEF SL!From
<1>3. Orders(order, len, Carriers) /\ \A k \in 1..len : order[k] = k - 1
  <2>1. \A k \in 1..len : 0 + (k - 1) * 1 = k - 1 /\ k - 1 \in Carriers
    BY <1>1 DEF Carriers
  <2> QED
    BY <1>2, <2>1 DEF Orders
<1> HIDE DEF order
<1>4. PICK run : FloorsCarry(run, s, order, len)
  BY <1>1, <1>3, CarryFloorRuns, Zenon
<1>5. /\ run \in [0..len -> Rows] /\ run[0] = s
      /\ run[len] = SL!FoldLeft(SL!CarryFloor, s, order)
      /\ \A k \in 1..len : run[k] = SL!CarryFloor(run[k - 1], order[k])
  BY <1>4, Zenon DEF FloorsCarry
<1> DEFINE Good(k) == k <= len => Floored(run[k], s, k)
           G == {k \in Nat : Good(k)}
<1>6. 0 \in G
  <2>1. \A j \in Slots : ~ (j < 0)
    BY ScalarFacts
  <2> QED
    BY <1>5, <2>1 DEF Floored
<1>7. ASSUME NEW k \in Nat, k \in G PROVE k + 1 \in G
  <2>1. CASE k + 1 <= len
    <3>1. k + 1 \in 1..len /\ (k + 1) - 1 = k /\ k \in Carriers /\ k <= len
      BY <1>1, <2>1 DEF Carriers
    <3> DEFINE v == run[k]
               g == run[k + 1]
    <3>2. Floored(v, s, k) /\ g = SL!CarryFloor(v, k)
      BY <1>3, <1>5, <1>7, <3>1
    <3> HIDE DEF v, g
    <3>3. /\ v \in Rows /\ Amount(v) = Amount(s)
          /\ \A j \in Slots : j < k => 0 <= v[j] /\ v[j] < Radix
          /\ \A j \in Slots : j > k => v[j] = s[j]
      BY <3>2 DEF Floored
    <3> DEFINE q == Floor(v[k])
    <3>4. /\ k \in Slots /\ k + 1 \in Slots /\ q \in Int /\ g = SL!Moved(v, k, q)
      BY <3>1, <3>2, <3>3, CarriesExact
    <3>5. 0 <= v[k] - q * Radix /\ v[k] - q * Radix < Radix
      <4>1. v[k] \in Int /\ Radix \in Nat /\ Radix > 0
        BY <3>3, <3>4, ScalarFacts DEF Rows
      <4>2. v[k] = Radix * q + (v[k] % Radix) /\ v[k] % Radix \in 0..(Radix - 1)
        BY <4>1, Division DEF Floor
      <4> HIDE DEF q
      <4>3. Radix * q = q * Radix /\ q * Radix \in Int
        BY <3>4, <4>1
      <4> QED
        BY <4>1, <4>2, <4>3
    <3> HIDE DEF q
    <3>6. /\ g \in Rows /\ g[k] = v[k] - q * Radix
          /\ \A j \in Slots : j # k /\ j # k + 1 => g[j] = v[j]
          /\ Amount(g) = Amount(v)
      BY <3>3, <3>4, MovedExact
    <3>7. ASSUME NEW j \in Slots, j < k + 1 PROVE 0 <= g[j] /\ g[j] < Radix
      <4>1. j \in Nat
        BY ScalarFacts
      <4>2. CASE j = k
        BY <3>5, <3>6, <4>2
      <4>3. CASE j # k
        <5>1. j < k /\ j # k + 1
          BY <3>1, <3>7, <4>1, <4>3
        <5> QED
          BY <3>3, <3>6, <4>3, <5>1
      <4> QED
        BY <4>2, <4>3
    <3>8. ASSUME NEW j \in Slots, j > k + 1 PROVE g[j] = s[j]
      <4>1. j # k /\ j # k + 1 /\ j > k
        BY <3>8, ScalarFacts
      <4> QED
        BY <3>3, <3>6, <4>1
    <3>9. Floored(g, s, k + 1)
      BY <3>3, <3>6, <3>7, <3>8 DEF Floored
    <3> QED
      BY <3>9 DEF g
  <2>2. CASE ~ (k + 1 <= len)
    BY <2>2
  <2> QED
    BY <2>1, <2>2
<1>8. Nat \subseteq G
  <2> HIDE DEF G
  <2> QED
    BY <1>6, <1>7, NaturalInduction
<1>9. Floored(run[len], s, len)
  BY <1>1, <1>8
<1> QED
  BY <1>5, <1>9, Zenon DEF order

Below(s, k) == SumFunctionOnSet(Weighed(s), 0..(k - 1))

(* The limbs below k, one more and one more.                               *)
LEMMA BelowGrows ==
  ASSUME NEW s \in Rows
  PROVE  /\ Below(s, 0) = 0
         /\ \A k \in Slots : /\ Below(s, k) \in Int
                             /\ Below(s, k + 1) = Below(s, k) + s[k] * Weight(k)
<1>1. Below(s, 0) = 0
  <2>1. 0..(0 - 1) = {}
    OBVIOUS
  <2> QED
    BY <2>1, SumOfNone DEF Below
<1>2. ASSUME NEW k \in Slots
      PROVE  Below(s, k) \in Int /\ Below(s, k + 1) = Below(s, k) + s[k] * Weight(k)
  <2> DEFINE S == 0..k
  <2>1. /\ k \in Nat /\ k <= 2 * n - 1 /\ n \in Nat /\ k \in S /\ S \subseteq Slots
        /\ S \ {k} = 0..(k - 1) /\ 0..((k + 1) - 1) = S /\ 0..(k - 1) \subseteq Slots
    BY ScalarFacts DEF Slots
  <2>2. IsFiniteSet(S) /\ IsFiniteSet(0..(k - 1))
    BY <2>1, ScalarFacts, FS_Subset
  <2>3. \A x \in Slots : Weighed(s)[x] \in Int /\ Weighed(s)[x] = s[x] * Weight(x)
    BY AmountIsSum
  <2>4. Below(s, k) \in Int
    BY <2>1, <2>2, <2>3, SumIsInteger DEF Below
  <2> HIDE DEF S
  <2>5. SumFunctionOnSet(Weighed(s), S)
          = Weighed(s)[k] + SumFunctionOnSet(Weighed(s), S \ {k})
    BY <2>1, <2>2, <2>3, SumSplit
  <2>6. Weighed(s)[k] = s[k] * Weight(k) /\ Weighed(s)[k] \in Int
    BY <2>3
  <2>7. /\ SumFunctionOnSet(Weighed(s), S) = Below(s, k + 1)
        /\ SumFunctionOnSet(Weighed(s), S \ {k}) = Below(s, k)
    BY <2>1, Zenon DEF Below
  <2> QED
    BY <2>4, <2>5, <2>6, <2>7
<1> QED
  BY <1>1, <1>2

(* Limbs that are zero weigh nothing. *)
LEMMA AmountIsBelow ==
  ASSUME NEW s \in Rows, NEW k \in 0..(2 * n), \A j \in Slots : j >= k => s[j] = 0
  PROVE  Amount(s) = Below(s, k)
<1> DEFINE S == 0..(k - 1)
<1>1. S \in SUBSET Slots /\ \A j \in Slots \ S : j >= k /\ j \in Nat
  BY ScalarFacts DEF Slots
<1>2. \A x \in Slots : Weighed(s)[x] \in Int /\ Weighed(s)[x] = s[x] * Weight(x)
  BY AmountIsSum
<1>3. \A x \in Slots \ S : Weighed(s)[x] = 0
  <2> TAKE x \in Slots \ S
  <2>1. s[x] = 0 /\ Weight(x) \in Nat /\ Weighed(s)[x] = s[x] * Weight(x)
    BY <1>1, <1>2, WeightIsNatural
  <2> QED
    BY <2>1
<1> HIDE DEF S
<1>4. SumFunctionOnSet(Weighed(s), Slots) = SumFunctionOnSet(Weighed(s), S)
  BY <1>1, <1>2, <1>3, ScalarFacts, SumOfPart
<1> QED
  BY <1>4, Zenon DEF S, Amount, Below

(* Digits weigh less than the next position.                               *)
LEMMA DigitsBelow ==
  ASSUME NEW s \in Rows, NEW k \in 0..(2 * n),
         \A j \in Slots : j < k => 0 <= s[j] /\ s[j] < Radix
  PROVE  Below(s, k) \in Int /\ 0 <= Below(s, k) /\ Below(s, k) < Weight(k)
<1> DEFINE Good(i) == i <= k => /\ Below(s, i) \in Int /\ 0 <= Below(s, i)
                                /\ Below(s, i) < Weight(i)
           G == {i \in Nat : Good(i)}
<1>1. 0 \in G
  <2>1. Weight(0) = 1
    BY WeightFacts
  <2>2. Below(s, 0) = 0
    BY BelowGrows
  <2> QED
    BY <2>1, <2>2
<1>2. ASSUME NEW i \in Nat, i \in G PROVE i + 1 \in G
  <2>1. CASE i + 1 <= k
    <3>1. i \in Slots /\ i < k /\ i <= k
      BY <2>1, ScalarFacts DEF Slots
    <3>2. Below(s, i) \in Int /\ 0 <= Below(s, i) /\ Below(s, i) < Weight(i)
      BY <1>2, <3>1
    <3>3. Below(s, i + 1) = Below(s, i) + s[i] * Weight(i)
      BY <3>1, BelowGrows
    <3>4. s[i] \in Int /\ 0 <= s[i] /\ s[i] <= Radix - 1 /\ Radix \in Nat
      BY <3>1, ScalarFacts DEF Rows
    <3>5. Weight(i) \in Nat
      BY WeightIsNatural
    <3>6. Weight(i + 1) = Weight(i) * Radix
      BY WeightFacts
    <3> DEFINE w == Weight(i)
               x == s[i]
    <3> HIDE DEF w, x
    <3>7. w \in Nat /\ x \in Int /\ 0 <= x /\ x <= Radix - 1 /\ Radix \in Nat
      BY <3>4, <3>5 DEF w, x
    <3>8. 0 <= x * w /\ x * w <= w * Radix - w /\ x * w \in Int /\ w * Radix \in Int
      <4>1. PICK y \in Nat : y = (Radix - 1) - x
        BY <3>7
      <4>2. y * w >= 0 /\ x * w >= 0
        BY <3>7, <4>1
      <4>3. y * w = w * Radix - w - x * w
        BY <3>7, <4>1
      <4> QED
        BY <3>7, <4>2, <4>3
    <3>9. Below(s, i + 1) = Below(s, i) + x * w /\ Weight(i + 1) = w * Radix /\ Below(s, i) < w
      BY <3>2, <3>3, <3>6 DEF w, x
    <3> QED
      BY <3>2, <3>7, <3>8, <3>9
  <2>2. CASE ~ (i + 1 <= k)
    BY <2>2
  <2> QED
    BY <2>1, <2>2
<1>3. Nat \subseteq G
  <2> HIDE DEF G
  <2> QED
    BY <1>1, <1>2, NaturalInduction
<1>4. k \in Nat /\ k <= k
  BY ScalarFacts
<1> QED
  BY <1>3, <1>4

(* Limbs within a bound weigh little more than the highest of them.        *)
LEMMA BoundBelow ==
  ASSUME NEW s \in Rows, NEW c \in Nat, NEW k \in Slots,
         \A j \in Slots : j <= k => Within(s[j], c)
  PROVE  Within(Below(s, k + 1), (2 * c) * Weight(k))
<1> DEFINE Good(i) == i <= k => Within(Below(s, i + 1), (2 * c) * Weight(i))
           G == {i \in Nat : Good(i)}
<1>1. 0 \in G
  <2>1. 0 \in Slots /\ 0 <= k /\ 0 + 1 = 1
    BY ScalarFacts DEF Slots
  <2>2. Below(s, 0 + 1) = Below(s, 0) + s[0] * Weight(0) /\ Below(s, 0) = 0 /\ Weight(0) = 1
    BY <2>1, BelowGrows, WeightFacts
  <2>3. Within(s[0], c)
    BY <2>1
  <2> QED
    BY <2>2, <2>3 DEF Within
<1>2. ASSUME NEW i \in Nat, i \in G PROVE i + 1 \in G
  <2>1. CASE i + 1 <= k
    <3>1. i + 1 \in Slots /\ i <= k
      BY <2>1, ScalarFacts DEF Slots
    <3> DEFINE w == Weight(i)
               x == s[i + 1]
               low == Below(s, i + 1)
    <3>2. Within(low, (2 * c) * w)
      BY <1>2, <3>1
    <3>3. Within(x, c)
      BY <2>1, <3>1
    <3>4. w \in Nat
      BY WeightIsNatural
    <3>5. Weight(i + 1) = w * Radix
      BY WeightFacts
    <3>6. Below(s, (i + 1) + 1) = low + x * Weight(i + 1)
      BY <3>1, BelowGrows
    <3> HIDE DEF w, x, low
    <3>7. w * Radix \in Nat /\ Radix \in Nat /\ Radix >= 2
      BY <3>4, ScalarFacts
    <3>8. x * (w * Radix) \in Int /\ Within(x * (w * Radix), c * (w * Radix))
      <4>1. Within(w * Radix, w * Radix)
        BY <3>7 DEF Within
      <4> QED
        BY <3>3, <3>7, <4>1, ProductWithin
    <3>9. (2 * c) * w <= c * (w * Radix) /\ c * (w * Radix) \in Nat
      <4>1. PICK y \in Nat : Radix = 2 + y
        <5>1. Radix - 2 \in Nat /\ Radix = 2 + (Radix - 2)
          BY <3>7
        <5> QED
          BY <5>1
      <4>2. c * (w * (2 + y)) = (2 * c) * w + c * (w * y)
        BY <3>4, <4>1
      <4>3. c * (w * y) \in Nat /\ (2 * c) * w \in Nat
        BY <3>4, <4>1
      <4> QED
        BY <4>1, <4>2, <4>3
    <3>10. (2 * c) * (w * Radix) = c * (w * Radix) + c * (w * Radix)
      BY <3>7
    <3>11. Within(low + x * (w * Radix), (2 * c) * (w * Radix))
      BY <3>2, <3>4, <3>8, <3>9, <3>10 DEF Within
    <3> QED
      BY <3>5, <3>6, <3>11
  <2>2. CASE ~ (i + 1 <= k)
    BY <2>2
  <2> QED
    BY <2>1, <2>2
<1>3. Nat \subseteq G
  <2> HIDE DEF G
  <2> QED
    BY <1>1, <1>2, NaturalInduction
<1>4. k \in Nat /\ k <= k
  BY ScalarFacts
<1> QED
  BY <1>3, <1>4

(* The bits of the limbs side by side are the number, cut.                 *)
LEMMA PackIsBelow ==
  ASSUME NEW s \in Rows
  PROVE  SL!Pack(s) = Below(s, n) % 2^(n * B + ExtraBits)
<1> DEFINE f == [i \in 0..(n - 1) |-> s[i] * 2^(B * i)]
           S == 0..(n - 1)
<1>1. SL!Pack(s) = SL!SumFunction(f) % 2^(n * B + ExtraBits)
  BY Zenon DEF SL!Pack
<1>2. DOMAIN f = S /\ S \subseteq Slots /\ IsFiniteSet(S)
  <2>1. S \subseteq Slots
    BY ScalarFacts DEF Slots
  <2>2. IsFiniteSet(S)
    BY <2>1, ScalarFacts, FS_Subset
  <2> QED
    BY <2>1, <2>2
<1>3. SL!SumFunction(f) = SumFunctionOnSet(f, S)
  BY <1>2, SumOfScalars, Zenon
<1>4. \A i \in S : f[i] = Weighed(s)[i] /\ Weighed(s)[i] \in Int
  <2> TAKE i \in S
  <2>1. i \in Slots /\ f[i] = s[i] * Weight(i)
    BY <1>2 DEF Weight
  <2> QED
    BY <2>1, AmountIsSum
<1> HIDE DEF f, S
<1>5. SumFunctionOnSet(f, S) = SumFunctionOnSet(Weighed(s), S)
  BY <1>2, <1>4, SumsEqual
<1> QED
  BY <1>1, <1>3, <1>5, Zenon DEF S, Below

(* A limb n that is folded down is taken l times.                          *)
LEMMA TopFolded ==
  ASSUME NEW t \in Rows, \A j \in Slots : j > n => t[j] = 0
  PROVE  /\ SL!FoldDown(t, n) \in Rows
         /\ \A j \in Slots : j >= n => SL!FoldDown(t, n)[j] = 0
         /\ t[n] \in Int /\ Amount(SL!FoldDown(t, n)) = Amount(t) - t[n] * SL!l
<1>1. /\ n \in n..(2 * n - 1) /\ n \in Slots /\ n \in Nat /\ n - n = 0 /\ Upper \in Nat
      /\ n = 2 * Upper /\ Upper > 0
  BY ScalarFacts DEF Slots
<1> DEFINE g == SL!FoldDown(t, n)
<1>2. /\ g \in Rows /\ g[n] = 0
      /\ \A j \in Slots : j # n =>
              g[j] = IF j - (n - n) \in 0..(Upper - 1) THEN t[j] + t[n] * Fold[j - (n - n)] ELSE t[j]
      /\ Amount(g) = Amount(t) - (t[n] * Weight(n - n)) * SL!l
  BY <1>1, FoldDownExact
<1> HIDE DEF g
<1>3. Weight(n - n) = 1
  <2>1. Weight(0) = 1
    BY WeightFacts
  <2> QED
    BY <1>1, <2>1
<1>4. t[n] \in Int /\ t[n] * 1 = t[n]
  BY <1>1 DEF Rows
<1>5. Amount(g) = Amount(t) - t[n] * SL!l
  BY <1>2, <1>3, <1>4
<1>6. ASSUME NEW j \in Slots, j >= n PROVE g[j] = 0
  <2>1. CASE j = n
    BY <1>2, <2>1
  <2>2. CASE j # n
    <3>1. j > n /\ ~ (j - (n - n) \in 0..(Upper - 1))
      BY <1>1, <1>6, <2>2, ScalarFacts
    <3> QED
      BY <1>2, <2>2, <3>1
  <2> QED
    BY <2>1, <2>2
<1> QED
  BY <1>2, <1>4, <1>5, <1>6 DEF g

(* The rounding chain and the first fold leave a number of n limbs, or a   *)
(* little less than zero.                                                  *)
LEMMA RoundedNarrow ==
  ASSUME n >= 4, NEW s \in Rows, \A j \in Slots : j >= n => s[j] = 0,
         NEW m \in Nat, 6 * (m + 2) <= Radix,
         \A j \in Slots : Within(s[j], (m * Radix) * Radix),
         NEW g, g = SL!FoldDown(SL!CarryEvenOdd(s, 0, n - 1), n)
  PROVE  /\ g \in Rows /\ \A j \in Slots : j >= n => g[j] = 0
         /\ \E q \in Int : Amount(g) = Amount(s) - q * SL!l
         /\ 0 - Weight(n) <= Amount(g) /\ Amount(g) < Weight(n)
<1> DEFINE t == SL!CarryEvenOdd(s, 0, n - 1)
           c == m * Radix + Radix
           w == Weight(n - 2)
           v == Weight(n - 1)
<1>1. /\ n \in Nat /\ n >= 4 /\ Upper \in Nat /\ n = 2 * Upper /\ Upper > 0 /\ Half \in Nat
      /\ Half > 0 /\ Radix = 2 * Half /\ Radix \in Nat /\ m < Half /\ 3 * (m + 1) < Half
  BY ScalarFacts
<1>2. Settles(t, s, 0, n - 1, m, 0)
  <2>1. /\ n - 1 \in Carriers /\ 0 <= n - 1 /\ 0 \in Nat /\ (n - 1) + 1 \in Slots
        /\ (n - 1) + 1 >= n
    BY <1>1 DEF Carriers, Slots
  <2>2. Within(s[(n - 1) + 1], 0)
    <3>1. s[(n - 1) + 1] = 0
      BY <2>1
    <3> QED
      BY <3>1 DEF Within
  <2>3. \A j \in 0..(n - 1) : Within(s[j], (m * Radix) * Radix)
    <3>1. 0..(n - 1) \subseteq Slots
      BY <1>1 DEF Slots
    <3> QED
      BY <3>1
  <2> QED
    BY <1>1, <2>1, <2>2, <2>3, CarryEvenOddSettles
<1> HIDE DEF t
<1>3. /\ t \in Rows /\ Amount(t) = Amount(s)
      /\ \A j \in Slots : j > n => t[j] = 0
      /\ \A j \in 0..(n - 1) : Within(t[j], c)
      /\ Within(t[n], m * Radix + m)
      /\ 0 - Half <= t[n - 1] /\ t[n - 1] < Half
  <2>1. /\ t \in Rows /\ Amount(t) = Amount(s)
        /\ \A j \in Slots : j < 0 \/ j > (n - 1) + 1 => t[j] = s[j]
        /\ \A j \in 0..(n - 1) : Within(t[j], c)
        /\ Within(t[(n - 1) + 1], 0 + m * Radix + m)
        /\ (((n - 1) - 0) % 2 = 1 => 0 - Half <= t[n - 1] /\ t[n - 1] < Half)
    BY <1>2 DEF Settles
  <2>2. (n - 1) + 1 = n /\ 0 + m * Radix + m = m * Radix + m /\ ((n - 1) - 0) % 2 = 1
    <3>1. (n - 1) + 1 = n /\ 0 + m * Radix + m = m * Radix + m
      BY <1>1
    <3>2. ((n - 1) - 0) % 2 = 1
      BY <1>1
    <3> QED
      BY <3>1, <3>2
  <2>3. \A j \in Slots : j > n => t[j] = 0
    <3> TAKE j \in Slots
    <3> HAVE j > n
    <3>1. j > (n - 1) + 1 /\ j >= n
      BY <1>1, ScalarFacts
    <3> QED
      BY <2>1, <3>1
  <2>4. Within(t[n], m * Radix + m)
    BY <2>1, <2>2
  <2>5. 0 - Half <= t[n - 1] /\ t[n - 1] < Half
    BY <2>1, <2>2
  <2> QED
    BY <2>1, <2>3, <2>4, <2>5
<1>4. /\ g \in Rows /\ (\A j \in Slots : j >= n => g[j] = 0)
      /\ t[n] \in Int /\ Amount(g) = Amount(t) - t[n] * SL!l
  <2>1. g = SL!FoldDown(t, n)
    BY DEF t
  <2> QED
    BY <1>3, <2>1, TopFolded
<1>5. /\ w \in Nat /\ v \in Nat /\ v > 0 /\ v = w * Radix
      /\ Weight(n) = v * Radix /\ Weight(n) \in Nat
  <2>1. n - 2 \in Nat /\ n - 1 \in Nat /\ (n - 2) + 1 = n - 1 /\ (n - 1) + 1 = n
    BY <1>1
  <2>2. Weight((n - 2) + 1) = w * Radix /\ Weight((n - 1) + 1) = v * Radix
    BY <2>1, WeightFacts
  <2>3. w \in Nat /\ v \in Nat /\ v > 0 /\ Weight(n) \in Nat
    BY <1>1, <2>1, WeightIsNatural
  <2> QED
    BY <2>1, <2>2, <2>3
<1>6. Within(Weight(n) - SL!l, w)
  <2>1. Weight(n) < SL!l /\ SL!l < Weight(n) + Weight(Upper) /\ SL!l \in Nat
    BY OrderFacts
  <2>2. Weight(Upper) <= w /\ Weight(Upper) \in Nat
    <3>1. Upper <= n - 2 /\ n - 2 \in Nat
      BY <1>1
    <3> QED
      BY <1>1, <3>1, WeightsGrow, WeightIsNatural
  <2> QED
    BY <1>5, <2>1, <2>2 DEF Within
<1>7. Amount(t) = Below(t, n - 1) + t[n - 1] * v + t[n] * Weight(n)
  <2>1. n + 1 \in 0..(2 * n) /\ \A j \in Slots : j >= n + 1 => t[j] = 0
    <3>1. \A j \in Slots : j >= n + 1 => j > n
      BY <1>1, ScalarFacts
    <3> QED
      BY <1>1, <1>3, <3>1
  <2>2. Amount(t) = Below(t, n + 1)
    BY <1>3, <2>1, AmountIsBelow
  <2>3. n \in Slots /\ n - 1 \in Slots /\ (n - 1) + 1 = n
    BY <1>1 DEF Slots
  <2>4. Below(t, n + 1) = Below(t, n) + t[n] * Weight(n)
    BY <1>3, <2>3, BelowGrows
  <2>5. Below(t, (n - 1) + 1) = Below(t, n - 1) + t[n - 1] * v
    BY <1>3, <2>3, BelowGrows
  <2> QED
    BY <2>2, <2>3, <2>4, <2>5
<1>8. Within(Below(t, n - 1), (2 * (m + 1)) * v)
  <2>1. n - 2 \in Slots /\ (n - 2) + 1 = n - 1 /\ \A j \in Slots : j <= n - 2 => j \in 0..(n - 1)
    BY <1>1, ScalarFacts DEF Slots
  <2>2. c \in Nat /\ \A j \in Slots : j <= n - 2 => Within(t[j], c)
    BY <1>1, <1>3, <2>1
  <2> HIDE DEF c, w
  <2>3. Within(Below(t, (n - 2) + 1), (2 * c) * Weight(n - 2))
    BY <1>3, <2>1, <2>2, BoundBelow
  <2>4. (2 * c) * w = (2 * (m + 1)) * v
    <3>1. c = (m + 1) * Radix
      BY <1>1 DEF c
    <3> QED
      BY <1>1, <1>5, <3>1
  <2> QED
    BY <2>1, <2>3, <2>4 DEF w
<1>9. Within(t[n] * (Weight(n) - SL!l), (m + 1) * v) /\ t[n] * (Weight(n) - SL!l) \in Int
  <2>1. Within(t[n], c) /\ c \in Nat
    BY <1>1, <1>3 DEF Within
  <2> HIDE DEF c, w
  <2>2. /\ t[n] * (Weight(n) - SL!l) \in Int
        /\ Within(t[n] * (Weight(n) - SL!l), c * w)
    BY <1>5, <1>6, <2>1, ProductWithin
  <2>3. c * w = (m + 1) * v
    <3>1. c = (m + 1) * Radix
      BY <1>1 DEF c
    <3> QED
      BY <1>1, <1>5, <3>1
  <2> QED
    BY <2>2, <2>3
<1>10. Amount(g) = Below(t, n - 1) + t[n - 1] * v + t[n] * (Weight(n) - SL!l)
  <2>1. SL!l \in Int /\ Weight(n) \in Int /\ t[n] \in Int /\ t[n - 1] * v \in Int
    <3>1. t[n - 1] \in Int
      <4>1. n - 1 \in Slots
        BY <1>1 DEF Slots
      <4> QED
        BY <1>3, <4>1 DEF Rows
    <3> QED
      BY <1>4, <1>5, <3>1, OrderFacts
  <2>2. t[n] * (Weight(n) - SL!l) = t[n] * Weight(n) - t[n] * SL!l
    BY <2>1
  <2>3. Below(t, n - 1) \in Int /\ t[n] * Weight(n) \in Int /\ t[n] * SL!l \in Int
    BY <1>8, <2>1 DEF Within
  <2> QED
    BY <1>4, <1>7, <2>1, <2>2, <2>3
<1>11. /\ t[n - 1] * v \in Int /\ 0 - Half * v <= t[n - 1] * v
       /\ t[n - 1] * v <= Half * v - v
  <2> DEFINE x == t[n - 1]
  <2>1. x \in Int /\ 0 - Half <= x /\ x < Half
    <3>1. n - 1 \in Slots
      BY <1>1 DEF Slots
    <3> QED
      BY <1>3, <3>1 DEF Rows
  <2> HIDE DEF x, v
  <2>2. PICK y \in Nat, z \in Nat : y = x + Half /\ z = (Half - 1) - x
    <3>1. x + Half \in Nat /\ (Half - 1) - x \in Nat
      BY <1>1, <2>1
    <3> QED
      BY <3>1
  <2>3. y * v >= 0 /\ z * v >= 0
    BY <1>5, <2>2
  <2>4. y * v = x * v + Half * v /\ z * v = Half * v - v - x * v
    BY <1>1, <1>5, <2>1, <2>2
  <2>5. x * v \in Int /\ Half * v \in Int
    BY <1>1, <1>5, <2>1
  <2> QED
    BY <1>5, <2>3, <2>4, <2>5 DEF x
<1>12. /\ (2 * (m + 1)) * v + (m + 1) * v <= Half * v /\ Half * v + Half * v = v * Radix
       /\ (2 * (m + 1)) * v \in Int /\ (m + 1) * v \in Int /\ Half * v \in Int
  <2> HIDE DEF v
  <2>1. (2 * (m + 1)) * v + (m + 1) * v = (3 * (m + 1)) * v
    BY <1>5
  <2>2. PICK y \in Nat : Half = 3 * (m + 1) + y
    <3>1. Half - 3 * (m + 1) \in Nat
      BY <1>1
    <3> QED
      BY <1>1, <3>1
  <2>3. Half * v = (3 * (m + 1)) * v + y * v /\ y * v >= 0
    BY <1>5, <2>2
  <2>4. Half * v + Half * v = v * Radix
    BY <1>1, <1>5
  <2>5. (2 * (m + 1)) * v \in Int /\ (m + 1) * v \in Int /\ Half * v \in Int /\ y * v \in Int
        /\ (3 * (m + 1)) * v \in Int
    BY <1>1, <1>5, <2>2
  <2> QED
    BY <2>1, <2>3, <2>4, <2>5
<1>13. 0 - Weight(n) <= Amount(g) /\ Amount(g) < Weight(n)
  <2> HIDE DEF v
  <2> QED
    BY <1>5, <1>8, <1>9, <1>10, <1>11, <1>12 DEF Within
<1>14. \E q \in Int : Amount(g) = Amount(s) - q * SL!l
  BY <1>3, <1>4
<1> QED
  BY <1>4, <1>13, <1>14

(* The quotient of a number within one position of zero.                   *)
LEMMA TopDigit ==
  ASSUME NEW low \in Int, NEW w \in Nat, 0 <= low, low < w, NEW top \in Int,
         0 - w <= low + top * w, low + top * w < w
  PROVE  /\ low + top * w >= 0 => top = 0
         /\ low + top * w < 0 => top = 0 - 1
<1>1. ~ (top >= 1)
  <2> SUFFICES ASSUME top >= 1 PROVE FALSE
    OBVIOUS
  <2>1. PICK y \in Nat : top = 1 + y
    <3>1. top - 1 \in Nat /\ top = 1 + (top - 1)
      OBVIOUS
    <3> QED
      BY <3>1
  <2>2. top * w = w + y * w /\ y * w >= 0 /\ y * w \in Int
    BY <2>1
  <2> QED
    BY <2>2
<1>2. ~ (top <= 0 - 2)
  <2> SUFFICES ASSUME top <= 0 - 2 PROVE FALSE
    OBVIOUS
  <2>1. PICK y \in Nat : top = 0 - 2 - y
    <3>1. (0 - 2) - top \in Nat /\ top = 0 - 2 - ((0 - 2) - top)
      OBVIOUS
    <3> QED
      BY <3>1
  <2>2. top * w = 0 - 2 * w - y * w /\ y * w >= 0 /\ y * w \in Int
    BY <2>1
  <2> QED
    BY <2>2
<1>3. top = 0 \/ top = 0 - 1
  BY <1>1, <1>2
<1>4. ASSUME top = 0 PROVE top * w = 0
  BY <1>4
<1>5. ASSUME top = 0 - 1 PROVE top * w = 0 - w
  BY <1>5
<1> QED
  BY <1>3, <1>4, <1>5

(* A chain of floors over n or n - 1 limbs of a row that has no more.      *)
LEMMA FloorsOfLower ==
  ASSUME NEW s \in Rows, \A j \in Slots : j >= n => s[j] = 0,
         NEW b \in {n - 2, n - 1},
         NEW t, t = SL!FoldLeft(SL!CarryFloor, s, SL!From(0, b, 1))
  PROVE  /\ t \in Rows /\ Amount(t) = Amount(s)
         /\ \A j \in Slots : j <= b => 0 <= t[j] /\ t[j] < Radix
         /\ \A j \in Slots : j > b + 1 => t[j] = 0
<1>1. n \in Nat /\ n >= 2 /\ b \in Carriers /\ b \in Nat /\ b + 1 >= n - 1
  BY ScalarFacts DEF Carriers
<1>2. Floored(t, s, b + 1)
  BY <1>1, FloorsExact
<1>3. /\ t \in Rows /\ Amount(t) = Amount(s)
      /\ \A j \in Slots : j < b + 1 => 0 <= t[j] /\ t[j] < Radix
      /\ \A j \in Slots : j > b + 1 => t[j] = s[j]
  BY <1>2 DEF Floored
<1>4. \A j \in Slots : j \in Nat
  BY ScalarFacts
<1>5. \A j \in Slots : (j <= b => j < b + 1) /\ (j > b + 1 => j >= n)
  BY <1>1, <1>4
<1> QED
  BY <1>3, <1>5

(* The answer is a remainder, and fits its bytes. *)
LEMMA RemainderFits ==
  ASSUME NEW x \in Int, 0 <= x, x < SL!l
  PROVE  x % 2^(n * B + ExtraBits) = x /\ x % SL!l = x
<1>1. /\ n \in Nat /\ n > 0 /\ B \in Nat /\ ExtraBits \in Nat /\ ExtraBits > 0
      /\ Upper \in Nat /\ Upper <= n
  BY ScalarFacts
<1>2. SL!l \in Nat /\ SL!l < Weight(n) + Weight(Upper)
  BY OrderFacts
<1>3. Weight(Upper) <= Weight(n)
  BY <1>1, WeightsGrow
<1>4. Weight(n) \in Nat /\ Weight(Upper) \in Nat
  BY <1>1, WeightIsNatural
<1> DEFINE size == 2^(n * B + ExtraBits)
<1>5. Weight(n) + Weight(n) <= size /\ size \in Nat
  <2> DEFINE k == n * B
  <2>1. k \in Nat /\ B * n = k
    BY <1>1
  <2>2. Weight(n) = 2^k
    BY <2>1, Zenon DEF Weight
  <2> HIDE DEF k
  <2>3. 2^(k + 1) = 2^k + 2^k
    BY <2>1, PowerSuccessor
  <2>4. k + 1 <= k + ExtraBits /\ k + 1 \in Nat /\ k + ExtraBits \in Nat
    BY <1>1, <2>1
  <2>5. 2^(k + 1) <= 2^(k + ExtraBits)
    BY <2>4, PowersGrow
  <2>6. 2^(k + ExtraBits) \in Nat
    BY <2>4, PowerPositive
  <2>7. size = 2^(k + ExtraBits)
    BY Zenon DEF k
  <2> HIDE DEF size
  <2> QED
    BY <2>2, <2>3, <2>5, <2>6, <2>7
<1> HIDE DEF size
<1>6. x \in Nat /\ x < size
  BY <1>2, <1>3, <1>4, <1>5
<1>7. x % size = x
  BY <1>5, <1>6
<1>8. x % SL!l = x
  BY <1>2, <1>6
<1> QED
  BY <1>7, <1>8 DEF size

(* The common tail: the number modulo l, in its one form below l.          *)
LEMMA NormalisedExact ==
  ASSUME n >= 4, NEW s \in Rows, \A j \in Slots : j >= n => s[j] = 0,
         NEW m \in Nat, 6 * (m + 2) <= Radix,
         \A j \in Slots : Within(s[j], (m * Radix) * Radix)
  PROVE  SL!Pack(SL!Normalised(s)) = Amount(s) % SL!l
<1> DEFINE r == SL!FoldDown(SL!CarryEvenOdd(s, 0, n - 1), n)
           u == SL!FoldLeft(SL!CarryFloor, r, SL!From(0, n - 1, 1))
           o == SL!FoldDown(u, n)
           v == SL!FoldLeft(SL!CarryFloor, o, SL!From(0, n - 2, 1))
<1>1. SL!Normalised(s) = v
  BY Zenon DEF SL!Normalised
<1>2. /\ r \in Rows /\ \A j \in Slots : j >= n => r[j] = 0
      /\ \E q \in Int : Amount(r) = Amount(s) - q * SL!l
      /\ 0 - Weight(n) <= Amount(r) /\ Amount(r) < Weight(n)
  BY RoundedNarrow
<1> HIDE DEF r
<1>3. n \in Nat /\ n >= 4 /\ n \in Slots /\ (n - 1) + 1 = n /\ (n - 2) + 1 = n - 1
  BY ScalarFacts DEF Slots
<1>4. /\ u \in Rows /\ Amount(u) = Amount(r)
      /\ \A j \in Slots : j <= n - 1 => 0 <= u[j] /\ u[j] < Radix
      /\ \A j \in Slots : j > (n - 1) + 1 => u[j] = 0
  BY <1>2, FloorsOfLower
<1> HIDE DEF u
<1>5. \A j \in Slots : (j > n => u[j] = 0) /\ (j < n => 0 <= u[j] /\ u[j] < Radix)
  <2>1. \A j \in Slots : j \in Nat
    BY ScalarFacts
  <2>2. \A j \in Slots : (j > n => j > (n - 1) + 1) /\ (j < n => j <= n - 1)
    BY <1>3, <2>1
  <2> QED
    BY <1>4, <2>2
<1>6. /\ o \in Rows /\ \A j \in Slots : j >= n => o[j] = 0
      /\ u[n] \in Int /\ Amount(o) = Amount(u) - u[n] * SL!l
  BY <1>4, <1>5, TopFolded
<1> HIDE DEF o
<1>7. /\ v \in Rows /\ Amount(v) = Amount(o)
      /\ \A j \in Slots : j > (n - 2) + 1 => v[j] = 0
  BY <1>6, FloorsOfLower
<1> HIDE DEF v
<1>8. Amount(r) = Below(u, n) + u[n] * Weight(n)
  <2>1. n + 1 \in 0..(2 * n) /\ \A j \in Slots : j >= n + 1 => j > n
    BY <1>3, ScalarFacts
  <2>2. Amount(u) = Below(u, n + 1)
    BY <1>4, <1>5, <2>1, AmountIsBelow
  <2>3. Below(u, n + 1) = Below(u, n) + u[n] * Weight(n)
    BY <1>3, <1>4, BelowGrows
  <2> QED
    BY <1>4, <2>2, <2>3
<1>9. Below(u, n) \in Int /\ 0 <= Below(u, n) /\ Below(u, n) < Weight(n)
  <2>1. n \in 0..(2 * n)
    BY <1>3
  <2> QED
    BY <1>4, <1>5, <2>1, DigitsBelow
<1>10. /\ SL!l \in Nat /\ Weight(n) < SL!l /\ Weight(n) \in Nat
  BY <1>3, OrderFacts, WeightIsNatural
<1>11. 0 <= Amount(o) /\ Amount(o) < SL!l /\ Amount(o) \in Int /\ Amount(r) \in Int
  <2>1. Amount(o) \in Int /\ Amount(r) \in Int
    BY <1>2, <1>6, AmountIsSum
  <2>2. /\ (Amount(r) >= 0 => u[n] = 0)
        /\ (Amount(r) < 0 => u[n] = 0 - 1)
    BY <1>2, <1>6, <1>8, <1>9, <1>10, TopDigit
  <2>3. CASE Amount(r) >= 0
    <3>1. u[n] * SL!l = 0
      BY <1>10, <2>2, <2>3
    <3> QED
      BY <1>2, <1>4, <1>6, <1>10, <2>1, <2>3, <3>1
  <2>4. CASE Amount(r) < 0
    <3>1. u[n] * SL!l = 0 - SL!l
      BY <1>10, <2>2, <2>4
    <3> QED
      BY <1>2, <1>4, <1>6, <1>10, <2>1, <2>4, <3>1
  <2> QED
    BY <2>1, <2>3, <2>4
<1>12. SL!Pack(v) = Amount(o)
  <2>1. n \in 0..(2 * n) /\ \A j \in Slots : j >= n => v[j] = 0
    <3>1. \A j \in Slots : j >= n => j > (n - 2) + 1
      BY <1>3, ScalarFacts
    <3> QED
      BY <1>3, <1>7, <3>1
  <2>2. Amount(v) = Below(v, n)
    BY <1>7, <2>1, AmountIsBelow
  <2>3. SL!Pack(v) = Amount(o) % 2^(n * B + ExtraBits)
    BY <1>7, <2>2, PackIsBelow
  <2> QED
    BY <1>11, <2>3, RemainderFits
<1>13. Congruent(Amount(o), Amount(s), SL!l)
  <2>1. PICK q \in Int : Amount(r) = Amount(s) - q * SL!l
    BY <1>2
  <2>2. Amount(s) \in Int
    BY AmountIsSum
  <2>3. PICK k \in Int : k = 0 - q - u[n]
    BY <1>6
  <2>4. SL!l * k = 0 - q * SL!l - u[n] * SL!l /\ q * SL!l \in Int /\ u[n] * SL!l \in Int
    BY <1>6, <1>10, <2>3
  <2>5. Amount(o) = Amount(s) + SL!l * k
    BY <1>4, <1>6, <2>1, <2>2, <2>4
  <2> QED
    BY <2>3, <2>5 DEF Congruent
<1>14. Amount(o) % SL!l = Amount(s) % SL!l
  <2>1. Amount(s) \in Int /\ SL!l > 0
    BY <1>10, AmountIsSum
  <2> QED
    BY <1>10, <1>11, <1>13, <2>1, CongruentRemainders
<1>15. Amount(o) % SL!l = Amount(o)
  BY <1>11, RemainderFits
<1> QED
  BY <1>1, <1>12, <1>14, <1>15

(* How far limbs grow, in units of the radix: when the products of mulsub  *)
(* have been carried, and, in units of its square, when the upper half has *)
(* been folded.  The room they need is half a limb.                        *)
Crowd == n * 2^(2 * ExtraBits) + 2
FoldedCrowd == (Upper + 1) * Crowd
HalvedCrowd == FoldedCrowd + Upper * (Crowd + FoldedCrowd + 1)
RoomyLimbs == n >= 4 /\ 6 * (HalvedCrowd + 2) <= 2^B

(* The bounds are numbers, and in order. *)
LEMMA CrowdFacts ==
  ASSUME RoomyLimbs
  PROVE  /\ n >= 4 /\ Crowd \in Nat /\ Crowd >= 2 /\ FoldedCrowd \in Nat
         /\ Crowd <= FoldedCrowd /\ HalvedCrowd \in Nat /\ FoldedCrowd < HalvedCrowd
         /\ HalvedCrowd < Half /\ FoldedCrowd < Half /\ 6 * (HalvedCrowd + 2) <= Radix
         /\ FoldedCrowd = (Upper + 1) * Crowd
         /\ HalvedCrowd = FoldedCrowd + Upper * (Crowd + FoldedCrowd + 1)
<1>1. /\ n \in Nat /\ Upper \in Nat /\ Upper > 0 /\ ExtraBits \in Nat /\ Half \in Nat
      /\ Radix \in Nat /\ Radix = 2 * Half
  BY ScalarFacts
<1>2. Crowd \in Nat /\ Crowd >= 2
  <2>1. 2 * ExtraBits \in Nat
    BY <1>1
  <2>2. 2^(2 * ExtraBits) \in Nat
    BY <2>1, PowerPositive
  <2>3. n * 2^(2 * ExtraBits) \in Nat
    BY <1>1, <2>2
  <2> QED
    BY <2>3 DEF Crowd
<1>3. FoldedCrowd \in Nat /\ Crowd <= FoldedCrowd
  <2>1. FoldedCrowd = Upper * Crowd + Crowd /\ Upper * Crowd \in Nat
    BY <1>1, <1>2 DEF FoldedCrowd
  <2> QED
    BY <1>2, <2>1
<1>4. HalvedCrowd \in Nat /\ FoldedCrowd < HalvedCrowd
  <2>1. PICK y \in Nat : y = Crowd + FoldedCrowd + 1 /\ y > 0
    BY <1>2, <1>3
  <2>2. Upper * y \in Nat /\ Upper * y > 0
    BY <1>1, <2>1
  <2>3. HalvedCrowd = FoldedCrowd + Upper * y
    BY <2>1 DEF HalvedCrowd
  <2> QED
    BY <1>3, <2>2, <2>3
<1>5. n >= 4 /\ 6 * (HalvedCrowd + 2) <= Radix
  BY DEF RoomyLimbs, Radix
<1> QED
  BY <1>1, <1>2, <1>3, <1>4, <1>5 DEF FoldedCrowd, HalvedCrowd

(* Two radices are more than one. *)
LEMMA SquareIsMore ==
  ASSUME NEW m \in Nat
  PROVE  /\ m * Radix \in Nat /\ (m * Radix) * Radix \in Nat
         /\ m * Radix <= (m * Radix) * Radix
         /\ m * Radix + m * Radix <= (m * Radix) * Radix
<1>1. PICK y \in Nat : Radix = 2 + y
  <2>1. Radix - 2 \in Nat /\ Radix = 2 + (Radix - 2)
    BY ScalarFacts
  <2> QED
    BY <2>1
<1>2. m * Radix \in Nat /\ Radix \in Nat
  BY <1>1
<1> DEFINE x == m * Radix
<1> HIDE DEF x
<1>3. x \in Nat
  BY <1>2 DEF x
<1>4. x * Radix = 2 * x + x * y /\ x * y \in Nat
  BY <1>1, <1>3
<1> QED
  BY <1>3, <1>4 DEF x

(* From 2n limbs to n: the same number modulo l, in limbs that have room.  *)
LEMMA HalvedExact ==
  ASSUME RoomyLimbs, NEW s \in Rows, \A j \in Slots : Within(s[j], Crowd * Radix)
  PROVE  /\ SL!Halved(s) \in Rows /\ Congruent(Amount(SL!Halved(s)), Amount(s), SL!l)
         /\ \A j \in Slots : j >= n => SL!Halved(s)[j] = 0
         /\ \A j \in Slots : Within(SL!Halved(s)[j], (HalvedCrowd * Radix) * Radix)
<1> DEFINE z == Crowd
           f == FoldedCrowd
           x == SL!FoldLeft(SL!FoldDown, s, SL!Down(2 * n - 1, n + Upper))
           y == SL!CarryEvenOdd(x, Upper, n + Upper - 2)
           t == SL!FoldLeft(SL!FoldDown, y, SL!Down(n + Upper - 1, n))
           zR == z * Radix
           fR == f * Radix
           fRR == fR * Radix
           M == (z + f + 1) * Radix
<1>1. SL!Halved(s) = t
  BY Zenon DEF SL!Halved, Upper
<1>2. /\ n \in Nat /\ n >= 4 /\ Upper \in Nat /\ n = 2 * Upper /\ Upper >= 2
      /\ Half \in Nat /\ Half > 0 /\ Radix \in Nat /\ Radix = 2 * Half
      /\ \A j \in Slots : j \in Nat /\ j <= 2 * n - 1
  BY ScalarFacts, CrowdFacts DEF Slots
<1>3. /\ z \in Nat /\ z >= 2 /\ f \in Nat /\ z <= f /\ f < Half /\ HalvedCrowd \in Nat
      /\ f = (Upper + 1) * z /\ HalvedCrowd = f + Upper * (z + f + 1)
  BY CrowdFacts
<1> HIDE DEF x, y, t, z, f
<1>4. /\ zR \in Nat /\ fR \in Nat /\ fRR \in Nat /\ M \in Nat
      /\ M = zR + fR + Radix /\ fR + Radix <= fRR
  <2>1. zR \in Nat /\ fR \in Nat /\ M \in Nat /\ M = zR + fR + Radix
    BY <1>2, <1>3
  <2>2. fRR \in Nat /\ fR + fR <= fRR
    BY <1>3, SquareIsMore
  <2>3. Radix <= fR
    <3>1. PICK k \in Nat : f = 1 + k
      <4>1. f - 1 \in Nat /\ f = 1 + (f - 1)
        BY <1>3
      <4> QED
        BY <4>1
    <3>2. f * Radix = Radix + k * Radix /\ k * Radix \in Nat
      BY <1>2, <3>1
    <3> QED
      BY <1>2, <3>2
  <2> HIDE DEF fR, fRR, zR, M
  <2> QED
    BY <1>2, <2>1, <2>2, <2>3
<1>5. Folding(x, s, n + Upper, 2 * n - 1, Upper, zR * Half)
  <2>1. /\ n + Upper \in Nat /\ 2 * n - 1 \in Nat /\ n + Upper >= n
        /\ 2 * n - 1 = (n + Upper) + Upper - 1 /\ 2 * n - 1 \in Slots
    BY <1>2 DEF Slots
  <2>2. \A j \in (n + Upper)..(2 * n - 1) : Within(s[j], zR)
    <3>1. (n + Upper)..(2 * n - 1) \subseteq Slots
      BY <1>2 DEF Slots
    <3> QED
      BY <3>1 DEF z
  <2> HIDE DEF zR
  <2> QED
    BY <1>4, <2>1, <2>2, FoldingExact DEF x
<1>6. /\ x \in Rows /\ Congruent(Amount(x), Amount(s), SL!l)
      /\ x[n + Upper - 1] = s[n + Upper - 1]
      /\ \A j \in Slots : j >= n + Upper => x[j] = 0
      /\ \A j \in Slots : j < n + Upper => Within(x[j] - s[j], Upper * (zR * Half))
  <2> DEFINE b == n + Upper
             a == 2 * n - 1
  <2>1. /\ x \in Rows /\ Congruent(Amount(x), Amount(s), SL!l)
        /\ \A j \in Slots : j > a \/ (b - 1 <= j /\ j <= a - Upper) => x[j] = s[j]
        /\ \A j \in Slots : a - Upper < j /\ j <= a => x[j] = 0
        /\ \A j \in Slots : j < b => Within(x[j] - s[j], Upper * (zR * Half))
    BY <1>5 DEF Folding
  <2>2. b - 1 \in Slots /\ b - 1 <= a - Upper
    BY <1>2 DEF Slots
  <2>3. x[b - 1] = s[b - 1]
    BY <1>2, <2>1, <2>2
  <2>4. \A j \in Slots : j >= b => a - Upper < j /\ j <= a
    BY <1>2
  <2>5. \A j \in Slots : j >= b => x[j] = 0
    BY <2>1, <2>4
  <2>6. x[n + Upper - 1] = s[n + Upper - 1]
    <3>1. b - 1 = n + Upper - 1
      BY <1>2
    <3> QED
      BY <2>3, <3>1
  <2>7. \A j \in Slots : j >= n + Upper => x[j] = 0
    BY <2>5
  <2>8. \A j \in Slots : j < n + Upper => Within(x[j] - s[j], Upper * (zR * Half))
    BY <2>1
  <2> QED
    BY <2>1, <2>6, <2>7, <2>8
<1>7. \A j \in Slots : s[j] \in Int /\ x[j] \in Int /\ Within(s[j], zR)
  BY <1>6 DEF Rows, z
<1>8. \A j \in Slots : Within(x[j], fRR)
  <2> TAKE j \in Slots
  <2>1. zR + Upper * (zR * Half) <= fRR /\ Upper * (zR * Half) \in Nat
    <3>1. fR = Upper * zR + zR
      BY <1>2, <1>3
    <3> HIDE DEF zR, fR
    <3>2. fRR = (Upper * zR) * (2 * Half) + zR * (2 * Half)
      BY <1>2, <1>4, <3>1
    <3>3. PICK k \in Nat : Half = 1 + k
      <4>1. Half - 1 \in Nat /\ Half = 1 + (Half - 1)
        BY <1>2
      <4> QED
        BY <4>1
    <3>4. PICK p1 \in Nat, p2 \in Nat : p1 = Upper * (zR * Half) /\ p2 = zR * k
      BY <1>2, <1>4, <3>3
    <3>5. (Upper * zR) * (2 * Half) = 2 * p1
      BY <1>2, <1>4, <3>4
    <3>6. zR * (2 * Half) = 2 * zR + 2 * p2
      BY <1>2, <1>4, <3>3, <3>4
    <3> HIDE DEF fRR
    <3> QED
      BY <1>4, <3>2, <3>4, <3>5, <3>6
  <2>2. CASE j < n + Upper
    <3>1. Within(x[j] - s[j], Upper * (zR * Half))
      BY <1>6, <2>2
    <3> DEFINE p1 == Upper * (zR * Half)
    <3> HIDE DEF zR, fRR, p1
    <3>2. Within(x[j] - s[j], p1) /\ zR + p1 <= fRR /\ p1 \in Nat
      BY <2>1, <3>1 DEF p1
    <3> QED
      BY <1>4, <1>7, <3>2 DEF Within
  <2>3. CASE ~ (j < n + Upper)
    <3>1. x[j] = 0
      BY <1>2, <1>6, <2>3
    <3> HIDE DEF fRR
    <3> QED
      BY <1>4, <3>1 DEF Within
  <2> QED
    BY <2>2, <2>3
<1>9. Settles(y, x, Upper, n + Upper - 2, f, zR)
  <2>1. /\ n + Upper - 2 \in Carriers /\ Upper \in Nat /\ Upper <= n + Upper - 2
        /\ (n + Upper - 2) + 1 = n + Upper - 1 /\ n + Upper - 1 \in Slots
        /\ Upper..(n + Upper - 2) \subseteq Slots
    BY <1>2 DEF Carriers, Slots
  <2>2. \A j \in Upper..(n + Upper - 2) : Within(x[j], (f * Radix) * Radix)
    BY <1>8, <2>1
  <2>3. Within(x[(n + Upper - 2) + 1], zR)
    BY <1>6, <1>7, <2>1
  <2> HIDE DEF zR
  <2> QED
    BY <1>3, <1>4, <1>6, <2>1, <2>2, <2>3, CarryEvenOddSettles DEF y
<1>10. /\ y \in Rows /\ Amount(y) = Amount(x)
       /\ \A j \in Slots : j < Upper \/ j > n + Upper - 1 => y[j] = x[j]
       /\ \A j \in Upper..(n + Upper - 2) : Within(y[j], fR + Radix)
       /\ Within(y[n + Upper - 1], zR + fR + f)
  <2>1. (n + Upper - 2) + 1 = n + Upper - 1
    BY <1>2
  <2>2. /\ y \in Rows /\ Amount(y) = Amount(x)
        /\ \A j \in Slots : j < Upper \/ j > (n + Upper - 2) + 1 => y[j] = x[j]
        /\ \A j \in Upper..(n + Upper - 2) : Within(y[j], f * Radix + Radix)
        /\ Within(y[(n + Upper - 2) + 1], zR + f * Radix + f)
    BY <1>9 DEF Settles
  <2> QED
    BY <2>1, <2>2
<1> HIDE DEF zR, fR, fRR, M
<1>11. \A j \in Slots : y[j] \in Int
  BY <1>10 DEF Rows
<1>12. \A j \in n..(n + Upper - 1) : Within(y[j], M)
  <2> TAKE j \in n..(n + Upper - 1)
  <2>1. j \in Slots /\ j \in Nat
    BY <1>2 DEF Slots
  <2>2. CASE j = n + Upper - 1
    <3>1. f <= Radix
      BY <1>2, <1>3
    <3> QED
      BY <1>2, <1>3, <1>4, <1>10, <1>11, <2>1, <2>2, <3>1 DEF Within
  <2>3. CASE j # n + Upper - 1
    <3>1. j \in Upper..(n + Upper - 2)
      BY <1>2, <2>1, <2>3
    <3> QED
      BY <1>2, <1>4, <1>10, <1>11, <2>1, <3>1 DEF Within
  <2> QED
    BY <2>2, <2>3
<1>13. Folding(t, y, n, n + Upper - 1, Upper, M * Half)
  <2>1. n + Upper - 1 \in Nat /\ n >= n /\ n + Upper - 1 \in Slots
    BY <1>2 DEF Slots
  <2> QED
    BY <1>2, <1>4, <1>10, <1>12, <2>1, FoldingExact DEF t
<1>14. /\ t \in Rows /\ Congruent(Amount(t), Amount(y), SL!l)
       /\ \A j \in Slots : j > n + Upper - 1 => t[j] = y[j]
       /\ \A j \in Slots : n <= j /\ j <= n + Upper - 1 => t[j] = 0
       /\ \A j \in Slots : j < n => Within(t[j] - y[j], Upper * (M * Half))
  <2>1. \A j \in Slots : n <= j => (n + Upper - 1) - Upper < j
    BY <1>2
  <2> QED
    BY <1>13, <2>1 DEF Folding
<1>15. \A j \in Slots : j >= n => t[j] = 0
  <2> TAKE j \in Slots
  <2> HAVE j >= n
  <2>1. CASE j <= n + Upper - 1
    BY <1>14, <2>1
  <2>2. CASE j > n + Upper - 1
    <3>1. j >= n + Upper
      BY <1>2, <2>2
    <3> QED
      BY <1>6, <1>10, <1>14, <2>2, <3>1
  <2> QED
    BY <1>2, <2>1, <2>2
<1>16. \A j \in Slots : j < n => Within(y[j], fRR)
  <2> TAKE j \in Slots
  <2> HAVE j < n
  <2>1. CASE j < Upper
    BY <1>8, <1>10, <2>1
  <2>2. CASE j >= Upper
    <3>1. j \in Upper..(n + Upper - 2)
      BY <1>2, <2>2
    <3> QED
      BY <1>2, <1>4, <1>10, <1>11, <3>1 DEF Within
  <2> QED
    BY <1>2, <2>1, <2>2
<1> DEFINE hRR == (HalvedCrowd * Radix) * Radix
<1>17. hRR \in Nat /\ fRR + Upper * (M * Half) <= hRR /\ Upper * (M * Half) \in Nat
  <2>1. hRR \in Nat
    BY <1>3, SquareIsMore
  <2> DEFINE c == z + f + 1
  <2>2. c \in Nat
    BY <1>3
  <2>3. hRR = fRR + Upper * ((c * Radix) * Radix)
    <3>1. HalvedCrowd = f + Upper * c
      BY <1>3
    <3> HIDE DEF c
    <3>2. ((f + Upper * c) * Radix) * Radix = (f * Radix) * Radix + Upper * ((c * Radix) * Radix)
      BY <1>2, <1>3, <2>2
    <3> QED
      BY <3>1, <3>2 DEF fRR, fR
  <2>4. M = c * Radix
    BY DEF M
  <2> HIDE DEF c, hRR
  <2>5. M * Radix = M * Half + M * Half /\ M * Half \in Nat
    BY <1>2, <1>4
  <2>6. Upper * (M * Radix) = Upper * (M * Half) + Upper * (M * Half) /\ Upper * (M * Half) \in Nat
    <3> DEFINE q == M * Half
    <3>1. q \in Nat /\ M * Radix = q + q
      BY <2>5
    <3> HIDE DEF q
    <3>2. Upper * (q + q) = Upper * q + Upper * q /\ Upper * q \in Nat
      BY <1>2, <3>1
    <3> QED
      BY <3>1, <3>2 DEF q
  <2>7. hRR = fRR + Upper * (M * Radix)
    BY <2>3, <2>4
  <2> DEFINE p1 == Upper * (M * Half)
  <2>8. p1 \in Nat /\ hRR = fRR + (p1 + p1)
    BY <2>6, <2>7
  <2> HIDE DEF p1
  <2>9. fRR + p1 <= hRR
    BY <1>4, <2>1, <2>8
  <2> QED
    BY <2>1, <2>8, <2>9 DEF p1
<1>18. \A j \in Slots : Within(t[j], hRR)
  <2> HIDE DEF hRR
  <2> TAKE j \in Slots
  <2>1. CASE j < n
    <3> DEFINE p1 == Upper * (M * Half)
    <3>1. Within(t[j] - y[j], p1) /\ fRR + p1 <= hRR /\ p1 \in Nat
      BY <1>14, <1>17, <2>1
    <3> HIDE DEF p1
    <3>2. t[j] \in Int
      BY <1>14 DEF Rows
    <3> QED
      BY <1>4, <1>11, <1>16, <1>17, <2>1, <3>1, <3>2 DEF Within
  <2>2. CASE ~ (j < n)
    <3>1. t[j] = 0
      BY <1>2, <1>15, <2>2
    <3> QED
      BY <1>17, <3>1 DEF Within
  <2> QED
    BY <2>1, <2>2
<1>19. Congruent(Amount(t), Amount(s), SL!l)
  <2>1. Amount(t) \in Int /\ Amount(x) \in Int /\ Amount(s) \in Int /\ SL!l \in Int
    BY <1>6, <1>14, AmountIsSum, OrderFacts
  <2> QED
    BY <1>6, <1>10, <1>14, <2>1, CongruentTransitive
<1> QED
  BY <1>1, <1>14, <1>15, <1>18, <1>19

(* The limbs of a string weigh as much as it; the top one is as wide as it *)
(* must be.                                                                *)
LEMMA LimbsExact ==
  ASSUME NEW top \in Slots, NEW e \in Nat, NEW s \in Nat, s < 2^(B * top + (B + e))
  PROVE  /\ SL!Limbs(s, top) \in Rows /\ Amount(SL!Limbs(s, top)) = s
         /\ \A j \in Slots : j > top => SL!Limbs(s, top)[j] = 0
         /\ \A j \in Slots : /\ 0 <= SL!Limbs(s, top)[j]
                             /\ SL!Limbs(s, top)[j] < Radix * 2^e
<1> DEFINE r == SL!Limbs(s, top)
<1>1. /\ top \in Nat /\ top <= 2 * n - 1 /\ n \in Nat /\ B \in Nat /\ B > 0 /\ Radix \in Nat
      /\ Radix > 0 /\ \A j \in Slots : j \in Nat
  BY ScalarFacts DEF Slots
<1>2. 2^e \in Nat /\ 2^e > 0
  BY PowerPositive
<1>3. Radix \in Nat /\ Radix * 2^e \in Nat /\ Radix <= Radix * 2^e /\ Radix * 2^e > 0
  <2>1. PICK y \in Nat : 2^e = 1 + y
    <3>1. 2^e - 1 \in Nat /\ 2^e = 1 + (2^e - 1)
      BY <1>2
    <3> QED
      BY <3>1
  <2>2. Radix * (1 + y) = Radix + Radix * y /\ Radix * y \in Nat
    BY <1>1, <2>1
  <2> QED
    BY <1>1, <2>1, <2>2
<1>4. \A j \in Slots : r[j] = IF j > top THEN 0
                              ELSE IF j = top THEN s \div Weight(j)
                              ELSE (s \div Weight(j)) % Radix
  <2>1. r = [i \in Slots |-> IF i > top THEN 0 ELSE IF i = top THEN s \div Weight(i)
                             ELSE (s \div Weight(i)) % Radix]
    BY Zenon DEF SL!Limbs, Slots, Weight, Radix
  <2> HIDE DEF r
  <2> QED
    BY <2>1
<1>5. \A j \in Slots : /\ (s \div Weight(j)) \in Nat
                       /\ 0 <= (s \div Weight(j)) % Radix /\ (s \div Weight(j)) % Radix < Radix
                       /\ (s \div Weight(j)) % Radix \in Int
  <2> TAKE j \in Slots
  <2>1. Weight(j) \in Nat /\ Weight(j) > 0
    BY <1>1, WeightIsNatural
  <2> DEFINE q == s \div Weight(j)
  <2>2. q \in Nat
    BY <2>1, QuotientBelow
  <2> HIDE DEF q
  <2>3. q % Radix \in 0..(Radix - 1)
    BY <1>1, <2>2, Division
  <2> QED
    BY <1>1, <2>2, <2>3 DEF q
<1>6. DOMAIN r = Slots /\ r = [j \in Slots |-> r[j]]
  BY DEF SL!Limbs, Slots
<1> HIDE DEF r
<1>7. r \in Rows
  <2>1. \A j \in Slots : r[j] \in Int
    BY <1>4, <1>5
  <2> QED
    BY <1>6, <2>1 DEF Rows
<1>8. r[top] = s \div Weight(top) /\ s \div Weight(top) < Radix * 2^e
  <2>1. r[top] = s \div Weight(top)
    BY <1>1, <1>4
  <2>2. B * top \in Nat /\ B + e \in Nat
    BY <1>1
  <2>3. 2^(B * top + (B + e)) = Weight(top) * 2^(B + e)
    BY <2>2, PowerSum DEF Weight
  <2>4. 2^(B + e) = Radix * 2^e
    BY <1>1, PowerSum DEF Radix
  <2>5. s < Weight(top) * (Radix * 2^e)
    BY <2>3, <2>4
  <2>6. Weight(top) \in Nat /\ Weight(top) > 0
    BY <1>1, WeightIsNatural
  <2> QED
    BY <1>3, <2>1, <2>5, <2>6, QuotientBelow
<1>9. \A j \in Slots : 0 <= r[j] /\ r[j] < Radix * 2^e
  <2> TAKE j \in Slots
  <2>1. CASE j > top
    BY <1>3, <1>4, <2>1
  <2>2. CASE j = top
    BY <1>5, <1>8, <2>2
  <2>3. CASE ~ (j > top) /\ j # top
    <3>1. r[j] = (s \div Weight(j)) % Radix
      BY <1>4, <2>3
    <3> QED
      BY <1>3, <1>5, <3>1
  <2> QED
    BY <2>1, <2>2, <2>3
<1> DEFINE Good(i) == i <= top => Below(r, i) = s % Weight(i)
           G == {i \in Nat : Good(i)}
<1>10. 0 \in G
  <2>1. Weight(0) = 1
    BY WeightFacts
  <2>2. Below(r, 0) = 0
    BY <1>7, BelowGrows
  <2> QED
    BY <2>1, <2>2
<1>11. ASSUME NEW i \in Nat, i \in G PROVE i + 1 \in G
  <2>1. CASE i + 1 <= top
    <3>1. i \in Slots /\ i <= top /\ ~ (i > top) /\ i # top
      BY <1>1, <2>1 DEF Slots
    <3>2. Below(r, i) = s % Weight(i)
      BY <1>11, <3>1
    <3>3. Below(r, i + 1) = Below(r, i) + r[i] * Weight(i)
      BY <1>7, <3>1, BelowGrows
    <3>4. r[i] = (s \div Weight(i)) % Radix
      BY <1>4, <3>1
    <3>5. B * i \in Nat /\ B * (i + 1) = B * i + B
      BY <1>1
    <3>6. /\ ((s \div 2^(B * i)) % 2^B) * 2^(B * i) = (s % 2^(B * i + B)) - (s % 2^(B * i))
          /\ s % 2^(B * i) \in Nat /\ s % 2^(B * i + B) \in Nat
      BY <1>1, <3>5, DigitIsGain
    <3>7. Weight(i + 1) = 2^(B * i + B) /\ Weight(i) = 2^(B * i)
      BY <3>5 DEF Weight
    <3>8. ((s \div Weight(i)) % Radix) * Weight(i) = (s % Weight(i + 1)) - (s % Weight(i))
          /\ s % Weight(i) \in Nat /\ s % Weight(i + 1) \in Nat
      BY <3>6, <3>7, Zenon DEF Radix
    <3> QED
      BY <3>2, <3>3, <3>4, <3>8
  <2>2. CASE ~ (i + 1 <= top)
    BY <2>2
  <2> QED
    BY <2>1, <2>2
<1>12. Nat \subseteq G
  <2> HIDE DEF G
  <2> QED
    BY <1>10, <1>11, NaturalInduction
<1>13. Amount(r) = s
  <2>1. Below(r, top) = s % Weight(top)
    BY <1>1, <1>12
  <2>2. Below(r, top + 1) = Below(r, top) + r[top] * Weight(top)
    BY <1>7, BelowGrows
  <2>3. top + 1 \in 0..(2 * n) /\ \A j \in Slots : j >= top + 1 => j > top
    BY <1>1
  <2>4. Amount(r) = Below(r, top + 1)
    BY <1>4, <1>7, <2>3, AmountIsBelow
  <2>5. Weight(top) \in Nat /\ Weight(top) > 0
    BY <1>1, WeightIsNatural
  <2> DEFINE q == s \div Weight(top)
             v == s % Weight(top)
             w == Weight(top)
  <2> HIDE DEF q, v, w
  <2>6. w \in Nat /\ w > 0 /\ s \in Int
    BY <2>5 DEF w
  <2>7. s = w * (s \div w) + (s % w) /\ s \div w \in Int /\ s % w \in 0..(w - 1)
    BY <2>6, Division
  <2>8. q = s \div w /\ v = s % w
    BY Zenon DEF q, v, w
  <2>9. s = w * q + v /\ q \in Int /\ v \in Int
    BY <2>6, <2>7, <2>8
  <2>10. w * q = q * w
    BY <2>6, <2>9
  <2>11. Below(r, top) = v /\ Below(r, top + 1) = Below(r, top) + r[top] * w /\ r[top] = q
    BY <1>8, <2>1, <2>2, Zenon DEF q, v, w
  <2>12. Below(r, top + 1) = v + q * w
    BY <2>11, Zenon
  <2>13. s = q * w + v
    BY <2>9, <2>10, Zenon
  <2>14. q * w \in Int
    BY <2>6, <2>9
  <2>15. v + q * w = q * w + v
    BY <2>9, <2>14
  <2> QED
    BY <2>4, <2>12, <2>13, <2>15, Zenon
<1> QED
  BY <1>4, <1>7, <1>9, <1>13 DEF r

(* The same of 32 bytes, with their crowd. *)
LEMMA LoadedExact ==
  ASSUME NEW s \in SL!Strings
  PROVE  /\ s \in Nat /\ SL!Load(s) \in Rows /\ Amount(SL!Load(s)) = s
         /\ \A j \in Slots : j >= n => SL!Load(s)[j] = 0
         /\ \A j \in Slots : Within(SL!Load(s)[j], Radix * 2^ExtraBits)
<1>1. /\ n \in Nat /\ n > 0 /\ B \in Nat /\ ExtraBits \in Nat /\ n - 1 \in Slots /\ n - 1 \in Nat
      /\ \A j \in Slots : j \in Nat
  BY ScalarFacts DEF Slots
<1>2. B * (n - 1) + (B + ExtraBits) = n * B + ExtraBits
  BY <1>1
<1>3. s \in Nat /\ s < 2^(B * (n - 1) + (B + ExtraBits))
  <2> DEFINE k == n * B + ExtraBits
  <2>1. k \in Nat
    BY <1>1
  <2>2. s \in 0..(2^k - 1)
    BY DEF SL!Strings
  <2> HIDE DEF k
  <2>3. 2^k \in Nat
    BY <2>1, PowerPositive
  <2>4. s \in Nat /\ s < 2^k
    BY <2>2, <2>3
  <2> QED
    BY <1>2, <2>4 DEF k
<1>4. SL!Load(s) = SL!Limbs(s, n - 1)
  BY Zenon DEF SL!Load
<1>5. /\ SL!Limbs(s, n - 1) \in Rows /\ Amount(SL!Limbs(s, n - 1)) = s
      /\ \A j \in Slots : j > n - 1 => SL!Limbs(s, n - 1)[j] = 0
      /\ \A j \in Slots : /\ 0 <= SL!Limbs(s, n - 1)[j]
                          /\ SL!Limbs(s, n - 1)[j] < Radix * 2^ExtraBits
  BY <1>1, <1>3, LimbsExact
<1>6. Radix * 2^ExtraBits \in Nat
  <2>1. 2^ExtraBits \in Nat
    BY <1>1, PowerPositive
  <2> QED
    BY <2>1, ScalarFacts
<1> DEFINE r == SL!Limbs(s, n - 1)
           c == Radix * 2^ExtraBits
<1> HIDE DEF r, c
<1>7. r \in Rows /\ \A j \in Slots : 0 <= r[j] /\ r[j] < c
  BY <1>5 DEF r, c
<1>8. \A j \in Slots : Within(r[j], c)
  <2> TAKE j \in Slots
  <2>1. r[j] \in Int
    BY <1>7 DEF Rows
  <2> QED
    BY <1>6, <1>7, <2>1 DEF Within, c
<1>9. \A j \in Slots : j >= n => j > n - 1
  BY <1>1
<1> QED
  BY <1>3, <1>4, <1>5, <1>8, <1>9 DEF r, c

(* Limbs that came out of strings are well below the crowd of mulsub.      *)
LEMMA StringsFit ==
  /\ Crowd \in Nat /\ Crowd * Radix \in Nat
  /\ 2^ExtraBits \in Nat /\ 2^(2 * ExtraBits) = 2^ExtraBits * 2^ExtraBits
  /\ 2 * 2^ExtraBits <= Crowd /\ 2^(2 * ExtraBits) <= Crowd
<1>1. n \in Nat /\ n > 0 /\ ExtraBits \in Nat /\ ExtraBits > 0 /\ Radix \in Nat
  BY ScalarFacts
<1> DEFINE x == 2^ExtraBits
           y == 2^(2 * ExtraBits)
<1>2. x \in Nat /\ x >= 2
  <2>1. PICK k \in Nat : ExtraBits = k + 1
    <3>1. ExtraBits - 1 \in Nat /\ ExtraBits = (ExtraBits - 1) + 1
      BY <1>1
    <3> QED
      BY <3>1
  <2>2. 2^(k + 1) = 2^k + 2^k /\ 2^k \in Nat /\ 2^k > 0
    BY <2>1, PowerSuccessor, PowerPositive
  <2> QED
    BY <2>1, <2>2
<1>3. y = x * x
  <2>1. 2 * ExtraBits = ExtraBits + ExtraBits
    BY <1>1
  <2> QED
    BY <1>1, <2>1, PowerSum
<1>4. Crowd = n * y + 2
  BY DEF Crowd
<1> HIDE DEF x, y
<1>5. PICK d \in Nat : x = 2 + d
  <2>1. x - 2 \in Nat /\ x = 2 + (x - 2)
    BY <1>2
  <2> QED
    BY <2>1
<1>6. y = 2 * x + d * x /\ d * x \in Nat /\ y \in Nat
  BY <1>2, <1>3, <1>5
<1>7. PICK e \in Nat : n = 1 + e
  <2>1. n - 1 \in Nat /\ n = 1 + (n - 1)
    BY <1>1
  <2> QED
    BY <2>1
<1>8. n * y = y + e * y /\ e * y \in Nat
  BY <1>6, <1>7
<1>9. Crowd \in Nat /\ y <= Crowd /\ 2 * x <= Crowd
  BY <1>2, <1>4, <1>6, <1>8
<1>10. Crowd * Radix \in Nat
  BY <1>1, <1>9
<1> QED
  BY <1>2, <1>3, <1>9, <1>10 DEF x, y

(* A product of something smaller is smaller. *)
LEMMA ProductsGrow ==
  ASSUME NEW a \in Nat, NEW b \in Nat, a <= b, NEW c \in Nat
  PROVE  a * c \in Nat /\ b * c \in Nat /\ a * c <= b * c
<1>1. PICK d \in Nat : b = a + d
  <2>1. b - a \in Nat /\ b = a + (b - a)
    OBVIOUS
  <2> QED
    BY <2>1
<1>2. (a + d) * c = a * c + d * c /\ d * c \in Nat /\ a * c \in Nat
  OBVIOUS
<1> QED
  BY <1>1, <1>2

(* The tail of every function, on limbs that are not crowded. *)
LEMMA ReducedExact ==
  ASSUME RoomyLimbs, NEW s \in Rows, \A j \in Slots : j >= n => s[j] = 0,
         \A j \in Slots : Within(s[j], Crowd * Radix)
  PROVE  SL!Pack(SL!Normalised(s)) = Amount(s) % SL!l
<1>1. n >= 4 /\ HalvedCrowd \in Nat /\ 6 * (HalvedCrowd + 2) <= Radix /\ Crowd \in Nat
      /\ Crowd <= HalvedCrowd /\ Radix \in Nat
  BY CrowdFacts, ScalarFacts
<1> DEFINE c == Crowd * Radix
           q == HalvedCrowd * Radix
           d == q * Radix
<1>2. c \in Nat /\ q \in Nat /\ c <= q
  BY <1>1, ProductsGrow
<1>3. d \in Nat /\ q <= d
  BY <1>1, SquareIsMore
<1> HIDE DEF c, q, d
<1>4. \A j \in Slots : Within(s[j], c)
  BY DEF c
<1>5. \A j \in Slots : Within(s[j], d)
  BY <1>2, <1>3, <1>4 DEF Within
<1>6. \A j \in Slots : Within(s[j], (HalvedCrowd * Radix) * Radix)
  BY <1>5 DEF q, d
<1> QED
  BY <1>1, <1>6, NormalisedExact

(* And with the upper half folded first. *)
LEMMA FoldedExact ==
  ASSUME RoomyLimbs, NEW s \in Rows, \A j \in Slots : Within(s[j], Crowd * Radix)
  PROVE  SL!Pack(SL!Normalised(SL!Halved(s))) = Amount(s) % SL!l
<1>1. n >= 4 /\ HalvedCrowd \in Nat /\ 6 * (HalvedCrowd + 2) <= Radix
  BY CrowdFacts
<1> DEFINE t == SL!Halved(s)
<1>2. /\ t \in Rows /\ Congruent(Amount(t), Amount(s), SL!l)
      /\ \A j \in Slots : j >= n => t[j] = 0
      /\ \A j \in Slots : Within(t[j], (HalvedCrowd * Radix) * Radix)
  BY HalvedExact
<1> HIDE DEF t
<1>3. SL!Pack(SL!Normalised(t)) = Amount(t) % SL!l
  BY <1>1, <1>2, NormalisedExact
<1>4. SL!l \in Nat /\ SL!l > 0
  <2>1. Weight(n) \in Nat
    BY ScalarFacts, WeightIsNatural
  <2> QED
    BY <2>1, OrderFacts
<1>5. Amount(t) \in Int /\ Amount(s) \in Int
  BY <1>2, AmountIsSum
<1>6. Amount(t) % SL!l = Amount(s) % SL!l
  BY <1>2, <1>4, <1>5, CongruentRemainders
<1> QED
  BY <1>3, <1>6, Zenon DEF t

(* sc_reduce32: what 32 bytes leave when divided by l. *)
LEMMA Reduce32Exact ==
  ASSUME RoomyLimbs, NEW s \in SL!Strings
  PROVE  SL!sc_reduce32(s) = s % SL!l
<1> DEFINE r == SL!Load(s)
           x == Radix * 2^ExtraBits
           c == Crowd * Radix
<1>1. /\ r \in Rows /\ Amount(r) = s /\ \A j \in Slots : j >= n => r[j] = 0
      /\ \A j \in Slots : Within(r[j], x)
  BY LoadedExact
<1>2. SL!sc_reduce32(s) = SL!Pack(SL!Normalised(r))
  BY Zenon DEF SL!sc_reduce32
<1> HIDE DEF r
<1>3. x \in Nat /\ c \in Nat /\ x <= c
  <2> DEFINE y == 2^ExtraBits
  <2>1. y \in Nat /\ 2 * y <= Crowd /\ Crowd \in Nat /\ Radix \in Nat
    BY StringsFit, ScalarFacts
  <2> HIDE DEF y
  <2>2. y <= Crowd
    BY <2>1
  <2>3. y * Radix \in Nat /\ c \in Nat /\ y * Radix <= c
    BY <2>1, <2>2, ProductsGrow
  <2>4. x = y * Radix
    BY <2>1 DEF y
  <2> HIDE DEF x, c
  <2> QED
    BY <2>3, <2>4
<1> HIDE DEF x, c
<1>4. \A j \in Slots : Within(r[j], c)
  BY <1>1, <1>3 DEF Within
<1>5. \A j \in Slots : Within(r[j], Crowd * Radix)
  BY <1>4 DEF c
<1> QED
  BY <1>1, <1>2, <1>5, ReducedExact

(* sc_reduce: what 64 bytes leave. *)
LEMMA ReduceExact ==
  ASSUME RoomyLimbs, NEW s \in SL!Doubles
  PROVE  SL!sc_reduce(s) = s % SL!l
<1> DEFINE top == 2 * n - 1
           e == 2 * ExtraBits
           k == n * B + ExtraBits
<1>1. /\ n \in Nat /\ n > 0 /\ B \in Nat /\ ExtraBits \in Nat /\ Radix \in Nat
      /\ top \in Slots /\ top \in Nat /\ e \in Nat /\ k \in Nat
  BY ScalarFacts DEF Slots
<1>2. 2 * k = B * top + (B + e)
  BY <1>1
<1>3. s \in Nat /\ s < 2^(B * top + (B + e))
  <2>1. s \in 0..(2^(2 * k) - 1)
    BY DEF SL!Doubles
  <2> HIDE DEF k
  <2>2. 2^(2 * k) \in Nat
    BY <1>1, PowerPositive
  <2>3. s \in Nat /\ s < 2^(2 * k)
    BY <2>1, <2>2
  <2> QED
    BY <1>2, <2>3
<1>4. SL!sc_reduce(s) = SL!Pack(SL!Normalised(SL!Halved(SL!Limbs(s, top))))
  BY Zenon DEF SL!sc_reduce
<1> HIDE DEF top, e, k
<1> DEFINE r == SL!Limbs(s, top)
           x == Radix * 2^e
           c == Crowd * Radix
<1>5. /\ r \in Rows /\ Amount(r) = s
      /\ \A j \in Slots : 0 <= r[j] /\ r[j] < x
  BY <1>1, <1>3, LimbsExact
<1>6. x \in Nat /\ c \in Nat /\ x <= c
  <2> DEFINE y == 2^e
  <2>1. y \in Nat /\ y <= Crowd /\ Crowd \in Nat
    <3>1. 2^e \in Nat
      BY <1>1, PowerPositive
    <3>2. 2^e <= Crowd /\ Crowd \in Nat
      BY StringsFit DEF e
    <3> QED
      BY <3>1, <3>2
  <2> HIDE DEF y
  <2>2. y * Radix \in Nat /\ c \in Nat /\ y * Radix <= c
    BY <1>1, <2>1, ProductsGrow
  <2>3. x = y * Radix
    BY <1>1, <2>1 DEF y
  <2> HIDE DEF x, c
  <2> QED
    BY <2>2, <2>3
<1> HIDE DEF x, c, r
<1>7. \A j \in Slots : Within(r[j], c)
  <2> TAKE j \in Slots
  <2>1. r[j] \in Int
    BY <1>5 DEF Rows
  <2> QED
    BY <1>5, <1>6, <2>1 DEF Within
<1>8. \A j \in Slots : Within(r[j], Crowd * Radix)
  BY <1>7 DEF c
<1>9. SL!Pack(SL!Normalised(SL!Halved(r))) = Amount(r) % SL!l
  BY <1>5, <1>8, FoldedExact
<1> QED
  BY <1>4, <1>5, <1>9 DEF r

(* Rows of numbers that add up limb by limb. *)
LEMMA AmountsAdd ==
  ASSUME NEW a \in Rows, NEW b \in Rows, NEW c \in Rows,
         \A j \in Slots : c[j] = a[j] + b[j]
  PROVE  Amount(c) = Amount(a) + Amount(b)
<1>1. \A j \in Slots : /\ Weighed(a)[j] = a[j] * Weight(j) /\ Weighed(a)[j] \in Int
                       /\ Weighed(b)[j] = b[j] * Weight(j) /\ Weighed(b)[j] \in Int
                       /\ Weighed(c)[j] = c[j] * Weight(j)
  BY AmountIsSum
<1>2. \A j \in Slots : Weighed(c)[j] = Weighed(a)[j] + Weighed(b)[j]
  <2> TAKE j \in Slots
  <2>1. a[j] \in Int /\ b[j] \in Int /\ Weight(j) \in Int
    BY ScalarFacts, WeightIsNatural DEF Rows
  <2>2. (a[j] + b[j]) * Weight(j) = a[j] * Weight(j) + b[j] * Weight(j)
    BY <2>1
  <2> QED
    BY <1>1, <2>2
<1> HIDE DEF Weighed
<1> QED
  BY <1>1, <1>2, ScalarFacts, SumOfSums DEF Amount

(* sc_add and sc_sub: limb by limb. *)
LEMMA SumReduced ==
  ASSUME RoomyLimbs, NEW a \in SL!Strings, NEW b \in SL!Strings
  PROVE  /\ SL!sc_add(a, b) = (a + b) % SL!l
         /\ SL!sc_sub(a, b) = (a - b) % SL!l
<1> DEFINE x == SL!Load(a)
           y == SL!Load(b)
           w == Radix * 2^ExtraBits
           c == Crowd * Radix
           sum == [i \in Slots |-> x[i] + y[i]]
           dif == [i \in Slots |-> x[i] - y[i]]
<1>1. /\ a \in Nat /\ x \in Rows /\ Amount(x) = a /\ \A j \in Slots : j >= n => x[j] = 0
      /\ \A j \in Slots : Within(x[j], w)
  BY LoadedExact
<1>2. /\ b \in Nat /\ y \in Rows /\ Amount(y) = b /\ \A j \in Slots : j >= n => y[j] = 0
      /\ \A j \in Slots : Within(y[j], w)
  BY LoadedExact
<1>3. DOMAIN x = Slots
  BY <1>1 DEF Rows
<1>4. SL!sc_add(a, b) = SL!Pack(SL!Normalised(sum))
  BY <1>3, Zenon DEF SL!sc_add
<1>5. SL!sc_sub(a, b) = SL!Pack(SL!Normalised(dif))
  BY <1>3, Zenon DEF SL!sc_sub
<1> HIDE DEF x, y
<1>6. w \in Nat /\ c \in Nat /\ w + w <= c
  <2> DEFINE z == 2^ExtraBits
  <2>1. z \in Nat /\ 2 * z <= Crowd /\ Crowd \in Nat /\ Radix \in Nat
    BY StringsFit, ScalarFacts
  <2> HIDE DEF z
  <2>2. 2 * z \in Nat
    BY <2>1
  <2>3. (2 * z) * Radix \in Nat /\ c \in Nat /\ (2 * z) * Radix <= c
    BY <2>1, <2>2, ProductsGrow
  <2>4. w \in Nat /\ w + w = (2 * z) * Radix
    BY <2>1 DEF z
  <2> HIDE DEF w, c
  <2> QED
    BY <2>3, <2>4
<1> HIDE DEF w, c
<1>7. \A j \in Slots : x[j] \in Int /\ y[j] \in Int
  BY <1>1, <1>2 DEF Rows
<1>8. /\ sum \in Rows /\ dif \in Rows
      /\ \A j \in Slots : sum[j] = x[j] + y[j] /\ dif[j] = x[j] - y[j]
  BY <1>7 DEF Rows
<1> HIDE DEF sum, dif
<1>9. \A j \in Slots : j >= n => sum[j] = 0 /\ dif[j] = 0
  BY <1>1, <1>2, <1>8
<1>10. \A j \in Slots : Within(sum[j], c) /\ Within(dif[j], c)
  BY <1>1, <1>2, <1>6, <1>7, <1>8 DEF Within
<1>11. Amount(sum) = a + b
  BY <1>1, <1>2, <1>8, AmountsAdd
<1>12. Amount(dif) = a - b
  <2>1. \A j \in Slots : x[j] = dif[j] + y[j]
    <3>1. \A j \in Slots : dif[j] \in Int
      BY <1>8 DEF Rows
    <3> QED
      BY <1>7, <1>8, <3>1
  <2>2. Amount(x) = Amount(dif) + Amount(y)
    BY <1>1, <1>2, <1>8, <2>1, AmountsAdd
  <2>3. Amount(dif) \in Int
    BY <1>8, AmountIsSum
  <2> QED
    BY <1>1, <1>2, <2>2, <2>3
<1>13. \A j \in Slots : Within(sum[j], Crowd * Radix) /\ Within(dif[j], Crowd * Radix)
  BY <1>10 DEF c
<1>14. SL!Pack(SL!Normalised(sum)) = Amount(sum) % SL!l
  BY <1>8, <1>9, <1>13, ReducedExact
<1>15. SL!Pack(SL!Normalised(dif)) = Amount(dif) % SL!l
  BY <1>8, <1>9, <1>13, ReducedExact
<1> QED
  BY <1>4, <1>5, <1>11, <1>12, <1>14, <1>15, Zenon

(* A sum of k bounded terms. *)
LEMMA SumWithin ==
  ASSUME NEW c \in Nat, NEW f, NEW k \in Nat, \A x \in 0..(k - 1) : Within(f[x], c)
  PROVE  Within(SumFunctionOnSet(f, 0..(k - 1)), k * c)
<1> DEFINE Good(m) == m <= k => Within(SumFunctionOnSet(f, 0..(m - 1)), m * c)
           G == {m \in Nat : Good(m)}
<1>1. 0 \in G
  <2>1. 0..(0 - 1) = {} /\ 0 * c = 0
    OBVIOUS
  <2>2. SumFunctionOnSet(f, 0..(0 - 1)) = 0
    BY <2>1, SumOfNone
  <2> QED
    BY <2>1, <2>2 DEF Within
<1>2. ASSUME NEW m \in Nat, m \in G PROVE m + 1 \in G
  <2> DEFINE S == 0..m
             u == SumFunctionOnSet(f, 0..(m - 1))
             v == SumFunctionOnSet(f, 0..((m + 1) - 1))
             mc == m * c
  <2> SUFFICES ASSUME m + 1 <= k PROVE Within(v, (m + 1) * c)
    OBVIOUS
  <2>1. /\ m \in S /\ S \subseteq 0..(k - 1) /\ S \ {m} = 0..(m - 1) /\ 0..((m + 1) - 1) = S
        /\ 0 \in Int /\ m \in Int
    OBVIOUS
  <2>2. IsFiniteSet(S)
    BY <2>1, FS_Interval
  <2>3. \A x \in S : f[x] \in Int
    BY <2>1 DEF Within
  <2>4. Within(u, mc)
    BY <1>2
  <2>5. SumFunctionOnSet(f, S) = f[m] + SumFunctionOnSet(f, S \ {m})
    <3> HIDE DEF S
    <3> QED
      BY <2>1, <2>2, <2>3, SumSplit
  <2>6. v = f[m] + u
    BY <2>1, <2>5, Zenon
  <2>7. Within(f[m], c)
    BY <2>1
  <2>8. (m + 1) * c = mc + c /\ mc \in Nat
    OBVIOUS
  <2> HIDE DEF u, v, mc, S
  <2> QED
    BY <2>4, <2>6, <2>7, <2>8 DEF Within
<1>3. Nat \subseteq G
  <2> HIDE DEF G
  <2> QED
    BY <1>1, <1>2, NaturalInduction
<1> QED
  BY <1>3

(* The products of limbs, and what each weighs. *)
LowerHalf == 0..(n - 1)
Partial(a, b, k, i) == IF k - i \in LowerHalf THEN a[i] * b[k - i] ELSE 0
Cell(a, b, k, i) == Partial(a, b, k, i) * Weight(k)

(* What a product adds to a column, and that weighed, are integers.         *)
LEMMA TermsAreIntegers ==
  ASSUME NEW a \in Rows, NEW b \in Rows
  PROVE  /\ IsFiniteSet(LowerHalf) /\ LowerHalf \subseteq Slots /\ LowerHalf \subseteq Nat
         /\ \A k \in Slots, i \in LowerHalf :
              /\ Partial(a, b, k, i) \in Int /\ Cell(a, b, k, i) \in Int
              /\ Cell(a, b, k, i) = Partial(a, b, k, i) * Weight(k)
<1>1. n \in Nat /\ n > 0 /\ 0 \in Int /\ n - 1 \in Int
  BY ScalarFacts
<1>2. IsFiniteSet(LowerHalf) /\ LowerHalf \subseteq Slots /\ LowerHalf \subseteq Nat
  BY <1>1, FS_Interval DEF LowerHalf, Slots
<1>3. ASSUME NEW k \in Slots, NEW i \in LowerHalf
      PROVE  Partial(a, b, k, i) \in Int /\ Cell(a, b, k, i) \in Int
  <2>1. Partial(a, b, k, i) \in Int
    <3>1. CASE k - i \in LowerHalf
      <4>1. a[i] \in Int /\ b[k - i] \in Int
        BY <1>2, <3>1 DEF Rows
      <4> QED
        BY <3>1, <4>1 DEF Partial
    <3>2. CASE k - i \notin LowerHalf
      BY <3>2 DEF Partial
    <3> QED
      BY <3>1, <3>2
  <2>2. Weight(k) \in Int
    BY ScalarFacts, WeightIsNatural
  <2> QED
    BY <2>1, <2>2 DEF Cell
<1> QED
  BY <1>2, <1>3 DEF Cell

(* One limb of a with all of b. *)
LEMMA ColumnExact ==
  ASSUME NEW a \in Rows, NEW b \in Rows, \A j \in Slots : j >= n => b[j] = 0,
         NEW i \in LowerHalf, NEW col, \A k \in Slots : col[k] = Cell(a, b, k, i)
  PROVE  SumFunctionOnSet(col, Slots) = (a[i] * Weight(i)) * Amount(b)
<1> DEFINE S == i..(i + (n - 1))
           to == [k \in S |-> k - i]
           m == a[i] * Weight(i)
           g == [j \in LowerHalf |-> m * Weighed(b)[j]]
<1>1. /\ n \in Nat /\ n > 0 /\ i \in Nat /\ i <= n - 1 /\ i \in Slots
      /\ i \in Int /\ i + (n - 1) \in Int /\ S \in SUBSET Slots
  BY ScalarFacts DEF Slots, LowerHalf
<1>2. IsFiniteSet(S)
  BY <1>1, FS_Interval
<1>3. /\ \A k \in Slots : col[k] \in Int
      /\ \A k \in Slots \ S : col[k] = 0
  <2>1. \A k \in Slots : col[k] \in Int
    BY TermsAreIntegers
  <2>2. ASSUME NEW k \in Slots \ S PROVE col[k] = 0
    <3>1. k - i \notin LowerHalf
      BY <1>1 DEF LowerHalf, Slots
    <3>2. Partial(a, b, k, i) = 0
      BY <3>1 DEF Partial
    <3>3. Weight(k) \in Int
      BY ScalarFacts, WeightIsNatural
    <3> QED
      BY <3>2, <3>3 DEF Cell
  <2> QED
    BY <2>1, <2>2
<1>4. SumFunctionOnSet(col, Slots) = SumFunctionOnSet(col, S)
  <2> HIDE DEF S
  <2> QED
    BY <1>1, <1>3, ScalarFacts, SumOfPart
<1>5. Renumbers(to, S, LowerHalf)
  <2>1. \A k \in S : to[k] \in LowerHalf
    BY <1>1 DEF LowerHalf
  <2>2. \A x, y \in S : to[x] = to[y] => x = y
    BY <1>1
  <2>3. \A z \in LowerHalf : \E x \in S : to[x] = z
    <3> TAKE z \in LowerHalf
    <3>1. z + i \in S /\ (z + i) - i = z
      BY <1>1 DEF LowerHalf
    <3> QED
      BY <3>1
  <2> HIDE DEF to, S
  <2> QED
    BY <2>1, <2>2, <2>3 DEF Renumbers
<1>6. /\ m \in Int
      /\ \A j \in LowerHalf : /\ Weighed(b)[j] \in Int /\ Weighed(b)[j] = b[j] * Weight(j)
                          /\ g[j] = m * Weighed(b)[j] /\ g[j] \in Int
  <2>1. a[i] \in Int /\ Weight(i) \in Int
    BY <1>1, WeightIsNatural DEF Rows
  <2>2. m \in Int
    BY <2>1
  <2>3. \A j \in LowerHalf : Weighed(b)[j] \in Int /\ Weighed(b)[j] = b[j] * Weight(j)
    BY AmountIsSum, TermsAreIntegers
  <2> HIDE DEF m
  <2>4. \A j \in LowerHalf : m * Weighed(b)[j] \in Int
    BY <2>2, <2>3
  <2> QED
    BY <2>2, <2>3, <2>4
<1>7. \A k \in S : col[k] = g[to[k]]
  <2> TAKE k \in S
  <2> DEFINE j == k - i
  <2>1. k \in Slots /\ j \in LowerHalf /\ j \in Nat /\ i + j = k /\ j \in Slots
    BY <1>1 DEF LowerHalf, Slots
  <2>2. to[k] = j
    OBVIOUS
  <2>3. Partial(a, b, k, i) = a[i] * b[j]
    BY <2>1 DEF Partial
  <2>4. Weight(i + j) = Weight(i) * Weight(j)
    BY <1>1, <2>1, WeightFacts
  <2>5. col[k] = (a[i] * b[j]) * (Weight(i) * Weight(j))
    BY <2>1, <2>3, <2>4, Zenon DEF Cell
  <2>6. g[j] = m * Weighed(b)[j] /\ Weighed(b)[j] = b[j] * Weight(j)
    BY <1>6, <2>1
  <2>7. a[i] \in Int /\ b[j] \in Int /\ Weight(i) \in Int /\ Weight(j) \in Int
    BY <1>1, <2>1, WeightIsNatural DEF Rows
  <2>8. (a[i] * b[j]) * (Weight(i) * Weight(j)) = (a[i] * Weight(i)) * (b[j] * Weight(j))
    <3> DEFINE u == a[i]
               v == b[j]
               x == Weight(i)
               y == Weight(j)
    <3> HIDE DEF u, v, x, y
    <3>1. u \in Int /\ v \in Int /\ x \in Int /\ y \in Int
      BY <2>7 DEF u, v, x, y
    <3>2. (u * v) * (x * y) = (u * x) * (v * y)
      BY <3>1
    <3> QED
      BY <3>2 DEF u, v, x, y
  <2> HIDE DEF g, to, j
  <2>9. g[j] = (a[i] * Weight(i)) * (b[j] * Weight(j))
    BY <2>6, Zenon DEF m
  <2> QED
    BY <2>2, <2>5, <2>8, <2>9, Zenon
<1> HIDE DEF S, to, g, m
<1>8. SumFunctionOnSet(col, S) = SumFunctionOnSet(g, LowerHalf)
  <2>1. \A z \in LowerHalf : g[z] \in Int
    BY <1>6
  <2> QED
    BY <1>2, <1>5, <1>7, <2>1, SumReindexed, SMT
<1>9. SumFunctionOnSet(g, LowerHalf) = m * SumFunctionOnSet(Weighed(b), LowerHalf)
  BY <1>6, TermsAreIntegers, SumScaled
<1>10. Amount(b) = SumFunctionOnSet(Weighed(b), LowerHalf)
  <2>1. n \in 0..(2 * n)
    BY <1>1
  <2> QED
    BY <2>1, AmountIsBelow DEF Below, LowerHalf
<1> QED
  BY <1>4, <1>8, <1>9, <1>10, Zenon DEF m

(* The limbs of a product. *)
LEMMA ProductLimbs ==
  ASSUME NEW a, NEW b, NEW k \in Slots
  PROVE  SL!Products(a, b)[k] = SumFunctionOnSet([i \in LowerHalf |-> Partial(a, b, k, i)], LowerHalf)
<1> DEFINE f == [i \in 0..(n - 1) |-> IF k - i \in 0..(n - 1) THEN a[i] * b[k - i] ELSE 0]
           g == [i \in LowerHalf |-> Partial(a, b, k, i)]
<1>1. SL!Products(a, b)[k] = SL!SumFunction(f)
  <2>1. SL!Products(a, b) = [x \in Slots |->
          SL!SumFunction([i \in 0..(n - 1) |-> IF x - i \in 0..(n - 1) THEN a[i] * b[x - i] ELSE 0])]
    BY Zenon DEF SL!Products, Slots
  <2> QED
    BY <2>1, Zenon
<1>2. f = g
  BY Zenon DEF LowerHalf, Partial
<1>3. SL!SumFunction(f) = SumFunctionOnSet(f, DOMAIN f)
  BY SumOfScalars
<1>4. DOMAIN f = LowerHalf
  BY Zenon DEF LowerHalf
<1> HIDE DEF f, g
<1> QED
  BY <1>1, <1>2, <1>3, <1>4, Zenon DEF g

(* The product of two numbers, limb by limb. *)
LEMMA ProductsExact ==
  ASSUME NEW a \in Rows, \A j \in Slots : j >= n => a[j] = 0,
         NEW b \in Rows, \A j \in Slots : j >= n => b[j] = 0,
         NEW w \in Nat, \A j \in Slots : Within(a[j], w) /\ Within(b[j], w)
  PROVE  /\ SL!Products(a, b) \in Rows
         /\ Amount(SL!Products(a, b)) = Amount(a) * Amount(b)
         /\ SL!Products(a, b)[2 * n - 1] = 0
         /\ \A j \in Slots : Within(SL!Products(a, b)[j], n * (w * w))
<1> DEFINE q == SL!Products(a, b)
           Row(k) == [i \in LowerHalf |-> Partial(a, b, k, i)]
<1>1. \A k \in Slots : q[k] = SumFunctionOnSet(Row(k), LowerHalf)
  BY ProductLimbs
<1>2. q = [k \in Slots |-> q[k]]
  BY Zenon DEF SL!Products, Slots
<1>3. \A k \in Slots, i \in LowerHalf : Row(k)[i] = Partial(a, b, k, i) /\ Row(k)[i] \in Int
  BY TermsAreIntegers
<1>4. /\ n \in Nat /\ n > 0 /\ IsFiniteSet(Slots) /\ IsFiniteSet(LowerHalf)
      /\ LowerHalf \subseteq Slots /\ LowerHalf \subseteq Nat
  BY ScalarFacts, TermsAreIntegers
<1> HIDE DEF q
<1>5. q \in Rows
  <2>1. \A k \in Slots : q[k] \in Int
    <3> TAKE k \in Slots
    <3> DEFINE r == Row(k)
    <3>1. \A i \in LowerHalf : r[i] \in Int
      BY <1>3
    <3> HIDE DEF r
    <3>2. SumFunctionOnSet(r, LowerHalf) \in Int
      BY <1>4, <3>1, SumIsInteger
    <3> QED
      BY <1>1, <3>2 DEF r
  <2> QED
    BY <1>2, <2>1, Zenon DEF Rows
<1>6. \A j \in Slots : Within(q[j], n * (w * w))
  <2> TAKE j \in Slots
  <2> DEFINE r == Row(j)
             ww == w * w
  <2>1. ww \in Nat
    OBVIOUS
  <2>2. \A i \in LowerHalf : Within(r[i], ww)
    <3> TAKE i \in LowerHalf
    <3>1. r[i] = Partial(a, b, j, i)
      BY <1>3
    <3>2. CASE j - i \in LowerHalf
      <4>1. Within(a[i], w) /\ Within(b[j - i], w)
        BY <1>4, <3>2
      <4>2. Within(a[i] * b[j - i], ww)
        BY <4>1, ProductWithin
      <4> QED
        BY <3>1, <3>2, <4>2 DEF Partial
    <3>3. CASE j - i \notin LowerHalf
      <4>1. r[i] = 0
        BY <3>1, <3>3 DEF Partial
      <4> HIDE DEF r, ww
      <4> QED
        BY <2>1, <4>1 DEF Within
    <3> QED
      BY <3>2, <3>3
  <2> HIDE DEF r, ww
  <2>3. Within(SumFunctionOnSet(r, 0..(n - 1)), n * ww)
    BY <1>4, <2>1, <2>2, SumWithin DEF LowerHalf
  <2> QED
    BY <1>1, <2>3 DEF r, ww, LowerHalf
<1>7. q[2 * n - 1] = 0
  <2> DEFINE top == 2 * n - 1
             r == Row(top)
  <2>1. top \in Slots /\ \A i \in LowerHalf : top - i \notin LowerHalf
    BY <1>4 DEF Slots, LowerHalf
  <2>2. \A i \in LowerHalf : r[i] = 0
    BY <1>3, <2>1 DEF Partial
  <2>3. q[top] = SumFunctionOnSet(r, LowerHalf)
    BY <1>1, <2>1
  <2> HIDE DEF r, top
  <2>4. SumFunctionOnSet(r, LowerHalf) = SumFunctionOnSet(r, {})
    <3>1. \A x \in LowerHalf : r[x] \in Int
      BY <2>2
    <3>2. {} \in SUBSET LowerHalf /\ \A x \in LowerHalf \ {} : r[x] = 0
      BY <2>2
    <3> QED
      BY <1>4, <3>1, <3>2, SumOfPart
  <2> QED
    BY <2>3, <2>4, SumOfNone DEF top
<1>8. Amount(q) = Amount(a) * Amount(b)
  <2> DEFINE F == [ki \in Slots \X LowerHalf |-> Cell(a, b, ki[1], ki[2])]
             cols == [i \in LowerHalf |-> Weighed(a)[i] * Amount(b)]
  <2>1. \A k \in Slots, i \in LowerHalf : F[<< k, i >>] = Cell(a, b, k, i)
    BY Zenon
  <2>2. IntegerTable(F, Slots, LowerHalf)
    <3> HIDE DEF F
    <3> QED
      BY <2>1, TermsAreIntegers, ZenonT(60) DEF IntegerTable
  <2>3. RowSums(Weighed(q), F, Slots, LowerHalf)
    <3> SUFFICES ASSUME NEW k \in Slots
                 PROVE  Weighed(q)[k] = SumFunctionOnSet([i \in LowerHalf |-> F[<< k, i >>]], LowerHalf)
      BY Zenon DEF RowSums
    <3> DEFINE r == Row(k)
               f == [i \in LowerHalf |-> F[<< k, i >>]]
    <3>1. \A i \in LowerHalf : f[i] = Cell(a, b, k, i) /\ r[i] = Partial(a, b, k, i) /\ r[i] \in Int
      BY <1>3, <2>1
    <3>2. Weight(k) \in Int
      BY ScalarFacts, WeightIsNatural
    <3> HIDE DEF r, f, F
    <3>3. \A i \in LowerHalf : f[i] = Weight(k) * r[i]
      <4> TAKE i \in LowerHalf
      <4>1. f[i] = r[i] * Weight(k)
        BY <3>1, Zenon DEF Cell
      <4> QED
        BY <3>1, <3>2, <4>1
    <3>4. SumFunctionOnSet(f, LowerHalf) = Weight(k) * SumFunctionOnSet(r, LowerHalf)
      BY <1>4, <3>1, <3>2, <3>3, SumScaled
    <3>5. q[k] = SumFunctionOnSet(r, LowerHalf) /\ q[k] \in Int
      BY <1>1, <1>5 DEF r, Rows
    <3>6. Weighed(q)[k] = q[k] * Weight(k)
      BY <1>5, AmountIsSum
    <3>7. Weighed(q)[k] = SumFunctionOnSet(f, LowerHalf)
      BY <3>2, <3>4, <3>5, <3>6
    <3> QED
      BY <3>7 DEF f
  <2>4. ColumnSums(cols, F, Slots, LowerHalf)
    <3> SUFFICES ASSUME NEW i \in LowerHalf
                 PROVE  cols[i] = SumFunctionOnSet([k \in Slots |-> F[<< k, i >>]], Slots)
      BY Zenon DEF ColumnSums
    <3> DEFINE f == [k \in Slots |-> F[<< k, i >>]]
    <3>1. \A k \in Slots : f[k] = Cell(a, b, k, i)
      BY <2>1
    <3>2. cols[i] = Weighed(a)[i] * Amount(b)
      BY Zenon
    <3>3. Weighed(a)[i] = a[i] * Weight(i)
      BY <1>4, AmountIsSum
    <3> HIDE DEF f, cols, F
    <3>4. SumFunctionOnSet(f, Slots) = (a[i] * Weight(i)) * Amount(b)
      BY <3>1, ColumnExact
    <3> QED
      BY <3>2, <3>3, <3>4, Zenon DEF f
  <2>5. /\ Amount(b) \in Int
        /\ \A i \in LowerHalf : Weighed(a)[i] \in Int
        /\ \A i \in LowerHalf : cols[i] = Weighed(a)[i] * Amount(b)
    BY <1>4, AmountIsSum
  <2> HIDE DEF F, cols
  <2>6. SumFunctionOnSet(Weighed(q), Slots) = SumFunctionOnSet(cols, LowerHalf)
    BY <1>4, <2>2, <2>3, <2>4, SumExchanged, SMT
  <2>7. SumFunctionOnSet(cols, LowerHalf) = Amount(b) * SumFunctionOnSet(Weighed(a), LowerHalf)
    <3>1. \A i \in LowerHalf : cols[i] = Amount(b) * Weighed(a)[i]
      BY <2>5
    <3> QED
      BY <1>4, <2>5, <3>1, SumScaled
  <2>8. Amount(a) = SumFunctionOnSet(Weighed(a), LowerHalf)
    <3>1. n \in 0..(2 * n)
      BY <1>4
    <3> QED
      BY <3>1, AmountIsBelow DEF Below, LowerHalf
  <2>9. Amount(q) = Amount(b) * Amount(a)
    BY <2>6, <2>7, <2>8, Zenon DEF Amount
  <2>10. Amount(a) \in Int
    BY AmountIsSum
  <2> QED
    BY <2>5, <2>9, <2>10
<1> QED
  BY <1>5, <1>6, <1>7, <1>8 DEF q

(* The limbs of c - a b, carried once: not crowded.                        *)
LEMMA MulSubLimbsExact ==
  ASSUME RoomyLimbs, NEW a \in SL!Strings, NEW b \in SL!Strings, NEW c \in SL!Strings
  PROVE  /\ SL!MulSubLimbs(a, b, c) \in Rows
         /\ Amount(SL!MulSubLimbs(a, b, c)) = c - a * b
         /\ \A j \in Slots : Within(SL!MulSubLimbs(a, b, c)[j], Crowd * Radix)
<1> DEFINE x == SL!Load(a)
           y == SL!Load(b)
           z == SL!Load(c)
           q == SL!Products(x, y)
           d == [k \in Slots |-> z[k] - q[k]]
           t == SL!CarryEvenOdd(d, 0, 2 * n - 2)
           e == 2^ExtraBits
           w == Radix * e
           m == n * (e * e) + 1
           big == (m * Radix) * Radix
<1>1. /\ a \in Nat /\ x \in Rows /\ Amount(x) = a /\ \A j \in Slots : j >= n => x[j] = 0
      /\ \A j \in Slots : Within(x[j], w)
  BY LoadedExact
<1>2. /\ b \in Nat /\ y \in Rows /\ Amount(y) = b /\ \A j \in Slots : j >= n => y[j] = 0
      /\ \A j \in Slots : Within(y[j], w)
  BY LoadedExact
<1>3. /\ c \in Nat /\ z \in Rows /\ Amount(z) = c /\ \A j \in Slots : j >= n => z[j] = 0
      /\ \A j \in Slots : Within(z[j], w)
  BY LoadedExact
<1>4. SL!MulSubLimbs(a, b, c) = t
  <2>1. DOMAIN z = Slots
    BY <1>3 DEF Rows
  <2> QED
    BY <2>1, Zenon DEF SL!MulSubLimbs
<1>5. /\ n \in Nat /\ n >= 4 /\ Radix \in Nat /\ Half \in Nat /\ Radix = 2 * Half
      /\ 2 * n - 1 \in Slots /\ 2 * n - 2 \in Carriers /\ (2 * n - 2) + 1 = 2 * n - 1
      /\ \A j \in Slots : j \in Nat /\ (j = 2 * n - 1 \/ j \in 0..(2 * n - 2))
      /\ 0..(2 * n - 2) \subseteq Slots
  <2>1. n \in Nat /\ Radix \in Nat /\ Half \in Nat /\ Radix = 2 * Half
    BY ScalarFacts
  <2>2. n >= 4
    BY CrowdFacts
  <2>3. 2 * n - 1 \in Slots /\ 2 * n - 2 \in Carriers /\ (2 * n - 2) + 1 = 2 * n - 1
    BY <2>1, <2>2 DEF Slots, Carriers
  <2>4. \A j \in Slots : j \in Nat /\ (j = 2 * n - 1 \/ j \in 0..(2 * n - 2))
    BY <2>1, <2>2 DEF Slots
  <2>5. 0..(2 * n - 2) \subseteq Slots
    BY <2>1, <2>2 DEF Slots
  <2> QED
    BY <2>1, <2>2, <2>3, <2>4, <2>5
<1>19. Crowd \in Nat /\ Crowd < Half
  <2>1. Crowd \in Nat /\ FoldedCrowd \in Nat /\ Crowd <= FoldedCrowd /\ FoldedCrowd < Half
    BY CrowdFacts
  <2> QED
    BY <1>5, <2>1
<1>6. e \in Nat /\ Crowd = n * (e * e) + 2 /\ e <= Crowd /\ Crowd \in Nat
  <2>1. e \in Nat /\ 2^(2 * ExtraBits) = e * e /\ 2 * e <= Crowd /\ Crowd \in Nat
    BY StringsFit
  <2>2. Crowd = n * 2^(2 * ExtraBits) + 2
    BY DEF Crowd
  <2> HIDE DEF e
  <2>3. Crowd = n * (e * e) + 2
    BY <2>1, <2>2
  <2> QED
    BY <2>1, <2>3
<1> HIDE DEF x, y, z, e
<1>7. w \in Nat
  BY <1>5, <1>6
<1>8. m \in Nat /\ Crowd = m + 1 /\ m < Half /\ m <= Radix
  <2> DEFINE k == n * (e * e)
  <2>1. k \in Nat
    BY <1>5, <1>6
  <2>2. Crowd < Half
    BY <1>19
  <2>3. Crowd = k + 2
    BY <1>6
  <2> HIDE DEF k
  <2>4. k + 1 \in Nat /\ Crowd = (k + 1) + 1 /\ k + 1 < Half /\ k + 1 <= Radix
    BY <1>5, <1>6, <2>1, <2>2, <2>3
  <2> QED
    BY <2>4 DEF k
<1>9. big \in Nat /\ n * (w * w) + w <= big /\ n * (w * w) \in Nat
  <2> DEFINE k == n * (e * e)
             R == Radix
  <2>1. k \in Nat /\ R \in Nat
    BY <1>5, <1>6
  <2>2. n * (w * w) = (k * R) * R
    <3> HIDE DEF R
    <3>1. n * ((R * e) * (R * e)) = ((n * (e * e)) * R) * R
      BY <1>5, <1>6, <2>1
    <3> QED
      BY <3>1 DEF R
  <2>3. big = ((k + 1) * R) * R
    BY DEF m
  <2>4. e <= R
    <3>1. Crowd < Half
      BY <1>19
    <3> QED
      BY <1>5, <1>6, <3>1
  <2>5. e * R <= R * R /\ e * R \in Nat /\ R * R \in Nat
    BY <1>6, <2>1, <2>4, ProductsGrow
  <2>6. w = e * R
    BY <1>6, <2>1
  <2> HIDE DEF k, w, big, R
  <2>7. ((k + 1) * R) * R = (k * R) * R + R * R /\ (k * R) * R \in Nat
    BY <2>1
  <2> QED
    BY <2>2, <2>3, <2>5, <2>6, <2>7
<1>10. /\ q \in Rows /\ Amount(q) = a * b /\ q[2 * n - 1] = 0
       /\ \A j \in Slots : Within(q[j], n * (w * w))
  <2>1. \A j \in Slots : Within(x[j], w) /\ Within(y[j], w)
    BY <1>1, <1>2
  <2> HIDE DEF w
  <2>2. /\ q \in Rows /\ Amount(q) = Amount(x) * Amount(y) /\ q[2 * n - 1] = 0
        /\ \A j \in Slots : Within(q[j], n * (w * w))
    BY <1>1, <1>2, <1>7, <2>1, ProductsExact
  <2> QED
    BY <1>1, <1>2, <2>2
<1> HIDE DEF q
<1>11. \A j \in Slots : z[j] \in Int /\ q[j] \in Int
  BY <1>3, <1>10 DEF Rows
<1>12. d \in Rows /\ \A j \in Slots : d[j] = z[j] - q[j] /\ d[j] \in Int
  BY <1>11 DEF Rows
<1> HIDE DEF d
<1>13. Amount(d) = c - a * b
  <2>1. \A j \in Slots : z[j] = d[j] + q[j]
    BY <1>11, <1>12
  <2>2. Amount(z) = Amount(d) + Amount(q)
    BY <1>3, <1>10, <1>12, <2>1, AmountsAdd
  <2>3. Amount(d) \in Int
    BY <1>12, AmountIsSum
  <2>4. a * b \in Int
    BY <1>1, <1>2
  <2> DEFINE ab == a * b
  <2> HIDE DEF ab
  <2>5. c = Amount(d) + ab /\ ab \in Int
    BY <1>3, <1>10, <2>2, <2>4 DEF ab
  <2>6. Amount(d) = c - ab
    BY <1>3, <2>3, <2>5
  <2> QED
    BY <2>6 DEF ab
<1>14. \A j \in Slots : Within(d[j], big)
  <2> DEFINE p1 == n * (w * w)
  <2> TAKE j \in Slots
  <2>1. Within(z[j], w) /\ Within(q[j], p1)
    BY <1>3, <1>10
  <2>2. p1 \in Nat /\ p1 + w <= big
    BY <1>9
  <2> HIDE DEF p1, w, big
  <2> QED
    BY <1>7, <1>9, <1>11, <1>12, <2>1, <2>2 DEF Within
<1>15. d[2 * n - 1] = 0
  <2>1. z[2 * n - 1] = 0
    BY <1>3, <1>5
  <2> QED
    BY <1>5, <1>10, <1>12, <2>1
<1>16. Settles(t, d, 0, 2 * n - 2, m, 0)
  <2>1. 0 \in Nat /\ 0 <= 2 * n - 2
    BY <1>5
  <2>2. Within(d[(2 * n - 2) + 1], 0)
    BY <1>5, <1>15 DEF Within
  <2>3. \A j \in 0..(2 * n - 2) : Within(d[j], (m * Radix) * Radix)
    BY <1>5, <1>14
  <2> HIDE DEF m
  <2> QED
    BY <1>5, <1>8, <1>12, <2>1, <2>2, <2>3, CarryEvenOddSettles
<1> HIDE DEF t, m
<1>17. /\ t \in Rows /\ Amount(t) = Amount(d)
       /\ \A j \in 0..(2 * n - 2) : Within(t[j], m * Radix + Radix)
       /\ Within(t[2 * n - 1], m * Radix + m)
  <2>1. /\ t \in Rows /\ Amount(t) = Amount(d)
        /\ \A j \in 0..(2 * n - 2) : Within(t[j], m * Radix + Radix)
        /\ Within(t[(2 * n - 2) + 1], 0 + m * Radix + m)
    BY <1>16 DEF Settles
  <2>2. 0 + m * Radix + m = m * Radix + m
    BY <1>5, <1>8
  <2> QED
    BY <1>5, <2>1, <2>2
<1>18. \A j \in Slots : Within(t[j], Crowd * Radix)
  <2> DEFINE mR == m * Radix
             cR == Crowd * Radix
  <2>1. mR \in Nat /\ cR = mR + Radix
    BY <1>5, <1>8
  <2> SUFFICES ASSUME NEW j \in Slots PROVE Within(t[j], cR)
    OBVIOUS
  <2>2. t[j] \in Int
    BY <1>17 DEF Rows
  <2>3. j \in 0..(2 * n - 2) => Within(t[j], mR + Radix)
    BY <1>17
  <2>4. Within(t[2 * n - 1], mR + m)
    BY <1>17
  <2> HIDE DEF mR, cR
  <2>5. CASE j = 2 * n - 1
    BY <1>5, <1>8, <2>1, <2>2, <2>4, <2>5 DEF Within
  <2>6. CASE j \in 0..(2 * n - 2)
    BY <2>1, <2>3, <2>6
  <2> QED
    BY <1>5, <2>5, <2>6
<1> QED
  BY <1>4, <1>13, <1>17, <1>18

(* sc_mulsub. *)
LEMMA MulSubExact ==
  ASSUME RoomyLimbs, NEW a \in SL!Strings, NEW b \in SL!Strings, NEW c \in SL!Strings
  PROVE  SL!sc_mulsub(a, b, c) = (c - a * b) % SL!l
<1> DEFINE t == SL!MulSubLimbs(a, b, c)
<1>1. SL!sc_mulsub(a, b, c) = SL!Pack(SL!Normalised(SL!Halved(t)))
  BY Zenon DEF SL!sc_mulsub
<1>2. /\ t \in Rows /\ Amount(t) = c - a * b
      /\ \A j \in Slots : Within(t[j], Crowd * Radix)
  BY MulSubLimbsExact
<1> HIDE DEF t
<1>3. SL!Pack(SL!Normalised(SL!Halved(t))) = Amount(t) % SL!l
  BY <1>2, FoldedExact
<1> QED
  BY <1>1, <1>2, <1>3, Zenon

(* The words sc_check compares, and the words' weights. *)
WordSlots == 0..(Words - 1)
WordWeight(i) == 2^(WordBits * i)
Gap(s, i) == WordsOfL[i] - SL!Word(s, i)
Signs(s) == [i \in WordSlots |-> SL!signum(Gap(s, i)) * 2^i]
Gaps(s) == [i \in WordSlots |-> Gap(s, i) * WordWeight(i)]
SignsBelow(s, k) == SumFunctionOnSet(Signs(s), 0..(k - 1))
GapsBelow(s, k) == SumFunctionOnSet(Gaps(s), 0..(k - 1))

(* The sizes of the words sc_check compares, and what each weighs.          *)
LEMMA WordFacts ==
  /\ Words \in Nat /\ WordBits \in Nat /\ IsFiniteSet(WordSlots) /\ WordSlots \subseteq Nat
  /\ \A i \in Nat : /\ WordBits * i \in Nat /\ WordBits * (i + 1) = WordBits * i + WordBits
                    /\ WordWeight(i) \in Nat /\ WordWeight(i) > 0
  /\ WordWeight(0) = 1
  /\ \A i \in WordSlots : WordsOfL[i] \in 0..(2^WordBits - 1)
<1>1. Words \in Nat /\ WordBits \in Nat
  BY KernelsAssumption DEF SL!ScalarsAssumption
<1>2. IsFiniteSet(WordSlots) /\ WordSlots \subseteq Nat
  <2>1. 0 \in Int /\ Words - 1 \in Int
    BY <1>1
  <2> QED
    BY <2>1, FS_Interval DEF WordSlots
<1>3. ASSUME NEW i \in Nat
      PROVE  /\ WordBits * i \in Nat /\ WordBits * (i + 1) = WordBits * i + WordBits
             /\ WordWeight(i) \in Nat /\ WordWeight(i) > 0
  <2>1. WordBits * i \in Nat /\ WordBits * (i + 1) = WordBits * i + WordBits
    BY <1>1
  <2> QED
    BY <2>1, PowerPositive DEF WordWeight
<1>4. WordWeight(0) = 1
  <2>1. WordBits * 0 = 0
    BY <1>1
  <2>2. WordWeight(0) = 2^(WordBits * 0)
    BY Zenon DEF WordWeight
  <2>3. WordWeight(0) = 2^0
    BY <2>1, <2>2, Zenon
  <2> QED
    BY <2>3, SmallPowers, SMT
<1>5. \A i \in WordSlots : WordsOfL[i] \in 0..(2^WordBits - 1)
  <2>1. WordsOfL \in [WordSlots -> 0..(2^WordBits - 1)]
    BY KernelsAssumption, Zenon DEF SL!ScalarsAssumption, WordSlots
  <2> DEFINE T == 0..(2^WordBits - 1)
  <2> HIDE DEF T
  <2> QED
    BY <2>1 DEF T
<1> QED
  BY <1>1, <1>2, <1>3, <1>4, <1>5

(* A word of s, as what it adds. *)
LEMMA WordGain ==
  ASSUME NEW s \in Nat, NEW i \in WordSlots
  PROVE  /\ SL!Word(s, i) \in Nat /\ SL!Word(s, i) < 2^WordBits
         /\ SL!Word(s, i) * WordWeight(i) = (s % WordWeight(i + 1)) - (s % WordWeight(i))
         /\ s % WordWeight(i) \in Nat /\ s % WordWeight(i + 1) \in Nat
<1>1. /\ i \in Nat /\ WordBits \in Nat /\ WordBits * i \in Nat
      /\ WordBits * (i + 1) = WordBits * i + WordBits
  BY WordFacts
<1> DEFINE k == WordBits * i
<1> HIDE DEF k
<1>2. k \in Nat
  BY <1>1 DEF k
<1>3. /\ ((s \div 2^k) % 2^WordBits) * 2^k = (s % 2^(k + WordBits)) - (s % 2^k)
      /\ (s \div 2^k) % 2^WordBits \in 0..(2^WordBits - 1)
      /\ s % 2^k \in Nat /\ s % 2^(k + WordBits) \in Nat
  BY <1>1, <1>2, DigitIsGain
<1>4. WordWeight(i) = 2^k /\ WordWeight(i + 1) = 2^(k + WordBits)
  BY <1>1, Zenon DEF WordWeight, k
<1>5. SL!Word(s, i) = (s \div 2^k) % 2^WordBits
  BY Zenon DEF SL!Word, k
<1>6. 2^WordBits \in Nat
  BY <1>1, PowerPositive
<1> DEFINE d == (s \div 2^k) % 2^WordBits
<1> HIDE DEF d
<1>7. d \in 0..(2^WordBits - 1)
  BY <1>3 DEF d
<1>8. d \in Nat /\ d < 2^WordBits
  BY <1>6, <1>7
<1> QED
  BY <1>3, <1>4, <1>5, <1>8, Zenon DEF d

(* The weighed differences add up to the difference of the numbers. *)
LEMMA GapsExact ==
  ASSUME NEW s \in SL!Strings
  PROVE  s \in Nat /\ GapsBelow(s, Words) = SL!l - s
<1>1. /\ s \in Nat /\ s < WordWeight(Words)
  <2> DEFINE k == n * B + ExtraBits
             e == WordBits * Words
  <2>1. k \in Nat /\ e \in Nat /\ k <= e
    <3>1. k <= e
      BY KernelsAssumption DEF SL!ScalarsAssumption
    <3>2. k \in Nat
      BY ScalarFacts
    <3>3. e \in Nat
      BY WordFacts
    <3> QED
      BY <3>1, <3>2, <3>3
  <2>2. s \in 0..(2^k - 1)
    BY DEF SL!Strings
  <2>3. WordWeight(Words) = 2^e
    BY DEF WordWeight
  <2> HIDE DEF k, e
  <2>4. 2^k \in Nat /\ 2^e \in Nat /\ 2^k <= 2^e
    BY <2>1, PowerPositive, PowersGrow
  <2> QED
    BY <2>2, <2>3, <2>4
<1> DEFINE words == [i \in WordSlots |-> SL!Word(s, i) * WordWeight(i)]
           order == [i \in WordSlots |-> WordsOfL[i] * WordWeight(i)]
           gaps == Gaps(s)
           c == [k \in Nat |-> s % WordWeight(k)]
<1>2. SL!l = SumFunctionOnSet(order, WordSlots)
  <2>1. SL!l = SL!SumFunction(order)
    BY KernelsAssumption, Zenon DEF SL!ScalarsAssumption, WordSlots, WordWeight
  <2>2. SL!SumFunction(order) = SumFunctionOnSet(order, DOMAIN order)
    BY SumOfScalars
  <2>3. DOMAIN order = WordSlots
    OBVIOUS
  <2> QED
    BY <2>1, <2>2, <2>3, Zenon
<1>3. /\ Words \in Nat /\ IsFiniteSet(WordSlots) /\ WordSlots = 0..(Words - 1)
      /\ \A i \in WordSlots : i \in Nat
  BY WordFacts DEF WordSlots
<1>4. \A i \in WordSlots : /\ WordsOfL[i] \in Int /\ SL!Word(s, i) \in Int
                           /\ WordWeight(i) \in Int
  <2> TAKE i \in WordSlots
  <2>1. SL!Word(s, i) \in Int
    BY <1>1, WordGain
  <2>2. WordWeight(i) \in Int
    BY <1>3, WordFacts
  <2>3. WordsOfL[i] \in 0..(2^WordBits - 1)
    BY WordFacts
  <2> QED
    BY <2>1, <2>2, <2>3
<1>5. \A i \in WordSlots : /\ words[i] \in Int /\ order[i] \in Int
                           /\ gaps[i] \in Int /\ order[i] = gaps[i] + words[i]
  <2> TAKE i \in WordSlots
  <2> DEFINE u == WordsOfL[i]
             v == SL!Word(s, i)
             w == WordWeight(i)
  <2>1. gaps[i] = (u - v) * w /\ words[i] = v * w /\ order[i] = u * w
    BY Zenon DEF Gaps, Gap
  <2>2. u \in Int /\ v \in Int /\ w \in Int
    BY <1>4
  <2> HIDE DEF u, v, w, gaps, words, order
  <2>3. u * w = (u - v) * w + v * w /\ u * w \in Int /\ v * w \in Int /\ (u - v) * w \in Int
    BY <2>2
  <2> QED
    BY <2>1, <2>3, Zenon
<1>6. c[0] = 0 /\ c[Words] = s /\ \A k \in 0..Words : c[k] \in Int
  <2>1. WordWeight(0) = 1 /\ s % 1 = 0
    BY <1>1, WordFacts
  <2>2. c[0] = 0
    BY <2>1
  <2>3. WordWeight(Words) \in Nat /\ WordWeight(Words) > 0
    BY <1>3, WordFacts
  <2>4. s % WordWeight(Words) = s
    BY <1>1, <2>3
  <2>5. ASSUME NEW k \in 0..Words PROVE c[k] \in Int
    <3>1. k \in Nat /\ WordWeight(k) \in Nat /\ WordWeight(k) > 0
      BY WordFacts
    <3> DEFINE w == WordWeight(k)
    <3> HIDE DEF w
    <3>2. s % w \in 0..(w - 1)
      BY <1>1, <3>1, Division DEF w
    <3> QED
      BY <3>1, <3>2 DEF w
  <2> QED
    BY <1>3, <2>2, <2>4, <2>5
<1>7. \A k \in 0..(Words - 1) : words[k] = c[k + 1] - c[k]
  <2> TAKE k \in 0..(Words - 1)
  <2>1. k \in WordSlots /\ k \in Nat /\ k + 1 \in Nat
    BY <1>3
  <2>2. SL!Word(s, k) * WordWeight(k) = (s % WordWeight(k + 1)) - (s % WordWeight(k))
    BY <1>1, <2>1, WordGain
  <2>3. words[k] = SL!Word(s, k) * WordWeight(k)
    BY <2>1
  <2>4. c[k + 1] = s % WordWeight(k + 1) /\ c[k] = s % WordWeight(k)
    BY <2>1
  <2> QED
    BY <2>2, <2>3, <2>4, Zenon
<1> HIDE DEF words, order, gaps, c
<1>8. SumFunctionOnSet(words, WordSlots) = s
  <2>1. 0 \in Nat /\ 0 <= Words
    BY <1>3
  <2>2. SumFunctionOnSet(words, 0..(Words - 1)) = c[Words] - c[0]
    BY <1>3, <1>6, <1>7, <2>1, SumTelescopes, SMTT(60)
  <2>3. SumFunctionOnSet(words, 0..(Words - 1)) = s
    BY <1>1, <1>6, <2>2
  <2> QED
    BY <1>3, <2>3, Zenon
<1>9. SumFunctionOnSet(order, WordSlots)
        = SumFunctionOnSet(gaps, WordSlots) + SumFunctionOnSet(words, WordSlots)
  BY <1>3, <1>5, SumOfSums
<1>10. SumFunctionOnSet(gaps, WordSlots) \in Int
  BY <1>3, <1>5, SumIsInteger
<1>11. GapsBelow(s, Words) = SumFunctionOnSet(gaps, WordSlots)
  BY Zenon DEF GapsBelow, WordSlots, gaps
<1> QED
  BY <1>1, <1>2, <1>8, <1>9, <1>10, <1>11

(* The sign of the sum of the signs below word k is that of the numbers up *)
(* to there, and neither sum reaches the weight of word k.                 *)
Agree(signs, gaps, k) ==
  /\ 0 - 2^k < signs /\ signs < 2^k
  /\ 0 - WordWeight(k) < gaps /\ gaps < WordWeight(k)
  /\ (signs >= 0) <=> (gaps >= 0)
  /\ (signs > 0) <=> (gaps > 0)

(* What one more word does to the two sums. *)
LEMMA SumsGrow ==
  ASSUME NEW s \in Nat
  PROVE  /\ SignsBelow(s, 0) = 0 /\ GapsBelow(s, 0) = 0
         /\ \A k \in WordSlots :
              /\ Gap(s, k) \in Int /\ 0 - 2^WordBits < Gap(s, k) /\ Gap(s, k) < 2^WordBits
              /\ SignsBelow(s, k) \in Int /\ GapsBelow(s, k) \in Int
              /\ SignsBelow(s, k + 1) = SignsBelow(s, k) + SL!signum(Gap(s, k)) * 2^k
              /\ GapsBelow(s, k + 1) = GapsBelow(s, k) + Gap(s, k) * WordWeight(k)
<1>1. SignsBelow(s, 0) = 0 /\ GapsBelow(s, 0) = 0
  <2>1. 0..(0 - 1) = {}
    OBVIOUS
  <2> QED
    BY <2>1, SumOfNone DEF SignsBelow, GapsBelow
<1>2. \A k \in WordSlots :
        Gap(s, k) \in Int /\ 0 - 2^WordBits < Gap(s, k) /\ Gap(s, k) < 2^WordBits
  <2> TAKE k \in WordSlots
  <2> DEFINE X == 2^WordBits
             u == WordsOfL[k]
             v == SL!Word(s, k)
  <2>1. X \in Nat
    BY WordFacts, PowerPositive
  <2>2. u \in 0..(X - 1)
    BY WordFacts
  <2>3. v \in Nat /\ v < X
    BY WordGain
  <2>4. Gap(s, k) = u - v
    BY DEF Gap
  <2> HIDE DEF X, u, v
  <2>5. Gap(s, k) \in Int /\ 0 - X < Gap(s, k) /\ Gap(s, k) < X
    BY <2>1, <2>2, <2>3, <2>4
  <2> QED
    BY <2>5 DEF X
<1> DEFINE f == Signs(s)
           g == Gaps(s)
<1>3. \A k \in WordSlots : /\ f[k] = SL!signum(Gap(s, k)) * 2^k
                           /\ g[k] = Gap(s, k) * WordWeight(k)
  BY Zenon DEF Signs, Gaps
<1> HIDE DEF f, g
<1>4. \A k \in WordSlots : f[k] \in Int /\ g[k] \in Int
  <2> TAKE k \in WordSlots
  <2>1. SL!signum(Gap(s, k)) \in Int
    BY <1>2 DEF SL!signum
  <2>2. k \in Nat /\ WordWeight(k) \in Int
    BY WordFacts
  <2>3. 2^k \in Int
    BY <2>2, PowerPositive
  <2>4. SL!signum(Gap(s, k)) * 2^k \in Int
    BY <2>1, <2>3
  <2>5. Gap(s, k) * WordWeight(k) \in Int
    BY <1>2, <2>2
  <2> QED
    BY <1>3, <2>4, <2>5, Zenon
<1>5. ASSUME NEW k \in WordSlots
      PROVE  /\ SignsBelow(s, k) \in Int /\ GapsBelow(s, k) \in Int
             /\ SignsBelow(s, k + 1) = SignsBelow(s, k) + f[k]
             /\ GapsBelow(s, k + 1) = GapsBelow(s, k) + g[k]
  <2> DEFINE S == 0..k
             T == 0..(k - 1)
  <2>1. /\ k \in S /\ S \subseteq WordSlots /\ T \subseteq WordSlots /\ S \ {k} = T
        /\ 0..((k + 1) - 1) = S
    BY WordFacts, SMTT(60) DEF WordSlots
  <2>2. /\ SignsBelow(s, k) = SumFunctionOnSet(f, T) /\ GapsBelow(s, k) = SumFunctionOnSet(g, T)
        /\ SignsBelow(s, k + 1) = SumFunctionOnSet(f, S)
        /\ GapsBelow(s, k + 1) = SumFunctionOnSet(g, S)
    BY <2>1, Zenon DEF SignsBelow, GapsBelow, f, g
  <2> HIDE DEF S, T
  <2>3. IsFiniteSet(S) /\ IsFiniteSet(T)
    BY <2>1, WordFacts, FS_Subset
  <2>4. SumFunctionOnSet(f, T) \in Int /\ SumFunctionOnSet(g, T) \in Int
    BY <1>4, <2>1, <2>3, SumIsInteger
  <2>5. SumFunctionOnSet(f, S) = f[k] + SumFunctionOnSet(f, S \ {k})
    BY <1>4, <2>1, <2>3, SumSplit
  <2>6. SumFunctionOnSet(g, S) = g[k] + SumFunctionOnSet(g, S \ {k})
    BY <1>4, <2>1, <2>3, SumSplit
  <2>7. /\ SignsBelow(s, k) \in Int /\ GapsBelow(s, k) \in Int
        /\ SignsBelow(s, k + 1) = f[k] + SignsBelow(s, k)
        /\ GapsBelow(s, k + 1) = g[k] + GapsBelow(s, k)
    BY <2>1, <2>2, <2>4, <2>5, <2>6, Zenon
  <2>8. f[k] \in Int /\ g[k] \in Int
    BY <1>4
  <2> QED
    BY <2>7, <2>8
<1> QED
  BY <1>1, <1>2, <1>3, <1>5, Zenon

(* One more word keeps them in agreement: it decides, unless it is equal.  *)
LEMMA AgreementGrows ==
  ASSUME NEW signs \in Int, NEW gaps \in Int, NEW k \in Nat, Agree(signs, gaps, k),
         NEW gap \in Int, 0 - 2^WordBits < gap, gap < 2^WordBits
  PROVE  Agree(signs + SL!signum(gap) * 2^k, gaps + gap * WordWeight(k), k + 1)
<1> DEFINE X == 2^WordBits
           P == 2^k
           Q == 2^(k + 1)
           Y == WordWeight(k)
           Z == WordWeight(k + 1)
<1>1. WordBits \in Nat /\ WordBits * k \in Nat /\ WordBits * (k + 1) = WordBits * k + WordBits
      /\ Y \in Nat /\ Y > 0
  BY WordFacts
<1>2. X \in Nat /\ X > 0 /\ P \in Nat /\ P > 0 /\ Q = P + P
  BY <1>1, PowerPositive, PowerSuccessor
<1>3. Z = Y * X
  BY <1>1, PowerSum DEF WordWeight
<1>4. /\ 0 - P < signs /\ signs < P /\ 0 - Y < gaps /\ gaps < Y
      /\ (signs >= 0) <=> (gaps >= 0)
      /\ (signs > 0) <=> (gaps > 0)
  BY DEF Agree
<1> DEFINE u == signs + SL!signum(gap) * P
           v == gaps + gap * Y
<1> SUFFICES /\ 0 - Q < u /\ u < Q /\ 0 - Z < v /\ v < Z
             /\ (u >= 0) <=> (v >= 0)
             /\ (u > 0) <=> (v > 0)
  BY DEF Agree
<1>5. 0 - X < gap /\ gap < X
  OBVIOUS
<1>6. PICK x \in Nat : X = 1 + x
  <2>1. X - 1 \in Nat /\ X = 1 + (X - 1)
    BY <1>2
  <2> QED
    BY <2>1
<1>7. Z = Y + Y * x /\ Y * x \in Nat
  BY <1>1, <1>3, <1>6
<1>11. Y \in Nat /\ Y > 0
  BY <1>1
<1>8. CASE gap = 0
  <2>1. u = signs /\ v = gaps
    BY <1>1, <1>2, <1>8 DEF SL!signum
  <2> HIDE DEF u, v, P, Q, Y, Z, X
  <2> QED
    BY <1>1, <1>2, <1>4, <1>7, <2>1
<1>9. CASE gap > 0
  <2>1. u = signs + P
    BY <1>2, <1>9 DEF SL!signum
  <2>2. PICK y \in Nat : gap = 1 + y
    <3>1. gap - 1 \in Nat /\ gap = 1 + (gap - 1)
      BY <1>9
    <3> QED
      BY <3>1
  <2> HIDE DEF P, Q, Y, Z, X
  <2>3. y + 1 <= x /\ y + 1 \in Nat
    BY <1>5, <1>6, <2>2
  <2>4. y * Y \in Nat /\ x * Y \in Nat /\ y * Y + Y <= x * Y
    <3>1. x * Y \in Nat /\ (y + 1) * Y <= x * Y
      BY <1>1, <2>3, ProductsGrow
    <3>2. (y + 1) * Y = y * Y + Y /\ y * Y \in Nat
      BY <1>11
    <3> QED
      BY <3>1, <3>2
  <2>5. gap * Y = Y + y * Y
    BY <1>1, <2>2
  <2>6. x * Y = Y * x
    BY <1>1
  <2>7. v = gaps + (Y + y * Y)
    BY <2>5
  <2> DEFINE yY == y * Y
             xY == x * Y
  <2>8. v = gaps + (Y + yY) /\ yY \in Nat /\ xY \in Nat /\ yY + Y <= xY /\ Z = Y + xY
    BY <1>7, <2>4, <2>6, <2>7, Zenon
  <2> HIDE DEF u, v, yY, xY
  <2>9. u \in Int /\ u > 0 /\ 0 - Q < u /\ u < Q
    BY <1>2, <1>4, <2>1
  <2>10. v \in Int /\ v > 0 /\ 0 - Z < v /\ v < Z
    BY <1>4, <1>11, <2>8
  <2> QED
    BY <2>9, <2>10
<1>10. CASE gap < 0
  <2>1. u = signs - P
    BY <1>2, <1>10 DEF SL!signum
  <2>2. PICK y \in Nat : gap = 0 - (1 + y)
    <3>1. (0 - gap) - 1 \in Nat /\ gap = 0 - (1 + ((0 - gap) - 1))
      BY <1>10
    <3> QED
      BY <3>1
  <2> HIDE DEF P, Q, Y, Z, X
  <2>3. y + 1 <= x /\ y + 1 \in Nat
    BY <1>5, <1>6, <2>2
  <2>4. y * Y \in Nat /\ x * Y \in Nat /\ y * Y + Y <= x * Y
    <3>1. x * Y \in Nat /\ (y + 1) * Y <= x * Y
      BY <1>1, <2>3, ProductsGrow
    <3>2. (y + 1) * Y = y * Y + Y /\ y * Y \in Nat
      BY <1>11
    <3> QED
      BY <3>1, <3>2
  <2>5. gap * Y = 0 - (Y + y * Y)
    BY <1>1, <2>2
  <2>6. x * Y = Y * x
    BY <1>1
  <2>7. v = gaps - (Y + y * Y)
    BY <1>1, <2>4, <2>5
  <2> DEFINE yY == y * Y
             xY == x * Y
  <2>8. v = gaps - (Y + yY) /\ yY \in Nat /\ xY \in Nat /\ yY + Y <= xY /\ Z = Y + xY
    BY <1>7, <2>4, <2>6, <2>7, Zenon
  <2> HIDE DEF u, v, yY, xY
  <2>9. u \in Int /\ u < 0 /\ 0 - Q < u /\ u < Q
    BY <1>2, <1>4, <2>1
  <2>10. v \in Int /\ v < 0 /\ 0 - Z < v /\ v < Z
    BY <1>4, <1>11, <2>8
  <2> QED
    BY <2>9, <2>10
<1> QED
  BY <1>8, <1>9, <1>10

(* sc_check accepts what is at most l.                                     *)
LEMMA CheckExact ==
  ASSUME NEW s \in SL!Strings
  PROVE  SL!sc_check(s) = 0 <=> s <= SL!l
<1>1. s \in Nat /\ GapsBelow(s, Words) = SL!l - s
  BY GapsExact
<1>2. Words \in Nat /\ WordSlots = 0..(Words - 1) /\ WordSlots \subseteq Nat
  BY WordFacts DEF WordSlots
<1> DEFINE Fine(k) == k <= Words => /\ Agree(SignsBelow(s, k), GapsBelow(s, k), k)
                                    /\ SignsBelow(s, k) \in Int /\ GapsBelow(s, k) \in Int
           G == {k \in Nat : Fine(k)}
<1>3. 0 \in G
  <2>1. 2^0 = 1
    BY SmallPowers, SMT
  <2>2. Agree(0, 0, 0)
    BY <2>1, WordFacts DEF Agree
  <2>3. SignsBelow(s, 0) = 0 /\ GapsBelow(s, 0) = 0
    BY <1>1, SumsGrow
  <2> QED
    BY <2>2, <2>3
<1>4. ASSUME NEW k \in Nat, k \in G PROVE k + 1 \in G
  <2>1. CASE k + 1 <= Words
    <3>1. k \in WordSlots /\ k <= Words
      BY <1>2, <2>1
    <3> DEFINE a == SignsBelow(s, k)
               b == GapsBelow(s, k)
               g == Gap(s, k)
               u == SignsBelow(s, k + 1)
               v == GapsBelow(s, k + 1)
    <3>2. Agree(a, b, k) /\ a \in Int /\ b \in Int
      BY <1>4, <3>1
    <3>3. /\ g \in Int /\ 0 - 2^WordBits < g /\ g < 2^WordBits
          /\ u = a + SL!signum(g) * 2^k /\ v = b + g * WordWeight(k)
      BY <1>1, <3>1, SumsGrow
    <3> HIDE DEF a, b, g
    <3>4. Agree(a + SL!signum(g) * 2^k, b + g * WordWeight(k), k + 1)
      BY <1>4, <3>2, <3>3, AgreementGrows
    <3>5. Agree(u, v, k + 1)
      BY <3>3, <3>4, Zenon
    <3>6. u \in Int
      <4>1. SL!signum(g) \in Int
        BY <3>3 DEF SL!signum
      <4>2. 2^k \in Int
        BY <1>4, PowerPositive
      <4>3. SL!signum(g) * 2^k \in Int
        BY <4>1, <4>2
      <4> QED
        BY <3>2, <3>3, <4>3
    <3>7. v \in Int
      <4>1. WordWeight(k) \in Int
        BY <1>4, WordFacts
      <4>2. g * WordWeight(k) \in Int
        BY <3>3, <4>1
      <4> QED
        BY <3>2, <3>3, <4>2
    <3> QED
      BY <3>5, <3>6, <3>7
  <2>2. CASE ~ (k + 1 <= Words)
    BY <2>2
  <2> QED
    BY <2>1, <2>2
<1>5. Nat \subseteq G
  <2> HIDE DEF G
  <2> QED
    BY <1>3, <1>4, NaturalInduction
<1> DEFINE sum == SignsBelow(s, Words)
           size == 2^Words
<1>6. sum \in Int /\ 0 - size < sum /\ sum < size /\ (sum >= 0 <=> SL!l - s >= 0)
  <2>1. /\ Agree(SignsBelow(s, Words), GapsBelow(s, Words), Words)
        /\ SignsBelow(s, Words) \in Int
    BY <1>2, <1>5
  <2> QED
    BY <1>1, <2>1 DEF Agree
<1>7. SL!sc_check(s) = sum \div size
  <2> DEFINE f == [i \in 0..(Words - 1) |-> SL!signum(WordsOfL[i] - SL!Word(s, i)) * 2^i]
  <2>1. SL!sc_check(s) = SL!SumFunction(f) \div size
    BY Zenon DEF SL!sc_check
  <2>2. f = Signs(s) /\ DOMAIN f = 0..(Words - 1)
    BY Zenon DEF Signs, Gap, WordSlots
  <2>3. SL!SumFunction(f) = SumFunctionOnSet(f, DOMAIN f)
    BY SumOfScalars
  <2> HIDE DEF f
  <2> QED
    BY <2>1, <2>2, <2>3, Zenon DEF SignsBelow
<1>8. size \in Nat /\ size > 0
  BY <1>2, PowerPositive
<1> HIDE DEF sum, size
<1>9. sum \div size = 0 <=> sum >= 0
  <2>1. sum = size * (sum \div size) + (sum % size) /\ sum \div size \in Int
        /\ sum % size \in 0..(size - 1)
    BY <1>6, <1>8, Division
  <2>2. ASSUME sum >= 0 PROVE sum \div size = 0
    BY <1>6, <1>8, <2>2, QuotientBelow
  <2>3. ASSUME sum \div size = 0 PROVE sum >= 0
    <3> DEFINE q == sum \div size
               r == sum % size
    <3> HIDE DEF q, r
    <3>1. q = 0 /\ sum = size * q + r /\ r \in 0..(size - 1)
      BY <2>1, <2>3 DEF q, r
    <3>2. size * 0 = 0
      BY <1>8
    <3> QED
      BY <1>8, <3>1, <3>2
  <2> QED
    BY <2>2, <2>3
<1>10. SL!l - s >= 0 <=> s <= SL!l
  <2>1. SL!l \in Int
    BY OrderFacts
  <2> QED
    BY <1>1, <2>1
<1> QED
  BY <1>6, <1>7, <1>9, <1>10, Zenon

(* The functions of the binding and of the signatures. *)
LEMMA ScalarStep ==
  ASSUME RoomyLimbs, RunScalar
  PROVE  ScalarsCanonical'
<1> USE DEF Called, In, Out, ScalarsCanonical
<1> DEFINE Given(call, in, out) == job'[1] = call /\ job'[2] = in /\ job'[3] = out
<1>1. \A call, in, out : Run(call, in, out) => Given(call, in, out)
  BY DEF Run
<1>2. /\ ScalarStrings \subseteq SL!Strings /\ WideStrings \subseteq SL!Doubles
  BY ArgumentsAssumption
<1>3. CASE \E s \in WideStrings : Run("sc_reduce", << s >>, SL!sc_reduce(s))
  <2>1. PICK s \in WideStrings : Given("sc_reduce", << s >>, SL!sc_reduce(s))
    BY <1>1, <1>3, Zenon
  <2>2. job'[2][1] = s
    BY <2>1
  <2>3. SL!sc_reduce(s) = s % SL!l
    BY <1>2, ReduceExact
  <2> QED
    BY <2>1, <2>2, <2>3
<1>4. CASE \E s \in ScalarStrings : Run("sc_reduce32", << s >>, SL!sc_reduce32(s))
  <2>1. PICK s \in ScalarStrings : Given("sc_reduce32", << s >>, SL!sc_reduce32(s))
    BY <1>1, <1>4, Zenon
  <2>2. job'[2][1] = s
    BY <2>1
  <2>3. SL!sc_reduce32(s) = s % SL!l
    BY <1>2, Reduce32Exact
  <2> QED
    BY <2>1, <2>2, <2>3
<1>5. CASE \E s \in ScalarStrings : Run("sc_check", << s >>, SL!sc_check(s))
  <2>1. PICK s \in ScalarStrings : Given("sc_check", << s >>, SL!sc_check(s))
    BY <1>1, <1>5, Zenon
  <2>2. job'[2][1] = s
    BY <2>1
  <2>3. SL!sc_check(s) = 0 <=> s <= SL!l
    BY <1>2, CheckExact
  <2> QED
    BY <2>1, <2>2, <2>3
<1>6. CASE \E a, b \in ScalarStrings : Run("sc_add", << a, b >>, SL!sc_add(a, b))
  <2>1. PICK a, b \in ScalarStrings : Given("sc_add", << a, b >>, SL!sc_add(a, b))
    BY <1>1, <1>6, Zenon
  <2>2. job'[2][1] = a /\ job'[2][2] = b
    BY <2>1
  <2>3. SL!sc_add(a, b) = (a + b) % SL!l
    BY <1>2, SumReduced
  <2> QED
    BY <2>1, <2>2, <2>3
<1>7. CASE \E a, b \in ScalarStrings : Run("sc_sub", << a, b >>, SL!sc_sub(a, b))
  <2>1. PICK a, b \in ScalarStrings : Given("sc_sub", << a, b >>, SL!sc_sub(a, b))
    BY <1>1, <1>7, Zenon
  <2>2. job'[2][1] = a /\ job'[2][2] = b
    BY <2>1
  <2>3. SL!sc_sub(a, b) = (a - b) % SL!l
    BY <1>2, SumReduced
  <2> QED
    BY <2>1, <2>2, <2>3
<1>8. CASE \E a, b, c \in ScalarStrings : Run("sc_mulsub", << a, b, c >>, SL!sc_mulsub(a, b, c))
  <2>1. PICK a, b, c \in ScalarStrings : Given("sc_mulsub", << a, b, c >>, SL!sc_mulsub(a, b, c))
    BY <1>1, <1>8, Zenon
  <2>2. job'[2][1] = a /\ job'[2][2] = b /\ job'[2][3] = c
    BY <2>1
  <2>3. SL!sc_mulsub(a, b, c) = (c - a * b) % SL!l
    BY <1>2, MulSubExact
  <2> QED
    BY <2>1, <2>2, <2>3
<1> QED
  BY <1>3, <1>4, <1>5, <1>6, <1>7, <1>8, Zenon DEF RunScalar

(* A step that is not a call of a scalar function leaves none of their      *)
(* names in job, unless it leaves job alone.                                *)
LEMMA OtherCalls ==
  ASSUME [Next]_vars
  PROVE  \/ job' = job
         \/ RunScalar
         \/ job'[1] \notin {"sc_reduce", "sc_reduce32", "sc_check", "sc_add", "sc_sub",
                            "sc_mulsub"}
<1>1. ASSUME NEW call, NEW in, NEW out, Run(call, in, out)
      PROVE  job'[1] = call
  BY <1>1 DEF Run
<1>2. RunPower => job'[1] = "power"
  BY DEF RunPower, Run
<1>3. RunRecoding \/ RunVarint \/ RunSecretbox
        => job'[1] \in {"recoding", "varint", "secretboxOpen"}
  BY <1>1 DEF RunRecoding, RunVarint, RunSecretbox
<1>4. RunCodec => job'[1] \in {"hextobin", "hextobinStrict", "bintohex", "bin2base64"}
  BY <1>1, Zenon DEF RunCodec
<1>5. RunHash => job'[1] \in {"round", "blocks", "sha1 padding", "double round",
                             "cn_fast_hash", "sha1", "chacha"}
  BY <1>1, ArgumentsAssumption, Zenon DEF RunHash
<1>6. \/ job' = job \/ job' = Idle \/ job' = << "field", << >>, << >> >>
      \/ RunScalar \/ RunRecoding \/ RunPower \/ RunVarint
      \/ RunCodec \/ RunSecretbox \/ RunHash
  BY DEF Next, LoadElements, Add, Subtract, Negate, Multiply, Square, SquareTwice, Move,
         Compute, Done, vars
<1>7. CASE job' = Idle \/ job' = << "field", << >>, << >> >>
  BY <1>7 DEF Idle
<1> QED
  BY <1>2, <1>3, <1>4, <1>5, <1>6, <1>7

(* Limbs with room for the carries: whatever strings of 32 or 64 bytes the *)
(* scalar functions are given, what they answer is the one number below l  *)
(* that the arithmetic means, and sc_check accepts exactly what is at most *)
(* l.                                                                      *)
THEOREM ScalarsAreCanonical ==
  ASSUME RoomyLimbs
  PROVE  Spec => []ScalarsCanonical
<1> USE DEF Called, In, Out, Idle, ScalarsCanonical
<1>1. Init => ScalarsCanonical
  BY DEF Init
<1>2. ASSUME ScalarsCanonical, [Next]_vars PROVE ScalarsCanonical'
  <2>1. CASE RunScalar
    BY <2>1, ScalarStep
  <2>2. CASE job'[1] \notin {"sc_reduce", "sc_reduce32", "sc_check", "sc_add", "sc_sub",
                             "sc_mulsub"}
    BY <2>2, Zenon
  <2>3. CASE job' = job
    BY <1>2, <2>3, Zenon
  <2> QED
    BY <1>2, <2>1, <2>2, <2>3, OtherCalls
<1> QED
  BY <1>1, <1>2, PTL DEF Spec

(* The program's limbs have that room: 12 limbs of 21 bits, and 4 bits in  *)
(* 32 bytes that they leave over.                                          *)
LEMMA ProgramIsRoomy ==
  ASSUME n = 12, B = 21, ExtraBits = 4
  PROVE  RoomyLimbs
<1>1. Upper = 6
  BY SMT DEF Upper, SL!h
<1>2. 2^21 = 2097152
  <2>1. 2^(18 + 3) = 2^18 * 2^3
    BY PowerSum, SMT
  <2> QED
    BY <2>1, SmallPowers, SMT
<1>3. Crowd = 3074
  <2>1. 2^(2 * ExtraBits) = 2^8
    BY SMT
  <2> QED
    BY <2>1, SmallPowers, SMT DEF Crowd
<1>4. FoldedCrowd = 21518
  BY <1>1, <1>3, SMT DEF FoldedCrowd
<1>5. HalvedCrowd = 169076
  BY <1>1, <1>3, <1>4, SMT DEF HalvedCrowd
<1> QED
  BY <1>2, <1>5, SMT DEF RoomyLimbs

(* The library as it is built. *)
THEOREM ProgramScalarsAreCanonical ==
  ASSUME n = 12, B = 21, ExtraBits = 4
  PROVE  Spec => []ScalarsCanonical
BY ProgramIsRoomy, ScalarsAreCanonical
=============================================================================
