------------------------ MODULE CryptoKernelsProofs ------------------------
(***************************************************************************)
(* What the pure functions promise their caller, for every value of the    *)
(* constants.                                                              *)
(*                                                                         *)
(* The operations of the field keep the value of every sequence of them    *)
(* and, where limbs have room for the carries, the bounds that the caller  *)
(* counts; so fe_tobytes writes the one number below p.                    *)
(*                                                                         *)
(* The three recodings of a scalar, at the end, keep its value and stay in *)
(* their tables, for scalars of any number of bytes.  In radix 16 the      *)
(* digits written so far and the carry weigh as much as the bytes read so  *)
(* far.  In slide the whole array weighs as much as the scalar all along,  *)
(* unless a carry runs out of the top; it cannot, because what lies below  *)
(* the digit in hand is never far below zero.                              *)
(***************************************************************************)
EXTENDS CryptoKernels, KernelLemmas

Reduced(e) == e.value \in 0..(p - 1) /\ Means(e.limbs, e.value)
FieldInvariant == Reduced(left) /\ Reduced(right)

(* Times multiplies in three parts, to stay in TLC's integers: the parts   *)
(* are those of the product modulo p.                                      *)
LEMMA TimesExact ==
  ASSUME NEW a \in Nat, NEW b \in Nat
  PROVE  Times(a, b) = (a * b) % p
<1> DEFINE b0 == b % 256
           b1 == (b \div 256) % 256
           b2 == b \div 65536
           High == (a * b2) % p
           Mid == High * 256 + a * b1
           Middle == Mid % p
           Low == Middle * 256 + a * b0
<1>1. b0 \in Nat /\ b1 \in Nat /\ b2 \in Nat /\ b = b2 * 65536 + b1 * 256 + b0
  OBVIOUS
<1>2. p \in Nat /\ p > 0 /\ p \in Int
  BY Modulus
<1>3. Times(a, b) = Low % p
  BY DEF Times
<1> HIDE DEF b0, b1, b2
<1>4. a * b2 \in Int /\ a * b1 \in Int /\ a * b0 \in Int
  BY <1>1
<1>5. PICK j \in Int : High = a * b2 + p * j
  <2>1. Congruent(High, a * b2, p)
    BY <1>2, <1>4, RemainderCongruent
  <2> QED
    BY <2>1 DEF Congruent
<1>6. High \in Int
  BY <1>2, <1>4, <1>5
<1> HIDE DEF High
<1>7. Mid \in Int
  BY <1>4, <1>6
<1>8. PICK k \in Int : Middle = Mid + p * k
  <2>1. Congruent(Middle, Mid, p)
    BY <1>2, <1>7, RemainderCongruent
  <2> QED
    BY <2>1 DEF Congruent
<1> DEFINE m == (j * 256 + k) * 256
<1>9. Middle * 256 + a * b0 = a * b + p * m
  <2>1. Mid = (a * b2 + p * j) * 256 + a * b1
    BY <1>5
  <2> HIDE DEF Mid, Middle
  <2>2. a * b = a * (b2 * 65536 + b1 * 256 + b0)
    BY <1>1
  <2>3. a * (b2 * 65536 + b1 * 256 + b0) = (a * b2) * 65536 + (a * b1) * 256 + a * b0
    BY <1>1
  <2>4. p * j \in Int /\ p * k \in Int /\ p * m = (p * j) * 65536 + (p * k) * 256
    BY <1>2
  <2> HIDE DEF m
  <2> QED
    BY <1>4, <1>8, <2>1, <2>2, <2>3, <2>4
<1>10. Low \in Int /\ a * b \in Int /\ m \in Int
  BY <1>2, <1>4, <1>7, <1>8
<1>11. Low = a * b + p * m
  BY <1>9
<1> HIDE DEF Low, m
<1>12. Congruent(Low, a * b, p)
  BY <1>10, <1>11 DEF Congruent
<1> QED
  BY <1>2, <1>3, <1>10, <1>12, CongruentRemainders

(* Limbs that stand for v stand for v modulo p.                            *)
LEMMA ReducedValue ==
  ASSUME NEW f, NEW v \in Int, Means(f, v)
  PROVE  v % p \in 0..(p - 1) /\ Means(f, v % p)
<1>1. v % p \in 0..(p - 1) /\ Congruent(v, v % p, p) /\ p \in Int
  BY Modulus, Division, RemainderCongruent
<1>2. v % p \in Int
  BY <1>1
<1> QED
  BY <1>1, <1>2, CongruentTransitive DEF Means

(* What is below p is its own remainder.                                   *)
LEMMA ReducedIsOwnRemainder ==
  ASSUME NEW v \in 0..(p - 1)
  PROVE  v \in Int /\ v % p = v
<1>1. v \in Int /\ p \in Nat /\ p > 0
  BY Modulus
<1>2. (p * 0 + v) % p = v
  BY <1>1, DivisionUnique
<1>3. p * 0 + v = v
  BY <1>1
<1> QED
  BY <1>1, <1>2, <1>3

(* fe_0 stands for 0.                                                      *)
LEMMA ZeroReduced == Reduced(Zero)
<1>1. fe_0 \in Vectors
  BY DEF fe_0, Vectors
<1>2. Integer(fe_0) = 0
  <2>1. Terms(fe_0) = [i \in Limb |-> 0 * Terms(fe_0)[i]] /\ \A i \in Limb : Terms(fe_0)[i] = 0
    <3>1. \A i \in Limb : i \in 0..N
      BY LimbFacts DEF Limb
    <3> QED
      BY <3>1, Weights DEF fe_0, Terms
  <2> DEFINE t == Terms(fe_0)
  <2>2. \A i \in Limb : t[i] \in Int /\ t[i] = 0 * t[i]
    BY <2>1
  <2>3. Integer(fe_0) = SumFunctionOnSet(t, Limb) /\ Integer(fe_0) \in Int
    BY <1>1, IntegerIsSum
  <2> HIDE DEF t
  <2>4. SumFunctionOnSet(t, Limb) = 0 * SumFunctionOnSet(t, Limb)
    BY <2>2, LimbFacts, SumScaled
  <2> QED
    BY <2>3, <2>4
<1>3. Congruent(Integer(fe_0), 0, p)
  <2>1. Integer(fe_0) = 0 + p * 0
    BY <1>2, Modulus
  <2> QED
    BY <2>1 DEF Congruent
<1> QED
  BY <1>1, <1>3, Modulus DEF Reduced, Zero, Operand, Means

(* The element that an operation leaves.                                   *)
LEMMA OperandReduced ==
  ASSUME NEW f, NEW b, NEW v \in Int, Means(f, v)
  PROVE  Reduced(Operand(f, b, v % p))
BY ReducedValue DEF Reduced, Operand

(* The invariant at the start: both elements are zero.                     *)
LEMMA FieldInit == Init => FieldInvariant
BY ZeroReduced DEF Init, FieldInvariant

(* Each operation keeps it, by the theorem on its function.                *)
LEMMA FieldStep == FieldInvariant /\ [Next]_vars => FieldInvariant'
<1> SUFFICES ASSUME FieldInvariant, [Next]_vars
             PROVE  Reduced(left') /\ Reduced(right')
  BY DEF FieldInvariant, Reduced
<1> DEFINE f == left.limbs
           g == right.limbs
           v == left.value
           w == right.value
<1>1. /\ Means(f, v) /\ Means(g, w) /\ v \in 0..(p - 1) /\ w \in 0..(p - 1)
      /\ Reduced(left) /\ Reduced(right)
  BY DEF FieldInvariant, Reduced
<1>2. v \in Nat /\ w \in Nat /\ v \in Int /\ w \in Int
  BY <1>1, Modulus
<1>3. CASE LoadElements
  <2>1. ASSUME NEW s \in ElementStrings
        PROVE  Reduced(Operand(fe_frombytes(s), ProductBound, (s % 2^K) % p))
    <3>1. s \in Nat
      BY ArgumentsAssumption
    <3>2. s % 2^K \in Int
      BY <3>1, Positions, PowerPositive, Division
    <3> QED
      BY <3>1, <3>2, LoadMeans, OperandReduced
  <2> QED
    BY <1>3, <2>1 DEF LoadElements
<1> HIDE DEF f, g, v, w
<1>4. CASE Add
  <2>1. Means(fe_add(f, g), v + w) /\ v + w \in Int
    BY <1>1, <1>2, AddMeans
  <2>2. left' = Operand(fe_add(f, g), left.bound + right.bound, (v + w) % p) /\ right' = right
    BY <1>4 DEF Add, Compute, f, g, v, w
  <2> QED
    BY <1>1, <2>1, <2>2, OperandReduced
<1>5. CASE Subtract
  <2>1. Means(fe_sub(f, g), v - w) /\ v - w \in Int
    BY <1>1, <1>2, AddMeans
  <2>2. left' = Operand(fe_sub(f, g), left.bound + right.bound, (v - w) % p) /\ right' = right
    BY <1>5 DEF Subtract, Compute, f, g, v, w
  <2> QED
    BY <1>1, <2>1, <2>2, OperandReduced
<1>6. CASE Negate
  <2>1. Means(fe_neg(f), -v) /\ -v \in Int
    BY <1>1, <1>2, AddMeans
  <2>2. left' = Operand(fe_neg(f), left.bound, (-v) % p) /\ right' = right
    BY <1>6 DEF Negate, Compute, f, v
  <2> QED
    BY <1>1, <2>1, <2>2, OperandReduced
<1>7. CASE Multiply
  <2>1. Means(fe_mul(f, g), v * w) /\ v * w \in Int
    BY <1>1, <1>2, ProductMeans
  <2>2. Times(v, w) = (v * w) % p
    BY <1>2, TimesExact
  <2>3. left' = Operand(fe_mul(f, g), ProductBound, Times(v, w)) /\ right' = right
    BY <1>7 DEF Multiply, Compute, f, g, v, w
  <2> QED
    BY <1>1, <2>1, <2>2, <2>3, OperandReduced
<1>8. CASE Square
  <2>1. Means(fe_sq(f), v * v) /\ v * v \in Int
    BY <1>1, <1>2, SquareMeans
  <2>2. Times(v, v) = (v * v) % p
    BY <1>2, TimesExact
  <2>3. left' = Operand(fe_sq(f), ProductBound, Times(v, v)) /\ right' = right
    BY <1>8 DEF Square, Compute, f, v
  <2> QED
    BY <1>1, <2>1, <2>2, <2>3, OperandReduced
<1>9. CASE SquareTwice
  <2> DEFINE u == v * v
             x == 2 * u
             y == 2 * (u % p)
  <2>1. Means(fe_sq2(f), x) /\ u \in Int
    BY <1>1, <1>2, SquareTwiceMeans
  <2>3. Times(v, v) = u % p
    BY <1>2, TimesExact
  <2>2. Means(fe_sq2(f), y) /\ y \in Int
    <3> HIDE DEF u
    <3>1. Congruent(u, u % p, p) /\ p \in Int /\ u % p \in Int
      BY <2>1, Modulus, Division, RemainderCongruent
    <3>2. PICK k \in Int : u = (u % p) + p * k
      BY <3>1 DEF Congruent
    <3>3. x = y + p * (2 * k) /\ x \in Int /\ y \in Int
      BY <2>1, <3>1, <3>2
    <3>4. Congruent(x, y, p)
      BY <3>3 DEF Congruent
    <3> HIDE DEF x, y
    <3> QED
      BY <2>1, <3>1, <3>3, <3>4, CongruentTransitive DEF Means
  <2>4. left' = Operand(fe_sq2(f), ProductBound, (2 * Times(v, v)) % p) /\ right' = right
    BY <1>9 DEF SquareTwice, Compute, f, v
  <2>5. left' = Operand(fe_sq2(f), ProductBound, y % p)
    BY <2>3, <2>4
  <2> HIDE DEF y
  <2> QED
    BY <1>1, <2>2, <2>4, <2>5, OperandReduced
<1>10. CASE Move
  <2>1. PICK b \in {0, 1} :
          LET from == IF b = 1 THEN right ELSE left
          IN  Compute(fe_cmov(fe_copy(f), g, b), from.bound, from.value)
    BY <1>10 DEF Move, f, g
  <2>2. fe_cmov(fe_copy(f), g, b) = IF b = 1 THEN g ELSE f
    BY <1>1, MoveExact DEF Means
  <2> QED
    BY <1>1, <2>1, <2>2 DEF Compute, Reduced, Operand, f, g
<1>11. CASE Done
  BY <1>11, ZeroReduced DEF Done
<1>12. CASE RunScalar \/ RunRecoding \/ RunPower \/ RunVarint \/ RunCodec \/ RunSecretbox \/ RunHash
  <2>1. left' = left /\ right' = right
    BY <1>12 DEF RunScalar, RunRecoding, RunPower, RunVarint, RunCodec, RunSecretbox, RunHash, Run
  <2> QED
    BY <1>1, <2>1
<1>13. CASE UNCHANGED vars
  BY <1>1, <1>13 DEF vars
<1> QED
  BY <1>3, <1>4, <1>5, <1>6, <1>7, <1>8, <1>9, <1>10, <1>11, <1>12, <1>13 DEF Next

(* fe_add ... fe_sq2, for limbs of any number and width: whatever sequence *)
(* of operations is made, the limbs stand for its value in the field.      *)
THEOREM FieldIsExact == Spec => []FieldExact
<1>1. FieldInvariant => FieldExact
  BY MeansElement, Modulus, ReducedIsOwnRemainder DEF FieldInvariant, Reduced, FieldExact
<1> QED
  BY <1>1, FieldInit, FieldStep, PTL DEF Spec
-----------------------------------------------------------------------------
(***************************************************************************)
(* The bytes of an element are canonical.  What every element left by the  *)
(* operations keeps is the bound of the library's comments: the limbs fit  *)
(* the bound that the caller counts, in hundredths of half a width.        *)
(***************************************************************************)
Bounded(e) == e.bound \in 0..MulLimit /\ Fits(e.limbs, e.bound)
BoundInvariant == FieldInvariant /\ Bounded(left) /\ Bounded(right)

(* Limbs that fit a bound fit a larger one.                                *)
LEMMA FitsMore ==
  ASSUME NEW f \in Vectors, NEW a \in Nat, NEW b \in Nat, a <= b, Fits(f, a)
  PROVE  Fits(f, b)
<1> SUFFICES ASSUME NEW j \in Limb PROVE AtMost(200 * f[j], b * 2^Width(j))
  BY DEF Fits
<1> DEFINE w == 2^Width(j)
           x == 200 * f[j]
<1>1. w \in Nat /\ x \in Int /\ AtMost(x, a * w)
  BY Positions, PowerPositive DEF Fits, Vectors
<1> HIDE DEF w, x
<1>2. PICK y \in Nat : b = a + y
  <2>1. b - a \in Nat /\ b = a + (b - a)
    OBVIOUS
  <2> QED
    BY <2>1
<1>3. b * w = a * w + y * w
  BY <1>1, <1>2
<1>4. a * w \in Nat /\ y * w \in Nat
  BY <1>1, <1>2
<1>5. AtMost(x, b * w)
  BY <1>1, <1>3, <1>4 DEF AtMost
<1> QED
  BY <1>5 DEF w, x

(* fe_0 fits, and fe_add, fe_sub and fe_neg add up what their arguments    *)
(* fit.                                                                    *)
LEMMA SumsFit ==
  ASSUME NEW f \in Vectors, NEW a \in Nat, Fits(f, a),
         NEW g \in Vectors, NEW b \in Nat, Fits(g, b)
  PROVE  Fits(fe_add(f, g), a + b) /\ Fits(fe_sub(f, g), a + b) /\ Fits(fe_neg(f), a)
<1>1. ASSUME NEW j \in Limb
      PROVE  /\ AtMost(200 * fe_add(f, g)[j], (a + b) * 2^Width(j))
             /\ AtMost(200 * fe_sub(f, g)[j], (a + b) * 2^Width(j))
             /\ AtMost(200 * fe_neg(f)[j], a * 2^Width(j))
  <2> DEFINE w == 2^Width(j)
             x == 200 * f[j]
             y == 200 * g[j]
             aw == a * w
             bw == b * w
  <2>1. w \in Nat /\ x \in Int /\ y \in Int /\ f[j] \in Int /\ g[j] \in Int
    BY Positions, PowerPositive DEF Vectors
  <2>2. AtMost(x, aw) /\ AtMost(y, bw)
    BY DEF Fits
  <2>3. /\ 200 * fe_add(f, g)[j] = x + y /\ 200 * fe_sub(f, g)[j] = x - y
        /\ 200 * fe_neg(f)[j] = 0 - x
    BY <2>1 DEF fe_add, fe_sub, fe_neg
  <2> HIDE DEF x, y
  <2>4. aw \in Int /\ bw \in Int /\ (a + b) * w = aw + bw
    <3> HIDE DEF w
    <3> QED
      BY <2>1
  <2> HIDE DEF aw, bw
  <2>5. AtMost(x + y, aw + bw) /\ AtMost(0 - x, aw) /\ AtMost(x - y, aw + bw)
    BY <2>1, <2>2, <2>4, AtMostSum, Zenon
  <2> QED
    BY <2>3, <2>4, <2>5 DEF aw
<1> QED
  BY <1>1 DEF Fits

(* Zero is within every bound.                                             *)
LEMMA ZeroBounded == Bounded(Zero)
<1>1. ASSUME NEW j \in Limb PROVE AtMost(200 * fe_0[j], 0 * 2^Width(j))
  <2>1. fe_0[j] = 0 /\ 2^Width(j) \in Nat
    BY Positions, PowerPositive DEF fe_0
  <2> QED
    BY <2>1 DEF AtMost
<1> QED
  BY <1>1 DEF Bounded, Zero, Operand, Fits, MulLimit

(* What fits the bound of a product.                                       *)
LEMMA ProductBounded ==
  ASSUME NEW f, Fits(f, 101), NEW v
  PROVE  Bounded(Operand(f, ProductBound, v))
BY DEF Bounded, Operand, ProductBound, MulLimit

(* Each operation keeps the bounds: loads and products by the carries that *)
(* end them, sums by the caller's account, that stops them at MulLimit.    *)
LEMMA BoundStep ==
  ASSUME RoomyElements
  PROVE  BoundInvariant /\ [Next]_vars => BoundInvariant'
<1> SUFFICES ASSUME BoundInvariant, [Next]_vars
             PROVE  Bounded(left') /\ Bounded(right')
  BY FieldStep DEF BoundInvariant, Bounded
<1> DEFINE f == left.limbs
           g == right.limbs
           a == left.bound
           b == right.bound
<1>1. /\ f \in Vectors /\ g \in Vectors /\ a \in 0..330 /\ b \in 0..330
      /\ Fits(f, a) /\ Fits(g, b) /\ Bounded(left) /\ Bounded(right)
  BY DEF BoundInvariant, FieldInvariant, Reduced, Means, Bounded, MulLimit
<1>2. a \in Nat /\ b \in Nat /\ a <= 330 /\ b <= 330 /\ 330 \in Nat
  BY <1>1
<1>3. CASE LoadElements
  <2>1. ASSUME NEW s \in ElementStrings
        PROVE  Bounded(Operand(fe_frombytes(s), ProductBound, (s % 2^K) % p))
    <3>1. s \in Nat
      BY ArgumentsAssumption
    <3> QED
      BY <3>1, LoadFits, ProductBounded
  <2> QED
    BY <1>3, <2>1 DEF LoadElements
<1>4. Fits(f, 330) /\ Fits(g, 330)
  <2> HIDE DEF f, g, a, b
  <2> QED
    BY <1>1, <1>2, FitsMore, Zenon
<1> HIDE DEF f, g, a, b
<1>5. CASE Add \/ Subtract \/ Negate
  <2>1. Fits(fe_add(f, g), a + b) /\ Fits(fe_sub(f, g), a + b) /\ Fits(fe_neg(f), a)
    BY <1>1, <1>2, SumsFit
  <2>2. PICK h, c, v : Compute(h, c, v) /\ Fits(h, c) /\ c \in Nat
    <3>1. CASE Add
      BY <1>2, <2>1, <3>1 DEF Add, f, g, a, b
    <3>2. CASE Subtract
      BY <1>2, <2>1, <3>2 DEF Subtract, f, g, a, b
    <3>3. CASE Negate
      BY <1>2, <2>1, <3>3 DEF Negate, f, a
    <3> QED
      BY <1>5, <3>1, <3>2, <3>3
  <2> QED
    BY <1>1, <2>2 DEF Compute, Bounded, Operand, MulLimit
<1>6. CASE Multiply \/ Square \/ SquareTwice
  <2>1. Fits(fe_mul(f, g), 101) /\ Fits(fe_sq(f), 101) /\ Fits(fe_sq2(f), 101)
    BY <1>1, <1>4, ProductsFit
  <2>2. PICK h, v : Compute(h, ProductBound, v) /\ Fits(h, 101)
    BY <1>6, <2>1 DEF Multiply, Square, SquareTwice, f, g
  <2> QED
    BY <1>1, <2>2, ProductBounded DEF Compute
<1>7. CASE Move
  <2>1. PICK bit \in {0, 1} :
          LET from == IF bit = 1 THEN right ELSE left
          IN  Compute(fe_cmov(fe_copy(f), g, bit), from.bound, from.value)
    BY <1>7 DEF Move, f, g
  <2>2. fe_cmov(fe_copy(f), g, bit) = IF bit = 1 THEN g ELSE f
    BY <1>1, MoveExact
  <2> QED
    BY <1>1, <2>1, <2>2 DEF Compute, Bounded, Operand, f, g
<1>8. CASE Done
  BY <1>8, ZeroBounded DEF Done
<1>9. CASE RunScalar \/ RunRecoding \/ RunPower \/ RunVarint \/ RunCodec \/ RunSecretbox \/ RunHash
  <2>1. left' = left /\ right' = right
    BY <1>9 DEF RunScalar, RunRecoding, RunPower, RunVarint, RunCodec, RunSecretbox, RunHash, Run
  <2> QED
    BY <1>1, <2>1
<1>10. CASE UNCHANGED vars
  BY <1>1, <1>10 DEF vars
<1> QED
  BY <1>3, <1>5, <1>6, <1>7, <1>8, <1>9, <1>10 DEF Next

(* fe_tobytes, fe_isnegative and fe_isnonzero of limbs within their bound. *)
LEMMA BoundedIsCanonical == BoundInvariant => CanonicalBytes
<1> SUFFICES ASSUME BoundInvariant, NEW e \in {left, right}, e.bound <= BytesLimit
             PROVE  fe_tobytes(e.limbs) = e.value
  BY DEF CanonicalBytes, fe_isnegative, fe_isnonzero
<1>1. Reduced(e) /\ Bounded(e)
  BY DEF BoundInvariant, FieldInvariant
<1> DEFINE f == e.limbs
           a == e.bound
           v == e.value
<1>2. f \in Vectors /\ Means(f, v) /\ v \in 0..(p - 1) /\ a \in Nat /\ a <= 220 /\ Fits(f, a)
  BY <1>1 DEF Reduced, Means, Bounded, MulLimit, BytesLimit
<1> HIDE DEF f, a, v
<1>3. Fits(f, 220)
  BY <1>2, FitsMore
<1>4. fe_tobytes(f) = Integer(f) % p
  BY <1>2, <1>3, BytesExact
<1>5. Integer(f) % p = v % p /\ v % p = v
  BY <1>2, MeansElement, ReducedIsOwnRemainder DEF Element
<1> QED
  BY <1>4, <1>5 DEF f, v

(* fe_tobytes, for roomy limbs of any number and width: whatever sequence  *)
(* of additions and products went before, none of them reduced, the bytes  *)
(* are those of the one element below p.                                   *)
THEOREM BytesAreCanonical ==
  ASSUME RoomyElements
  PROVE  Spec => []CanonicalBytes
<1>1. Init => BoundInvariant
  BY FieldInit, ZeroBounded DEF Init, BoundInvariant
<1> QED
  BY <1>1, BoundStep, BoundedIsCanonical, PTL DEF Spec

(* The bits of the bytes that fe_frombytes loads into each limb, when the  *)
(* library is built with its ten limbs of 26 and 25 bits.                  *)
ProgramCut ==
  [i \in 0..10 |-> << 0, 32, 56, 80, 104, 128, 160, 184, 208, 232, 255 >>[i + 1]]

(* The library's limbs are roomy.                                          *)
LEMMA ProgramElementsAreRoomy ==
  ASSUME N = 10, W = 25, C = 19, Cut = ProgramCut
  PROVE  RoomyElements
<1>1. 2^25 = 33554432
  <2>1. 2^(18 + 7) = 2^18 * 2^7
    BY PowerSum, SMT
  <2> QED
    BY <2>1, SmallPowers, SMT
<1>2. Mass = 4180
  BY SMT DEF Mass
<1>3. Extra = 79441
  BY <1>2, SMT DEF Extra
<1>4. Base = 33554432
  BY <1>1, SMT DEF Base
<1>5. ASSUME NEW i \in Limb
      PROVE  Cut[i + 1] - Pos(i + 1) \in 0..7
  <2>1. i \in 0..9
    BY DEF Limb
  <2>2. /\ ProgramCut[1] = 32 /\ ProgramCut[2] = 56 /\ ProgramCut[3] = 80
        /\ ProgramCut[4] = 104 /\ ProgramCut[5] = 128 /\ ProgramCut[6] = 160
        /\ ProgramCut[7] = 184 /\ ProgramCut[8] = 208 /\ ProgramCut[9] = 232
        /\ ProgramCut[10] = 255
    BY SMT DEF ProgramCut
  <2>3. Pos(i + 1) = 25 * (i + 1) + (i + 2) \div 2
    BY <2>1, SMT DEF Pos
  <2>4. \/ i = 0 \/ i = 1 \/ i = 2 \/ i = 3 \/ i = 4 \/ i = 5 \/ i = 6 \/ i = 7 \/ i = 8 \/ i = 9
    BY <2>1, SMT
  <2> QED
    BY <2>2, <2>3, <2>4, SMT
<1>6. ASSUME NEW x \in 0..7 PROVE 2^x <= Mass
  <2>1. x = 0 \/ x = 1 \/ x = 2 \/ x = 3 \/ x = 4 \/ x = 5 \/ x = 6 \/ x = 7
    BY SMT
  <2> DEFINE power == [k \in 0..7 |-> 2^k]
  <2>2. /\ power[0] = 1 /\ power[1] = 2 /\ power[2] = 4 /\ power[3] = 8
        /\ power[4] = 16 /\ power[5] = 32 /\ power[6] = 64 /\ power[7] = 128
    BY SmallPowers, SMT
  <2>3. power[x] = 2^x
    BY SMT
  <2> HIDE DEF power
  <2>4. power[x] <= Mass
    BY <1>2, <2>1, <2>2, SMT
  <2> QED
    BY <2>3, <2>4, SMT
<1>7. ASSUME NEW i \in Limb PROVE 2^(Cut[i + 1] - Pos(i + 1)) <= Mass
  <2> DEFINE x == Cut[i + 1] - Pos(i + 1)
  <2>1. x \in 0..7
    BY <1>5
  <2> HIDE DEF x
  <2>2. 2^x <= Mass
    BY <1>6, <2>1, Zenon
  <2> QED
    BY <2>2, SMT DEF x
<1>8. N >= 6 /\ 200 * Extra <= Base
  BY <1>3, <1>4, SMT
<1> QED
  BY <1>7, <1>8, Zenon DEF RoomyElements

(* The library as it is built.                                             *)
THEOREM ProgramBytesAreCanonical ==
  ASSUME N = 10, W = 25, C = 19, Cut = ProgramCut
  PROVE  Spec => []CanonicalBytes
BY ProgramElementsAreRoomy, BytesAreCanonical
-----------------------------------------------------------------------------
(* What a step does to the call.                                           *)
LEMMA CallStep ==
  ASSUME [Next]_vars
  PROVE  \/ job' = job \/ job' = Idle \/ job' = << "field", << >>, << >> >>
         \/ RunScalar \/ RunRecoding \/ RunPower \/ RunVarint
         \/ RunCodec \/ RunSecretbox \/ RunHash
BY DEF Next, LoadElements, Add, Subtract, Negate, Multiply, Square, SquareTwice, Move,
       Compute, Done, vars

(* The names of the functions each kind of call runs.                      *)
LEMMA CallNames ==
  /\ RunScalar => job'[1] \in {"sc_reduce", "sc_reduce32", "sc_check", "sc_add", "sc_sub",
                               "sc_mulsub"}
  /\ RunRecoding => job'[1] = "recoding"
  /\ RunPower => job' = << "power", << >>, << PC!fe_invert, PC!fe_pow22523 >> >>
  /\ RunVarint => job'[1] = "varint"
  /\ RunCodec => job'[1] \in {"hextobin", "hextobinStrict", "bintohex", "bin2base64"}
  /\ RunSecretbox => job'[1] = "secretboxOpen"
  /\ RunHash => job'[1] \in {"round", "blocks", "sha1 padding", "double round",
                             "cn_fast_hash", "sha1", "chacha"}
<1>1. ASSUME NEW call, NEW in, NEW out, Run(call, in, out)
      PROVE  job'[1] = call
  BY <1>1 DEF Run
<1>2. RunScalar => job'[1] \in {"sc_reduce", "sc_reduce32", "sc_check", "sc_add", "sc_sub",
                               "sc_mulsub"}
  BY <1>1, Zenon DEF RunScalar
<1>3. /\ RunRecoding => job'[1] = "recoding"
      /\ RunPower => job' = << "power", << >>, << PC!fe_invert, PC!fe_pow22523 >> >>
      /\ RunVarint => job'[1] = "varint"
      /\ RunSecretbox => job'[1] = "secretboxOpen"
  BY <1>1 DEF RunRecoding, RunPower, RunVarint, RunSecretbox, Run
<1>4. RunCodec => job'[1] \in {"hextobin", "hextobinStrict", "bintohex", "bin2base64"}
  BY <1>1, Zenon DEF RunCodec
<1>5. RunHash => job'[1] \in {"round", "blocks", "sha1 padding", "double round",
                             "cn_fast_hash", "sha1", "chacha"}
  BY <1>1, ArgumentsAssumption, Zenon DEF RunHash
<1> QED
  BY <1>2, <1>3, <1>4, <1>5

(* secretboxOpen, whatever was sealed and whatever became of it.           *)
THEOREM SecretboxOpensOnlyItsOwn == Spec => []SecretboxOpens
<1> USE DEF Called, In, Out, Idle, SecretboxOpens, SizesGood, HasAuthenticator, IsOwnBox
<1>1. Init => SecretboxOpens
  BY DEF Init
<1>2. ASSUME SecretboxOpens, [Next]_vars PROVE SecretboxOpens'
  <2>1. CASE job' = job
    BY <1>2, <2>1
  <2>2. CASE job' = Idle \/ job' = << "field", << >>, << >> >>
    BY <2>2
  <2>3. CASE RunSecretbox
    <3>1. PICK b \in Boxes :
            LET sealed == CD!secretbox(b.message, b.nonce, b.key)
                box == CASE b.fate = "cut" -> [sealed EXCEPT !.size = b.cutTo]
                         [] b.fate = "altered" -> [sealed EXCEPT !.seal = CD!Altered]
                         [] OTHER -> sealed
            IN  job' = << "secretboxOpen", << b >>,
                          IF sealed = CD!NoBox THEN CD!Refused
                          ELSE CD!secretboxOpen(box, b.openNonce, b.openKey) >>
      BY <2>3 DEF RunSecretbox, Run
    <3>2. b \in BoxCases
      BY ArgumentsAssumption
    <3>3. /\ Len(b.message) \in Nat /\ b.cutTo \in Nat /\ MacBytes \in Nat
          /\ b.fate \in {"whole", "cut", "altered"}
      BY <3>2, KernelsAssumption DEF BoxCases, Strings
    <3> DEFINE sealed == CD!secretbox(b.message, b.nonce, b.key)
               seal == << b.message, b.nonce, b.key >>
               size == Len(b.message) + MacBytes
               whole == [size |-> size, seal |-> seal]
    <3>4. CASE Len(b.nonce) # NonceBytes \/ Len(b.key) # KeyBytes
      BY <3>1, <3>4 DEF CD!secretbox, CD!NoBox
    <3>5. CASE Len(b.nonce) = NonceBytes /\ Len(b.key) = KeyBytes
      <4>1. sealed = whole /\ sealed # CD!NoBox
        BY <3>3, <3>5 DEF CD!secretbox, CD!NoBox, CD!crypto_secretbox_easy
      <4> HIDE DEF sealed
      <4>2. CASE b.fate = "cut"
        <5> DEFINE box == [sealed EXCEPT !.size = b.cutTo]
        <5>1. box.size = b.cutTo /\ box.seal = seal /\ seal # CD!Altered
          BY <4>1 DEF CD!Altered
        <5>2. /\ job'[1] = "secretboxOpen" /\ job'[2][1] = b
              /\ job'[3] = CD!secretboxOpen(box, b.openNonce, b.openKey)
          BY <3>1, <4>1, <4>2 DEF sealed
        <5> HIDE DEF box
        <5> QED
          BY <3>3, <3>5, <4>2, <5>1, <5>2
             DEF CD!secretboxOpen, CD!crypto_secretbox_open_easy
      <4>3. CASE b.fate = "altered"
        <5> DEFINE box == [sealed EXCEPT !.seal = CD!Altered]
        <5>1. box.size = size /\ box.seal = CD!Altered
          BY <4>1
        <5>2. /\ job'[1] = "secretboxOpen" /\ job'[2][1] = b
              /\ job'[3] = CD!secretboxOpen(box, b.openNonce, b.openKey)
          BY <3>1, <4>1, <4>3 DEF sealed
        <5> HIDE DEF box
        <5> QED
          BY <3>3, <3>5, <4>3, <5>1, <5>2
             DEF CD!secretboxOpen, CD!crypto_secretbox_open_easy
      <4>4. CASE b.fate = "whole"
        <5>1. sealed.size = size /\ sealed.seal = seal /\ seal # CD!Altered
          BY <4>1 DEF CD!Altered
        <5>2. /\ job'[1] = "secretboxOpen" /\ job'[2][1] = b
              /\ job'[3] = CD!secretboxOpen(sealed, b.openNonce, b.openKey)
          BY <3>1, <4>1, <4>4 DEF sealed
        <5> QED
          BY <3>3, <3>5, <4>4, <5>1, <5>2
             DEF CD!secretboxOpen, CD!crypto_secretbox_open_easy
      <4> QED
        BY <3>3, <4>2, <4>3, <4>4
    <3> QED
      BY <3>4, <3>5
  <2>4. CASE RunScalar \/ RunRecoding \/ RunPower \/ RunVarint \/ RunCodec \/ RunHash
    BY <2>4, CallNames
  <2> QED
    BY <1>2, <2>1, <2>2, <2>3, <2>4, CallStep
<1> QED
  BY <1>1, <1>2, PTL DEF Spec
-----------------------------------------------------------------------------
(* x^(2^k - 1) and x^(2^m - 1) make x^(2^(k+m) - 1).                       *)
LEMMA OnesJoin ==
  ASSUME NEW k \in Nat, NEW m \in Nat
  PROVE  PC!Joined(0..(k - 1), 0..(m - 1), m) = 0..(k + m - 1)
<1>1. PC!fe_sqn(0..(k - 1), m) = m..(k + m - 1)
  <2>1. ASSUME NEW e \in m..(k + m - 1)
        PROVE  e \in PC!fe_sqn(0..(k - 1), m)
    <3>1. e - m \in 0..(k - 1) /\ (e - m) + m = e
      OBVIOUS
    <3> QED
      BY <3>1 DEF PC!fe_sqn
  <2>2. ASSUME NEW e \in PC!fe_sqn(0..(k - 1), m)
        PROVE  e \in m..(k + m - 1)
    BY <2>2 DEF PC!fe_sqn
  <2> QED
    BY <2>1, <2>2
<1>2. (m..(k + m - 1)) \cap (0..(m - 1)) = {}
  OBVIOUS
<1>3. (m..(k + m - 1)) \cup (0..(m - 1)) = 0..(k + m - 1)
  OBVIOUS
<1> QED
  BY <1>1, <1>2, <1>3 DEF PC!Joined, PC!fe_mul

(* The two addition chains, step by step.                                  *)
LEMMA ChainsRaise ==
  PC!fe_invert = (0..254) \ {2, 4} /\ PC!fe_pow22523 = (0..251) \ {1}
<1>1. PC!Power9 = {0, 3}
  BY DEF PC!Power9, PC!fe_mul, PC!fe_sqn, PC!fe_sq, PC!Argument
<1>2. PC!Power11 = {0, 1, 3}
  <2>1. PC!fe_sq(PC!Argument) = {1}
    BY DEF PC!fe_sq, PC!Argument
  <2>2. {1} \cap {0, 3} = {}
    OBVIOUS
  <2> QED
    BY <1>1, <2>1, <2>2 DEF PC!Power11, PC!fe_mul
<1>3. PC!Power31 = 0..4
  <2>1. PC!fe_sq({0, 1, 3}) = {1, 2, 4}
    BY DEF PC!fe_sq
  <2>2. {0, 3} \cap {1, 2, 4} = {} /\ {0, 3} \cup {1, 2, 4} = 0..4
    OBVIOUS
  <2> QED
    BY <1>1, <1>2, <2>1, <2>2 DEF PC!Power31, PC!fe_mul
<1> DEFINE Ones(k) == 0..(k - 1)
<1>4. \A k, m \in Nat : PC!Joined(Ones(k), Ones(m), m) = Ones(k + m)
  BY OnesJoin
<1>5. PC!Power31 = Ones(5)
  BY <1>3
<1> HIDE DEF Ones
<1>6. PC!Ones10 = Ones(10)
  BY <1>4, <1>5 DEF PC!Ones10
<1>7. PC!Ones20 = Ones(20)
  BY <1>4, <1>6 DEF PC!Ones20
<1>8. PC!Ones40 = Ones(40)
  BY <1>4, <1>7 DEF PC!Ones40
<1>9. PC!Ones50 = Ones(50)
  BY <1>4, <1>6, <1>8 DEF PC!Ones50
<1>10. PC!Ones100 = Ones(100)
  BY <1>4, <1>9 DEF PC!Ones100
<1>11. PC!Ones200 = Ones(200)
  BY <1>4, <1>10 DEF PC!Ones200
<1>12. PC!Ones250 = Ones(250)
  BY <1>4, <1>9, <1>11 DEF PC!Ones250
<1>13. PC!Ones250 = 0..249
  BY <1>12 DEF Ones
<1>14. PC!fe_sqn(0..249, 5) = 5..254 /\ PC!fe_sqn(0..249, 2) = 2..251
  <2>1. ASSUME NEW m \in Nat
        PROVE  PC!fe_sqn(0..249, m) = m..(249 + m)
    <3>1. ASSUME NEW e \in m..(249 + m)
          PROVE  e \in PC!fe_sqn(0..249, m)
      <4>1. e - m \in 0..249 /\ (e - m) + m = e
        OBVIOUS
      <4> QED
        BY <4>1 DEF PC!fe_sqn
    <3>2. ASSUME NEW e \in PC!fe_sqn(0..249, m)
          PROVE  e \in m..(249 + m)
      BY <3>2 DEF PC!fe_sqn
    <3> QED
      BY <3>1, <3>2
  <2>2. PC!fe_sqn(0..249, 5) = 5..(249 + 5) /\ PC!fe_sqn(0..249, 2) = 2..(249 + 2)
    BY <2>1
  <2>3. 249 + 5 = 254 /\ 249 + 2 = 251
    OBVIOUS
  <2> QED
    BY <2>2, <2>3
<1>15. (5..254) \cap {0, 1, 3} = {} /\ (5..254) \cup {0, 1, 3} = (0..254) \ {2, 4}
  OBVIOUS
<1>16. (2..251) \cap {0} = {} /\ (2..251) \cup {0} = (0..251) \ {1}
  OBVIOUS
<1> QED
  BY <1>2, <1>13, <1>14, <1>15, <1>16
     DEF PC!fe_invert, PC!fe_pow22523, PC!fe_mul, PC!Argument

(* fe_invert is x^(q - 2), fe_divpowm1 begins with x^((q - 5) / 8).        *)
THEOREM ChainsAreExact == Spec => []ChainExponents
<1> USE DEF Called, Out, Idle, ChainExponents
<1>1. Init => ChainExponents
  BY DEF Init
<1>2. ASSUME ChainExponents, [Next]_vars PROVE ChainExponents'
  <2>1. CASE RunPower
    <3>1. job' = << "power", << >>, << (0..254) \ {2, 4}, (0..251) \ {1} >> >>
      BY <2>1, CallNames, ChainsRaise
    <3>2. job'[3] = << (0..254) \ {2, 4}, (0..251) \ {1} >>
      BY <3>1
    <3> QED
      BY <3>2
  <2>2. CASE RunScalar \/ RunRecoding \/ RunVarint \/ RunCodec \/ RunSecretbox \/ RunHash
    BY <2>2, CallNames
  <2>3. CASE job' = job
    BY <1>2, <2>3
  <2>4. CASE job' = Idle \/ job' = << "field", << >>, << >> >>
    BY <2>4
  <2> QED
    BY <1>2, <2>1, <2>2, <2>3, <2>4, CallStep
<1> QED
  BY <1>1, <1>2, PTL DEF Spec
-----------------------------------------------------------------------------
(* Sequences as functions.                                                 *)
LEMMA SeqIsFunction ==
  ASSUME NEW S
  PROVE  /\ \A s \in Seq(S) : Len(s) \in Nat /\ s \in [1..Len(s) -> S]
         /\ \A len \in Nat : \A s \in [1..len -> S] : s \in Seq(S) /\ Len(s) = len
<1>1. \A s \in Seq(S) : Len(s) \in Nat /\ s \in [1..Len(s) -> S]
  OBVIOUS
<1>2. \A len \in Nat : \A s \in [1..len -> S] : s \in Seq(S)
  OBVIOUS
<1>3. \A len \in Nat : \A s \in [1..len -> S] : Len(s) = len
  <2> TAKE len \in Nat
  <2> TAKE s \in [1..len -> S]
  <2>1. s \in Seq(S) /\ DOMAIN s = 1..len
    BY <1>2
  <2>2. Len(s) \in Nat /\ DOMAIN s = 1..Len(s)
    BY <1>1, <2>1
  <2>3. 1..len = 1..Len(s)
    BY <2>1, <2>2
  <2> QED
    BY <2>2, <2>3
<1> QED
  BY <1>1, <1>2, <1>3

(* A string's characters.                                                  *)
LEMMA StringFacts ==
  ASSUME NEW s \in Strings
  PROVE  /\ Len(s) \in Nat /\ DOMAIN s = 1..Len(s) /\ s = [k \in 1..Len(s) |-> s[k]]
         /\ \A k \in 1..Len(s) : s[k] \in 0..255 /\ s[k] \in Int
<1>1. Len(s) \in Nat /\ s \in [1..Len(s) -> 0..255]
  BY SeqIsFunction DEF Strings
<1>2. \A b \in 0..255 : b \in Int
  OBVIOUS
<1> QED
  BY <1>1, <1>2

(* A digit's value, and the character of a value.                          *)
LEMMA NibbleRange ==
  ASSUME NEW ch \in Int, CD!IsHexChar(ch)
  PROVE  CD!Nibble(ch) \in 0..15
<1>1. CASE ch \in 48..57
  BY <1>1 DEF CD!Nibble, CD!IsDigit
<1>2. CASE ch \in 65..70
  BY <1>2 DEF CD!Nibble, CD!IsDigit
<1>3. CASE ch \in 97..102
  BY <1>3 DEF CD!Nibble, CD!IsDigit
<1> QED
  BY <1>1, <1>2, <1>3 DEF CD!IsHexChar, CD!IsDigit, CD!IsLetterOfHex

(* HexDigit is undone by the value that strtol gives its character.        *)
LEMMA HexDigitIsInverse ==
  ASSUME NEW v \in 0..15
  PROVE  /\ CD!HexDigit(v) \in 0..255 /\ CD!IsHexChar(CD!HexDigit(v))
         /\ CD!Nibble(CD!HexDigit(v)) = v
<1>1. CASE v < 10
  BY <1>1 DEF CD!HexDigit, CD!IsHexChar, CD!IsDigit, CD!IsLetterOfHex, CD!Nibble
<1>2. CASE v >= 10
  <2>1. 87 + v \in 97..102 /\ (87 + v) % 32 = v - 9
    BY <1>2
  <2> QED
    BY <1>2, <2>1 DEF CD!HexDigit, CD!IsHexChar, CD!IsDigit, CD!IsLetterOfHex, CD!Nibble
<1> QED
  BY <1>1, <1>2

(* strtol of two characters is an integer, and of two digits their value.  *)
LEMMA StrtolOfDigits ==
  ASSUME NEW a \in Int, NEW b \in Int
  PROVE  /\ CD!strtol(a, b) % 256 \in Nat
         /\ CD!IsHexChar(a) /\ CD!IsHexChar(b) =>
              CD!strtol(a, b) % 256 = CD!Nibble(a) * 16 + CD!Nibble(b)
<1>1. CASE CD!IsHexChar(a)
  <2>1. CD!strtol(a, b)
          = IF CD!IsHexChar(b) THEN CD!Nibble(a) * 16 + CD!Nibble(b) ELSE CD!Nibble(a)
    <3>1. ~ ((CD!IsBlank(a) \/ a = 43) \/ a = 45)
      BY <1>1 DEF CD!IsHexChar, CD!IsDigit, CD!IsLetterOfHex, CD!IsBlank
    <3> QED
      BY <1>1, <3>1, Zenon DEF CD!strtol
  <2> QED
    BY <1>1, <2>1, NibbleRange
<1>2. CASE ~CD!IsHexChar(a)
  <2> DEFINE single == IF CD!IsHexChar(b) THEN CD!Nibble(b) ELSE 0
  <2>1. single \in Int
    BY NibbleRange
  <2>2. CD!strtol(a, b) \in {single, -single, 0}
    <3>1. CASE CD!IsBlank(a) \/ a = 43
      BY <1>2, <3>1 DEF CD!strtol, CD!IsBlank
    <3>2. CASE ~ (CD!IsBlank(a) \/ a = 43)
      BY <1>2, <3>2 DEF CD!strtol
    <3> QED
      BY <3>1, <3>2
  <2> HIDE DEF single
  <2> QED
    BY <1>2, <2>1, <2>2
<1> QED
  BY <1>1, <1>2

(* The strict hextobin refuses exactly what is no hexadecimal of that size,*)
(* and elsewhere the other one agrees.                                     *)
LEMMA StrictAgrees ==
  ASSUME NEW hex \in Strings, NEW size \in Nat
  PROVE  IF CD!hextobinStrict(hex, size) = CD!Refused
         THEN Len(hex) # 2 * size \/ \E k \in DOMAIN hex : ~CD!IsHexChar(hex[k])
         ELSE CD!hextobin(hex) = CD!hextobinStrict(hex, size)
<1>1. DOMAIN hex = 1..Len(hex) /\ Len(hex) \in Nat /\ \A k \in 1..Len(hex) : hex[k] \in Int
  BY StringFacts
<1>2. CASE Len(hex) # size * 2 \/ \E k \in 1..Len(hex) : ~CD!IsHexChar(hex[k])
  <2>1. CD!hextobinStrict(hex, size) = CD!Refused
    BY <1>2 DEF CD!hextobinStrict
  <2>2. size * 2 = 2 * size
    OBVIOUS
  <2> QED
    BY <1>1, <1>2, <2>1, <2>2
<1>3. CASE Len(hex) = size * 2 /\ \A k \in 1..Len(hex) : CD!IsHexChar(hex[k])
  <2>1. Len(hex) % 2 = 0 /\ Len(hex) \div 2 = size
    BY <1>1, <1>3
  <2>2. \A k \in 1..size : /\ 2 * k - 1 \in 1..Len(hex) /\ 2 * k \in 1..Len(hex)
    BY <1>1, <1>3
  <2>3. \A k \in 1..size : CD!strtol(hex[2 * k - 1], hex[2 * k]) % 256
                             = CD!Nibble(hex[2 * k - 1]) * 16 + CD!Nibble(hex[2 * k])
    BY <1>1, <1>3, <2>2, StrtolOfDigits
  <2>4. CD!hextobinStrict(hex, size)
          = [k \in 1..size |-> CD!Nibble(hex[2 * k - 1]) * 16 + CD!Nibble(hex[2 * k])]
    BY <1>1, <1>3 DEF CD!hextobinStrict
  <2>5. CD!hextobin(hex) = [k \in 1..size |-> CD!strtol(hex[2 * k - 1], hex[2 * k]) % 256]
    BY <2>1 DEF CD!hextobin
  <2>6. CD!hextobinStrict(hex, size) # CD!Refused
    <3>1. SUFFICES ASSUME CD!hextobinStrict(hex, size) = << -1 >> PROVE FALSE
      BY DEF CD!Refused
    <3>2. size = 1 /\ CD!Nibble(hex[1]) * 16 + CD!Nibble(hex[2]) = -1
      <4>1. DOMAIN [k \in 1..size |-> CD!Nibble(hex[2 * k - 1]) * 16 + CD!Nibble(hex[2 * k])]
              = DOMAIN << -1 >>
        BY <2>4, <3>1
      <4>2. size = 1
        BY <4>1
      <4>3. [k \in 1..size |-> CD!Nibble(hex[2 * k - 1]) * 16 + CD!Nibble(hex[2 * k])][1] = -1
        BY <2>4, <3>1
      <4> QED
        BY <4>2, <4>3
    <3>3. CD!Nibble(hex[1]) \in 0..15 /\ CD!Nibble(hex[2]) \in 0..15
      BY <1>1, <1>3, <3>2, NibbleRange
    <3> QED
      BY <3>2, <3>3
  <2> QED
    BY <2>3, <2>4, <2>5, <2>6
<1> QED
  BY <1>1, <1>2, <1>3

(* The other refuses an odd length, and nothing else.                      *)
LEMMA LooseRefuses ==
  ASSUME NEW hex \in Strings
  PROVE  CD!hextobin(hex) = CD!Refused <=> Len(hex) % 2 = 1
<1>1. Len(hex) \in Nat /\ \A k \in 1..Len(hex) : hex[k] \in Int
  BY StringFacts
<1>2. CASE Len(hex) % 2 # 0
  BY <1>1, <1>2 DEF CD!hextobin
<1>3. CASE Len(hex) % 2 = 0
  <2> DEFINE f == [k \in 1..(Len(hex) \div 2) |-> CD!strtol(hex[2 * k - 1], hex[2 * k]) % 256]
  <2>1. CD!hextobin(hex) = f
    BY <1>3 DEF CD!hextobin
  <2>2. f # << -1 >>
    <3>1. SUFFICES ASSUME f = << -1 >> PROVE FALSE
      OBVIOUS
    <3>2. DOMAIN f = DOMAIN << -1 >>
      BY <3>1
    <3>3. Len(hex) \div 2 = 1
      BY <1>1, <3>2
    <3>4. f[1] = CD!strtol(hex[1], hex[2]) % 256
      BY <3>3
    <3>5. f[1] \in Nat
      <4>1. 1 \in 1..Len(hex) /\ 2 \in 1..Len(hex)
        BY <1>1, <1>3, <3>3
      <4>2. hex[1] \in Int /\ hex[2] \in Int
        BY <1>1, <4>1
      <4>3. CD!strtol(hex[1], hex[2]) % 256 \in Nat
        BY <4>2, StrtolOfDigits
      <4> HIDE DEF f
      <4> QED
        BY <3>4, <4>3
    <3>6. f[1] = -1
      BY <3>1
    <3> HIDE DEF f
    <3> QED
      BY <3>5, <3>6
  <2> QED
    BY <1>3, <2>1, <2>2 DEF CD!Refused
<1> QED
  BY <1>1, <1>2, <1>3

(* Both invert bintohex.                                                   *)
LEMMA HexInverts ==
  ASSUME NEW data \in Strings
  PROVE  /\ CD!hextobin(CD!bintohex(data)) = data
         /\ CD!hextobinStrict(CD!bintohex(data), Len(data)) = data
<1> DEFINE hex == CD!bintohex(data)
           size == Len(data)
<1>1. size \in Nat /\ DOMAIN data = 1..size /\ \A k \in 1..size : data[k] \in 0..255
  BY StringFacts
<1>2. data = [k \in 1..size |-> data[k]]
  BY StringFacts
<1>3. \A b \in 0..255 : b \div 16 \in 0..15 /\ b % 16 \in 0..15 /\ (b \div 16) * 16 + (b % 16) = b
  OBVIOUS
<1>4. \A k \in 1..(2 * size) :
        hex[k] = LET byte == data[(k + 1) \div 2]
                 IN  CD!HexDigit(IF k % 2 = 1 THEN byte \div 16 ELSE byte % 16)
  BY <1>1 DEF CD!bintohex
<1>5. \A k \in 1..size : /\ hex[2 * k - 1] = CD!HexDigit(data[k] \div 16)
                         /\ hex[2 * k] = CD!HexDigit(data[k] % 16)
                         /\ 2 * k - 1 \in 1..(2 * size) /\ 2 * k \in 1..(2 * size)
  <2> TAKE k \in 1..size
  <2>1. 2 * k - 1 \in 1..(2 * size) /\ 2 * k \in 1..(2 * size)
    BY <1>1
  <2>2. (2 * k) \div 2 = k /\ (2 * k - 1) % 2 = 1 /\ (2 * k) % 2 = 0 /\ (2 * k + 1) \div 2 = k
    BY <1>1
  <2>3. (2 * k - 1) + 1 = 2 * k
    BY <1>1
  <2> QED
    BY <1>4, <2>1, <2>2, <2>3
<1>6. \A k \in 1..(2 * size) : hex[k] \in 0..255 /\ CD!IsHexChar(hex[k])
  <2> TAKE k \in 1..(2 * size)
  <2>1. (k + 1) \div 2 \in 1..size
    BY <1>1
  <2> DEFINE byte == data[(k + 1) \div 2]
             v == IF k % 2 = 1 THEN byte \div 16 ELSE byte % 16
  <2>2. byte \in 0..255
    BY <1>1, <2>1
  <2>3. v \in 0..15
    BY <1>3, <2>2
  <2>4. hex[k] = CD!HexDigit(v)
    BY <1>4
  <2> HIDE DEF v, hex
  <2> QED
    BY <2>3, <2>4, HexDigitIsInverse
<1>7. Len(hex) = 2 * size /\ hex \in Strings
  <2>1. hex \in [1..(2 * size) -> 0..255]
    <3>1. hex = [k \in 1..(2 * size) |-> hex[k]]
      BY <1>1 DEF CD!bintohex
    <3> HIDE DEF hex
    <3> QED
      BY <1>6, <3>1
  <2>2. 2 * size \in Nat
    BY <1>1
  <2> HIDE DEF hex
  <2>3. \A m \in Nat : \A s \in [1..m -> 0..255] : s \in Strings /\ Len(s) = m
    BY SeqIsFunction DEF Strings
  <2> QED
    BY <2>1, <2>2, <2>3
<1> HIDE DEF hex
<1>8. CD!hextobinStrict(hex, size)
        = [k \in 1..size |-> CD!Nibble(hex[2 * k - 1]) * 16 + CD!Nibble(hex[2 * k])]
  BY <1>1, <1>6, <1>7 DEF CD!hextobinStrict
<1>9. \A k \in 1..size : CD!Nibble(hex[2 * k - 1]) * 16 + CD!Nibble(hex[2 * k]) = data[k]
  BY <1>1, <1>3, <1>5, HexDigitIsInverse, ZenonT(60)
<1>10. CD!hextobinStrict(hex, size) = data
  BY <1>2, <1>8, <1>9
<1>11. data # CD!Refused
  <2>1. SUFFICES ASSUME data = << -1 >> PROVE FALSE
    BY DEF CD!Refused
  <2>2. size = 1 /\ data[1] = -1
    BY <2>1
  <2> QED
    BY <1>1, <2>2
<1> QED
  BY <1>1, <1>7, <1>10, <1>11, StrictAgrees DEF hex

(* A sextet is the sum of its bits.                                        *)
LEMMA SextetIsItsBits ==
  ASSUME NEW x \in 0..63
  PROVE  x = ((x \div 32) % 2) * 32 + ((x \div 16) % 2) * 16 + ((x \div 8) % 2) * 8
               + ((x \div 4) % 2) * 4 + ((x \div 2) % 2) * 2 + (x % 2)
OBVIOUS

(* The sextets of a group of 24 bits.                                      *)
IsGroup(g, a, b, c) == g = a * 65536 + b * 256 + c
HasSextets(g, a, b, c) ==
  /\ (g \div 262144) % 64 = a \div 4
  /\ (g \div 4096) % 64 = (a % 4) * 16 + b \div 16
  /\ (g \div 64) % 64 = (b % 16) * 4 + c \div 64
  /\ g % 64 = c % 64

(* Three bytes, shifted together, cut into four sextets.                   *)
LEMMA GroupBits24 ==
  ASSUME NEW a \in 0..255, NEW b \in 0..255, NEW c \in 0..255, NEW g, IsGroup(g, a, b, c)
  PROVE  HasSextets(g, a, b, c)
<1> USE DEF IsGroup, HasSextets
<1>1. g \div 262144 = a \div 4
  OBVIOUS
<1>2. g \div 4096 = a * 16 + b \div 16
  OBVIOUS
<1>3. g \div 64 = a * 1024 + b * 4 + c \div 64
  OBVIOUS
<1>4. g % 64 = c % 64
  OBVIOUS
<1>5. (a \div 4) % 64 = a \div 4
  OBVIOUS
<1>6. (a * 16 + b \div 16) % 64 = (a % 4) * 16 + b \div 16
  OBVIOUS
<1>7. (a * 1024 + b * 4 + c \div 64) % 64 = (b % 16) * 4 + c \div 64
  OBVIOUS
<1> QED
  BY <1>1, <1>2, <1>3, <1>4, <1>5, <1>6, <1>7

(* The bytes that the bits of two neighbouring sextets make.               *)
FirstByte(x, y) ==
  ((x \div 32) % 2) * 128 + ((x \div 16) % 2) * 64 + ((x \div 8) % 2) * 32
    + ((x \div 4) % 2) * 16 + ((x \div 2) % 2) * 8 + (x % 2) * 4
    + ((y \div 32) % 2) * 2 + ((y \div 16) % 2)
SecondByte(x, y) ==
  ((x \div 8) % 2) * 128 + ((x \div 4) % 2) * 64 + ((x \div 2) % 2) * 32
    + (x % 2) * 16 + ((y \div 32) % 2) * 8 + ((y \div 16) % 2) * 4
    + ((y \div 8) % 2) * 2 + ((y \div 4) % 2)
ThirdByte(x, y) ==
  ((x \div 2) % 2) * 128 + (x % 2) * 64 + ((y \div 32) % 2) * 32
    + ((y \div 16) % 2) * 16 + ((y \div 8) % 2) * 8 + ((y \div 4) % 2) * 4
    + ((y \div 2) % 2) * 2 + (y % 2)

(* Four such sextets are sextets, and hold the three bytes.                *)
LEMMA BytesOfSextets ==
  ASSUME NEW a \in 0..255, NEW b \in 0..255, NEW c \in 0..255
  PROVE  LET s1 == a \div 4
             s2 == (a % 4) * 16 + b \div 16
             s3 == (b % 16) * 4 + c \div 64
             s4 == c % 64
         IN  /\ s1 \in 0..63 /\ s2 \in 0..63 /\ s3 \in 0..63 /\ s4 \in 0..63
             /\ FirstByte(s1, s2) = a /\ SecondByte(s2, s3) = b /\ ThirdByte(s3, s4) = c
<1> DEFINE s1 == a \div 4
           s2 == (a % 4) * 16 + b \div 16
           s3 == (b % 16) * 4 + c \div 64
           s4 == c % 64
<1>1. s1 \in 0..63 /\ s2 \in 0..63 /\ s3 \in 0..63 /\ s4 \in 0..63
  OBVIOUS
<1>2. /\ s1 = ((s1 \div 32) % 2) * 32 + ((s1 \div 16) % 2) * 16 + ((s1 \div 8) % 2) * 8
                  + ((s1 \div 4) % 2) * 4 + ((s1 \div 2) % 2) * 2 + (s1 % 2)
      /\ s4 = ((s4 \div 32) % 2) * 32 + ((s4 \div 16) % 2) * 16 + ((s4 \div 8) % 2) * 8
                  + ((s4 \div 4) % 2) * 4 + ((s4 \div 2) % 2) * 2 + (s4 % 2)
  <2> HIDE DEF s1, s4
  <2> QED
    BY <1>1, SextetIsItsBits, ZenonT(60)
<1>3. /\ a % 4 = ((s2 \div 32) % 2) * 2 + ((s2 \div 16) % 2)
      /\ b \div 16 = ((s2 \div 8) % 2) * 8 + ((s2 \div 4) % 2) * 4 + ((s2 \div 2) % 2) * 2
                       + (s2 % 2)
  OBVIOUS
<1>4. /\ b % 16 = ((s3 \div 32) % 2) * 8 + ((s3 \div 16) % 2) * 4
                       + ((s3 \div 8) % 2) * 2 + ((s3 \div 4) % 2)
      /\ c \div 64 = ((s3 \div 2) % 2) * 2 + (s3 % 2)
  OBVIOUS
<1>5. a = 4 * s1 + (a % 4) /\ b = 16 * (b \div 16) + (b % 16) /\ c = 64 * (c \div 64) + s4
  OBVIOUS
<1> HIDE DEF s1, s2, s3, s4
<1>6. FirstByte(s1, s2) = a
  BY <1>1, <1>2, <1>3, <1>5 DEF FirstByte
<1>7. SecondByte(s2, s3) = b
  BY <1>1, <1>3, <1>4, <1>5 DEF SecondByte
<1>8. ThirdByte(s3, s4) = c
  BY <1>1, <1>2, <1>4, <1>5 DEF ThirdByte
<1> QED
  BY <1>1, <1>6, <1>7, <1>8 DEF s1, s2, s3, s4

(* sodium_base642bin in the parts the proof speaks of.                     *)
BitAt(s, m) == (s[(m \div 6) + 1] \div 2^(5 - (m % 6))) % 2
ByteAt(s, k) ==
  BitAt(s, 8 * (k - 1) + 0) * 2^(7 - 0) + BitAt(s, 8 * (k - 1) + 1) * 2^(7 - 1)
    + BitAt(s, 8 * (k - 1) + 2) * 2^(7 - 2) + BitAt(s, 8 * (k - 1) + 3) * 2^(7 - 3)
    + BitAt(s, 8 * (k - 1) + 4) * 2^(7 - 4) + BitAt(s, 8 * (k - 1) + 5) * 2^(7 - 5)
    + BitAt(s, 8 * (k - 1) + 6) * 2^(7 - 6) + BitAt(s, 8 * (k - 1) + 7) * 2^(7 - 7)

UsedOf(s) == CHOOSE u \in 0..Len(s) : CD!IsUnpadded(s, u)
SizeOf(s) == (6 * UsedOf(s)) \div 8
Spoilt(s) ==
  \/ Len(s) % 4 # 0 \/ Len(s) - UsedOf(s) > 2
  \/ \E k \in 1..Len(s) : (s[k] = CD!Pad) # (k > UsedOf(s))
  \/ \E m \in (8 * SizeOf(s))..(6 * UsedOf(s) - 1) : BitAt(s, m) = 1

(* sodium_base642bin in the terms above.                                   *)
LEMMA DecoderParts ==
  \A s : CD!sodium_base642bin(s)
           = IF Spoilt(s) THEN CD!Refused ELSE [k \in 1..SizeOf(s) |-> ByteAt(s, k)]
BY DEF CD!sodium_base642bin, BitAt, ByteAt, UsedOf, SizeOf, Spoilt

(* The sextets of a group of three bytes, zeros past the last of them.     *)
At64(data, k) == IF k <= Len(data) THEN data[k] ELSE 0
SextetsOf(data) == (8 * Len(data) + 5) \div 6
GroupsOf(data) == (Len(data) + 2) \div 3

SextetsGive(g, a, b, c) ==
  /\ CD!Sextets(g)[1] = a \div 4
  /\ CD!Sextets(g)[2] = (a % 4) * 16 + b \div 16
  /\ CD!Sextets(g)[3] = (b % 16) * 4 + c \div 64
  /\ CD!Sextets(g)[4] = c % 64

(* Sextets cuts a group as GroupBits24 says.                               *)
LEMMA SextetsOfGroup ==
  ASSUME NEW a \in 0..255, NEW b \in 0..255, NEW c \in 0..255, NEW g, IsGroup(g, a, b, c)
  PROVE  SextetsGive(g, a, b, c)
<1>1. g \in Nat
  BY DEF IsGroup
<1>2. HasSextets(g, a, b, c)
  BY <1>1, GroupBits24
<1>3. /\ CD!Sextets(g)[1] = (g \div 2^(24 - 6 * 1)) % 64
      /\ CD!Sextets(g)[2] = (g \div 2^(24 - 6 * 2)) % 64
      /\ CD!Sextets(g)[3] = (g \div 2^(24 - 6 * 3)) % 64
      /\ CD!Sextets(g)[4] = (g \div 2^(24 - 6 * 4)) % 64
  BY DEF CD!Sextets
<1>4. 24 - 6 * 1 = 18 /\ 24 - 6 * 2 = 12 /\ 24 - 6 * 3 = 6 /\ 24 - 6 * 4 = 0
  OBVIOUS
<1>5. /\ CD!Sextets(g)[1] = (g \div 262144) % 64
      /\ CD!Sextets(g)[2] = (g \div 4096) % 64
      /\ CD!Sextets(g)[3] = (g \div 64) % 64
      /\ CD!Sextets(g)[4] = (g \div 1) % 64
  BY <1>3, <1>4, SmallPowers, SMT
<1>6. g \div 1 = g
  BY <1>1
<1> QED
  BY <1>2, <1>5, <1>6, SMT DEF HasSextets, SextetsGive

First(data, g) == At64(data, 3 * g - 2)
Second(data, g) == At64(data, 3 * g - 1)
Third(data, g) == At64(data, 3 * g)

(* What the encoder writes at the four places of group g.                  *)
LEMMA EncoderParts ==
  ASSUME NEW data \in Strings, NEW g \in 1..GroupsOf(data)
  PROVE  LET a == First(data, g)
             b == Second(data, g)
             c == Third(data, g)
             s == CD!sodium_bin2base64(data)
             u == SextetsOf(data)
         IN  /\ a \in 0..255 /\ b \in 0..255 /\ c \in 0..255
             /\ s[4 * g - 3] = IF 4 * g - 3 <= u THEN a \div 4 ELSE CD!Pad
             /\ s[4 * g - 2] = IF 4 * g - 2 <= u THEN (a % 4) * 16 + b \div 16 ELSE CD!Pad
             /\ s[4 * g - 1] = IF 4 * g - 1 <= u THEN (b % 16) * 4 + c \div 64 ELSE CD!Pad
             /\ s[4 * g] = IF 4 * g <= u THEN c % 64 ELSE CD!Pad
<1> DEFINE a == First(data, g)
           b == Second(data, g)
           c == Third(data, g)
           s == CD!sodium_bin2base64(data)
           u == SextetsOf(data)
<1>1. Len(data) \in Nat /\ \A k \in 1..Len(data) : data[k] \in 0..255
  BY StringFacts
<1>2. g \in Nat /\ g >= 1 /\ GroupsOf(data) \in Nat
  BY <1>1 DEF GroupsOf
<1>3. a \in 0..255 /\ b \in 0..255 /\ c \in 0..255
  BY <1>1, <1>2 DEF At64, First, Second, Third
<1>a. /\ a = At64(data, 3 * g - 2) /\ b = At64(data, 3 * g - 1) /\ c = At64(data, 3 * g)
  BY DEF First, Second, Third
<1> DEFINE bits == a * 65536 + b * 256 + c
<1>4. \A r \in 1..4 :
        s[4 * g - 4 + r] = IF 4 * g - 4 + r <= u THEN CD!Sextets(bits)[r] ELSE CD!Pad
  <2> TAKE r \in 1..4
  <2> DEFINE k == 4 * g - 4 + r
  <2>1. k \in 1..(4 * GroupsOf(data)) /\ (k + 3) \div 4 = g /\ ((k - 1) % 4) + 1 = r
    BY <1>2
  <2>2. s[k] = IF k <= u THEN CD!Sextets(At64(data, 3 * ((k + 3) \div 4) - 2) * 65536
                                           + At64(data, 3 * ((k + 3) \div 4) - 1) * 256
                                           + At64(data, 3 * ((k + 3) \div 4)))[((k - 1) % 4) + 1]
               ELSE CD!Pad
    <3> HIDE DEF k
    <3> QED
      BY <2>1, SMT DEF CD!sodium_bin2base64, At64, GroupsOf, SextetsOf
  <2> HIDE DEF k
  <2>3. s[k] = IF k <= u THEN CD!Sextets(bits)[r] ELSE CD!Pad
    BY <1>a, <2>1, <2>2
  <2> QED
    BY <2>3 DEF k
<1>5. /\ CD!Sextets(bits)[1] = a \div 4
      /\ CD!Sextets(bits)[2] = (a % 4) * 16 + b \div 16
      /\ CD!Sextets(bits)[3] = (b % 16) * 4 + c \div 64
      /\ CD!Sextets(bits)[4] = c % 64
  <2>1. IsGroup(bits, a, b, c)
    BY DEF IsGroup
  <2> HIDE DEF bits, a, b, c
  <2>2. SextetsGive(bits, a, b, c)
    BY <1>3, <2>1, SextetsOfGroup
  <2> QED
    BY <2>2 DEF SextetsGive
<1> HIDE DEF bits
<1>6. 4 * g - 4 + 1 = 4 * g - 3 /\ 4 * g - 4 + 2 = 4 * g - 2 /\ 4 * g - 4 + 3 = 4 * g - 1
      /\ 4 * g - 4 + 4 = 4 * g
  BY <1>2
<1>7. /\ s[4 * g - 4 + 1] = IF 4 * g - 4 + 1 <= u THEN CD!Sextets(bits)[1] ELSE CD!Pad
      /\ s[4 * g - 4 + 2] = IF 4 * g - 4 + 2 <= u THEN CD!Sextets(bits)[2] ELSE CD!Pad
      /\ s[4 * g - 4 + 3] = IF 4 * g - 4 + 3 <= u THEN CD!Sextets(bits)[3] ELSE CD!Pad
      /\ s[4 * g - 4 + 4] = IF 4 * g - 4 + 4 <= u THEN CD!Sextets(bits)[4] ELSE CD!Pad
  BY <1>4
<1> QED
  BY <1>3, <1>5, <1>6, <1>7

Encodes(x, y, z, w, a, b, c) ==
  /\ x \in 0..63 /\ y \in 0..63 /\ z \in 0..63 /\ w \in 0..63
  /\ FirstByte(x, y) = a /\ SecondByte(y, z) = b /\ ThirdByte(z, w) = c
  /\ b = 0 => y % 16 = 0
  /\ c = 0 => z % 4 = 0

(* The four sextets of three bytes, no bit set where a byte is zero.       *)
LEMMA SextetsEncode ==
  ASSUME NEW a \in 0..255, NEW b \in 0..255, NEW c \in 0..255
  PROVE  Encodes(a \div 4, (a % 4) * 16 + b \div 16, (b % 16) * 4 + c \div 64, c % 64, a, b, c)
<1> DEFINE x == a \div 4
           y == (a % 4) * 16 + b \div 16
           z == (b % 16) * 4 + c \div 64
           w == c % 64
<1>1. b = 0 => y % 16 = 0
  OBVIOUS
<1>2. c = 0 => z % 4 = 0
  OBVIOUS
<1>3. /\ x \in 0..63 /\ y \in 0..63 /\ z \in 0..63 /\ w \in 0..63
      /\ FirstByte(x, y) = a /\ SecondByte(y, z) = b /\ ThirdByte(z, w) = c
  BY BytesOfSextets, ZenonT(60)
<1> HIDE DEF x, y, z, w
<1>4. Encodes(x, y, z, w, a, b, c)
  BY <1>1, <1>2, <1>3 DEF Encodes
<1> QED
  BY <1>4 DEF x, y, z, w

(* What the encoder writes after 3 * h bytes.                              *)
LEMMA GroupEncoded ==
  ASSUME NEW data \in Strings, NEW h \in Nat, h + 1 \in 1..GroupsOf(data)
  PROVE  LET s == CD!sodium_bin2base64(data)
             u == SextetsOf(data)
         IN  \E x, y, z, w :
               /\ Encodes(x, y, z, w, At64(data, 3 * h + 1), At64(data, 3 * h + 2),
                                      At64(data, 3 * h + 3))
               /\ s[4 * h + 1] = IF 4 * h + 1 <= u THEN x ELSE CD!Pad
               /\ s[4 * h + 2] = IF 4 * h + 2 <= u THEN y ELSE CD!Pad
               /\ s[4 * h + 3] = IF 4 * h + 3 <= u THEN z ELSE CD!Pad
               /\ s[4 * h + 4] = IF 4 * h + 4 <= u THEN w ELSE CD!Pad
<1> DEFINE s == CD!sodium_bin2base64(data)
           u == SextetsOf(data)
           g == h + 1
           a == First(data, g)
           b == Second(data, g)
           c == Third(data, g)
           x == a \div 4
           y == (a % 4) * 16 + b \div 16
           z == (b % 16) * 4 + c \div 64
           w == c % 64
<1>1. /\ a \in 0..255 /\ b \in 0..255 /\ c \in 0..255
      /\ s[4 * g - 3] = IF 4 * g - 3 <= u THEN x ELSE CD!Pad
      /\ s[4 * g - 2] = IF 4 * g - 2 <= u THEN y ELSE CD!Pad
      /\ s[4 * g - 1] = IF 4 * g - 1 <= u THEN z ELSE CD!Pad
      /\ s[4 * g] = IF 4 * g <= u THEN w ELSE CD!Pad
  <2> HIDE DEF g
  <2>1. g \in 1..GroupsOf(data)
    BY DEF g
  <2> QED
    BY <2>1, EncoderParts, Zenon
<1>2. 4 * g - 3 = 4 * h + 1 /\ 4 * g - 2 = 4 * h + 2 /\ 4 * g - 1 = 4 * h + 3
      /\ 4 * g = 4 * h + 4
  OBVIOUS
<1>3. 3 * g - 2 = 3 * h + 1 /\ 3 * g - 1 = 3 * h + 2 /\ 3 * g = 3 * h + 3
  OBVIOUS
<1> HIDE DEF g
<1>4. a = At64(data, 3 * h + 1) /\ b = At64(data, 3 * h + 2) /\ c = At64(data, 3 * h + 3)
  BY <1>3 DEF First, Second, Third
<1> HIDE DEF s, u, a, b, c
<1>5. Encodes(x, y, z, w, a, b, c)
  BY <1>1, SextetsEncode, Zenon
<1> HIDE DEF x, y, z, w
<1>6. /\ s[4 * h + 1] = IF 4 * h + 1 <= u THEN x ELSE CD!Pad
      /\ s[4 * h + 2] = IF 4 * h + 2 <= u THEN y ELSE CD!Pad
      /\ s[4 * h + 3] = IF 4 * h + 3 <= u THEN z ELSE CD!Pad
      /\ s[4 * h + 4] = IF 4 * h + 4 <= u THEN w ELSE CD!Pad
  BY <1>1, <1>2
<1> QED
  BY <1>4, <1>5, <1>6, Zenon DEF s, u

(* The numbers of groups and of sextets that are no padding, by the length.*)
LEMMA Counts ==
  ASSUME NEW data \in Strings
  PROVE  \E h \in Nat :
           \/ Len(data) = 3 * h /\ SextetsOf(data) = 4 * h /\ GroupsOf(data) = h
           \/ Len(data) = 3 * h + 1 /\ SextetsOf(data) = 4 * h + 2 /\ GroupsOf(data) = h + 1
           \/ Len(data) = 3 * h + 2 /\ SextetsOf(data) = 4 * h + 3 /\ GroupsOf(data) = h + 1
<1>1. \A L \in Nat :
        \/ L = 3 * (L \div 3) /\ (8 * L + 5) \div 6 = 4 * (L \div 3) /\ (L + 2) \div 3 = L \div 3
        \/ /\ L = 3 * (L \div 3) + 1 /\ (8 * L + 5) \div 6 = 4 * (L \div 3) + 2
           /\ (L + 2) \div 3 = (L \div 3) + 1
        \/ /\ L = 3 * (L \div 3) + 2 /\ (8 * L + 5) \div 6 = 4 * (L \div 3) + 3
           /\ (L + 2) \div 3 = (L \div 3) + 1
  OBVIOUS
<1>2. Len(data) \in Nat /\ Len(data) \div 3 \in Nat
  BY StringFacts
<1> QED
  BY <1>1, <1>2 DEF SextetsOf, GroupsOf

(* Bit r of sextet q of the group after h groups.                          *)
IsBit(m, h, q, r) == m = 24 * h + 6 * q + r

(* Bit r of sextet q of the group after 4 * h sextets.                     *)
LEMMA BitOfSextet ==
  ASSUME NEW s, NEW h \in Nat, NEW q \in 0..3, NEW r \in 0..5, NEW m, IsBit(m, h, q, r)
  PROVE  BitAt(s, m) = (s[4 * h + q + 1] \div 2^(5 - r)) % 2
<1>1. m \div 6 = 4 * h + q /\ m % 6 = r
  BY DEF IsBit
<1> QED
  BY <1>1 DEF BitAt

(* The bytes the decoder reads from the sextets of a group.                *)
LEMMA BytesOfGroup ==
  ASSUME NEW s, NEW h \in Nat,
         s[4 * h + 1] \in Int, s[4 * h + 2] \in Int, s[4 * h + 3] \in Int, s[4 * h + 4] \in Int
  PROVE  /\ ByteAt(s, 3 * h + 1) = FirstByte(s[4 * h + 1], s[4 * h + 2])
         /\ ByteAt(s, 3 * h + 2) = SecondByte(s[4 * h + 2], s[4 * h + 3])
         /\ ByteAt(s, 3 * h + 3) = ThirdByte(s[4 * h + 3], s[4 * h + 4])
<1> DEFINE Source(q, r) == (s[4 * h + q + 1] \div 2^(5 - r)) % 2
<1>1. \A q \in 0..3, r \in 0..5 : \A m : IsBit(m, h, q, r) => BitAt(s, m) = Source(q, r)
  BY BitOfSextet
<1> HIDE DEF Source
<1>2. \A t \in 0..2, j \in 0..7 :
        BitAt(s, 8 * ((3 * h + t + 1) - 1) + j) = Source((8 * t + j) \div 6, (8 * t + j) % 6)
  <2> TAKE t \in 0..2, j \in 0..7
  <2> DEFINE q == (8 * t + j) \div 6
             r == (8 * t + j) % 6
             m == 8 * ((3 * h + t + 1) - 1) + j
  <2>1. q \in 0..3 /\ r \in 0..5 /\ IsBit(m, h, q, r)
    BY DEF IsBit
  <2> HIDE DEF q, r, m
  <2>2. BitAt(s, m) = Source(q, r)
    BY <1>1, <2>1
  <2> QED
    BY <2>2 DEF q, r, m
<1>3. \A t \in 0..2 :
        ByteAt(s, 3 * h + t + 1)
          = Source((8 * t) \div 6, (8 * t) % 6) * 128
            + Source((8 * t + 1) \div 6, (8 * t + 1) % 6) * 64
            + Source((8 * t + 2) \div 6, (8 * t + 2) % 6) * 32
            + Source((8 * t + 3) \div 6, (8 * t + 3) % 6) * 16
            + Source((8 * t + 4) \div 6, (8 * t + 4) % 6) * 8
            + Source((8 * t + 5) \div 6, (8 * t + 5) % 6) * 4
            + Source((8 * t + 6) \div 6, (8 * t + 6) % 6) * 2
            + Source((8 * t + 7) \div 6, (8 * t + 7) % 6) * 1
  <2> TAKE t \in 0..2
  <2> DEFINE k == 3 * h + t + 1
  <2>1. /\ BitAt(s, 8 * (k - 1) + 0) = Source((8 * t + 0) \div 6, (8 * t + 0) % 6)
        /\ BitAt(s, 8 * (k - 1) + 1) = Source((8 * t + 1) \div 6, (8 * t + 1) % 6)
        /\ BitAt(s, 8 * (k - 1) + 2) = Source((8 * t + 2) \div 6, (8 * t + 2) % 6)
        /\ BitAt(s, 8 * (k - 1) + 3) = Source((8 * t + 3) \div 6, (8 * t + 3) % 6)
        /\ BitAt(s, 8 * (k - 1) + 4) = Source((8 * t + 4) \div 6, (8 * t + 4) % 6)
        /\ BitAt(s, 8 * (k - 1) + 5) = Source((8 * t + 5) \div 6, (8 * t + 5) % 6)
        /\ BitAt(s, 8 * (k - 1) + 6) = Source((8 * t + 6) \div 6, (8 * t + 6) % 6)
        /\ BitAt(s, 8 * (k - 1) + 7) = Source((8 * t + 7) \div 6, (8 * t + 7) % 6)
    BY <1>2
  <2>2. /\ 2^(7 - 0) = 128 /\ 2^(7 - 1) = 64 /\ 2^(7 - 2) = 32 /\ 2^(7 - 3) = 16
        /\ 2^(7 - 4) = 8 /\ 2^(7 - 5) = 4 /\ 2^(7 - 6) = 2 /\ 2^(7 - 7) = 1
    BY SMT
  <2>3. 8 * t + 0 = 8 * t
    OBVIOUS
  <2> HIDE DEF k
  <2>4. ByteAt(s, k)
          = Source((8 * t) \div 6, (8 * t) % 6) * 128
            + Source((8 * t + 1) \div 6, (8 * t + 1) % 6) * 64
            + Source((8 * t + 2) \div 6, (8 * t + 2) % 6) * 32
            + Source((8 * t + 3) \div 6, (8 * t + 3) % 6) * 16
            + Source((8 * t + 4) \div 6, (8 * t + 4) % 6) * 8
            + Source((8 * t + 5) \div 6, (8 * t + 5) % 6) * 4
            + Source((8 * t + 6) \div 6, (8 * t + 6) % 6) * 2
            + Source((8 * t + 7) \div 6, (8 * t + 7) % 6) * 1
    BY <2>1, <2>2, <2>3 DEF ByteAt
  <2> QED
    BY <2>4 DEF k
<1>4. ByteAt(s, 3 * h + 1)
        = Source(0, 0) * 128 + Source(0, 1) * 64 + Source(0, 2) * 32 + Source(0, 3) * 16
          + Source(0, 4) * 8 + Source(0, 5) * 4 + Source(1, 0) * 2 + Source(1, 1) * 1
  BY <1>3
<1>5. ByteAt(s, 3 * h + 2)
        = Source(1, 2) * 128 + Source(1, 3) * 64 + Source(1, 4) * 32 + Source(1, 5) * 16
          + Source(2, 0) * 8 + Source(2, 1) * 4 + Source(2, 2) * 2 + Source(2, 3) * 1
  BY <1>3
<1>6. ByteAt(s, 3 * h + 3)
        = Source(2, 4) * 128 + Source(2, 5) * 64 + Source(3, 0) * 32 + Source(3, 1) * 16
          + Source(3, 2) * 8 + Source(3, 3) * 4 + Source(3, 4) * 2 + Source(3, 5) * 1
  BY <1>3
<1> DEFINE x1 == s[4 * h + 1]
           x2 == s[4 * h + 2]
           x3 == s[4 * h + 3]
           x4 == s[4 * h + 4]
<1>7. /\ Source(0, 0) = (x1 \div 32) % 2 /\ Source(0, 1) = (x1 \div 16) % 2 /\ Source(0, 2) = (x1 \div 8) % 2
      /\ Source(0, 3) = (x1 \div 4) % 2 /\ Source(0, 4) = (x1 \div 2) % 2 /\ Source(0, 5) = (x1 \div 1) % 2
      /\ Source(1, 0) = (x2 \div 32) % 2 /\ Source(1, 1) = (x2 \div 16) % 2 /\ Source(1, 2) = (x2 \div 8) % 2
      /\ Source(1, 3) = (x2 \div 4) % 2 /\ Source(1, 4) = (x2 \div 2) % 2 /\ Source(1, 5) = (x2 \div 1) % 2
      /\ Source(2, 0) = (x3 \div 32) % 2 /\ Source(2, 1) = (x3 \div 16) % 2 /\ Source(2, 2) = (x3 \div 8) % 2
      /\ Source(2, 3) = (x3 \div 4) % 2 /\ Source(2, 4) = (x3 \div 2) % 2 /\ Source(2, 5) = (x3 \div 1) % 2
      /\ Source(3, 0) = (x4 \div 32) % 2 /\ Source(3, 1) = (x4 \div 16) % 2 /\ Source(3, 2) = (x4 \div 8) % 2
      /\ Source(3, 3) = (x4 \div 4) % 2 /\ Source(3, 4) = (x4 \div 2) % 2 /\ Source(3, 5) = (x4 \div 1) % 2
  <2>1. /\ 2^(5 - 0) = 32 /\ 2^(5 - 1) = 16 /\ 2^(5 - 2) = 8 /\ 2^(5 - 3) = 4
        /\ 2^(5 - 4) = 2 /\ 2^(5 - 5) = 1
    BY SMT
  <2>2. 4 * h + 0 + 1 = 4 * h + 1 /\ 4 * h + 1 + 1 = 4 * h + 2 /\ 4 * h + 2 + 1 = 4 * h + 3
        /\ 4 * h + 3 + 1 = 4 * h + 4
    OBVIOUS
  <2> QED
    BY <2>1, <2>2 DEF Source
<1>8. x1 \div 1 = x1 /\ x2 \div 1 = x2 /\ x3 \div 1 = x3 /\ x4 \div 1 = x4
  OBVIOUS
<1>9. x1 \in Int /\ x2 \in Int /\ x3 \in Int /\ x4 \in Int
  OBVIOUS
<1> HIDE DEF x1, x2, x3, x4
<1>10. ByteAt(s, 3 * h + 1) = FirstByte(x1, x2)
  BY <1>4, <1>7, <1>8, <1>9 DEF FirstByte
<1>11. ByteAt(s, 3 * h + 2) = SecondByte(x2, x3)
  BY <1>5, <1>7, <1>8, <1>9 DEF SecondByte
<1>12. ByteAt(s, 3 * h + 3) = ThirdByte(x3, x4)
  BY <1>6, <1>7, <1>8, <1>9 DEF ThirdByte
<1> QED
  BY <1>10, <1>11, <1>12 DEF x1, x2, x3, x4

(* Bit r of sextet number i.                                               *)
IsBitOf(m, i, r) == m = 6 * (i - 1) + r

(* Bit r of sextet i.                                                      *)
LEMMA BitOfNumbered ==
  ASSUME NEW s, NEW i \in Nat, i >= 1, NEW r \in 0..5, NEW m, IsBitOf(m, i, r)
  PROVE  BitAt(s, m) = (s[i] \div 2^(5 - r)) % 2
<1>1. m \div 6 = i - 1 /\ m % 6 = r /\ (i - 1) + 1 = i
  BY DEF IsBitOf
<1> QED
  BY <1>1 DEF BitAt

(* A position in a run of three is the first, the second or the third.     *)
LEMMA ThirdsOf ==
  \A k \in Nat \ {0} : \/ k = 3 * ((k - 1) \div 3) + 1 \/ k = 3 * ((k - 1) \div 3) + 2
                      \/ k = 3 * ((k - 1) \div 3) + 3
OBVIOUS

(* The base64 of data is a sequence of four sextets a group.               *)
LEMMA EncodedIsFunction ==
  ASSUME NEW data
  PROVE  \E S : CD!sodium_bin2base64(data) \in [1..(4 * GroupsOf(data)) -> S]
<1> DEFINE E(k) == IF k <= (8 * Len(data) + 5) \div 6
                   THEN CD!Sextets((IF 3 * ((k + 3) \div 4) - 2 <= Len(data)
                                    THEN data[3 * ((k + 3) \div 4) - 2] ELSE 0) * 65536
                                 + (IF 3 * ((k + 3) \div 4) - 1 <= Len(data)
                                    THEN data[3 * ((k + 3) \div 4) - 1] ELSE 0) * 256
                                 + (IF 3 * ((k + 3) \div 4) <= Len(data)
                                    THEN data[3 * ((k + 3) \div 4)] ELSE 0))[((k - 1) % 4) + 1]
                   ELSE CD!Pad
<1>1. CD!sodium_bin2base64(data) = [k \in 1..(4 * GroupsOf(data)) |-> E(k)]
  BY SMT DEF CD!sodium_bin2base64, GroupsOf
<1> HIDE DEF E
<1>2. CD!sodium_bin2base64(data) \in [1..(4 * GroupsOf(data)) -> {E(k) : k \in 1..(4 * GroupsOf(data))}]
  BY <1>1
<1> QED
  BY <1>2

(* The decoder's count of sextets is the only count that fits.            *)
LEMMA UsedIsUnique ==
  ASSUME NEW s, NEW u \in 0..Len(s), CD!IsUnpadded(s, u),
         \A v \in 0..Len(s) : CD!IsUnpadded(s, v) => v = u
  PROVE  UsedOf(s) = u
<1>1. UsedOf(s) \in 0..Len(s) /\ CD!IsUnpadded(s, UsedOf(s))
  BY SMT DEF UsedOf
<1> QED
  BY <1>1

(* base642bin(bin2base64(data)) = data, whatever its length.               *)
LEMMA Base64Inverts ==
  ASSUME NEW data \in Strings, data # << >>
  PROVE  CD!base642bin(CD!bin2base64(data)) = data
<1> DEFINE L == Len(data)
           G == GroupsOf(data)
           u == SextetsOf(data)
           s == CD!sodium_bin2base64(data)
<1>1. L \in Nat /\ L >= 1 /\ data = [k \in 1..L |-> data[k]]
      /\ \A k \in 1..L : data[k] \in 0..255
  BY StringFacts
<1> DEFINE Shape(h) == \/ L = 3 * h /\ u = 4 * h /\ G = h
                       \/ L = 3 * h + 1 /\ u = 4 * h + 2 /\ G = h + 1
                       \/ L = 3 * h + 2 /\ u = 4 * h + 3 /\ G = h + 1
<1>2. PICK full \in Nat : Shape(full)
  BY Counts
<1>3. Len(s) = 4 * G
  <2>1. G \in Nat /\ 4 * G \in Nat
    BY <1>2
  <2>2. \E S : s \in [1..(4 * G) -> S]
    BY EncodedIsFunction
  <2> HIDE DEF G, s
  <2> QED
    BY <2>1, <2>2, SeqIsFunction
<1> DEFINE Group(h, x, y, z, w) ==
             /\ Encodes(x, y, z, w, At64(data, 3 * h + 1), At64(data, 3 * h + 2),
                                    At64(data, 3 * h + 3))
             /\ s[4 * h + 1] = IF 4 * h + 1 <= u THEN x ELSE CD!Pad
             /\ s[4 * h + 2] = IF 4 * h + 2 <= u THEN y ELSE CD!Pad
             /\ s[4 * h + 3] = IF 4 * h + 3 <= u THEN z ELSE CD!Pad
             /\ s[4 * h + 4] = IF 4 * h + 4 <= u THEN w ELSE CD!Pad
<1>4. \A h \in Nat : h + 1 \in 1..G => \E x, y, z, w : Group(h, x, y, z, w)
  BY GroupEncoded
<1>5. \A k \in 1..L : data[k] = At64(data, k)
  BY DEF At64
<1>6. \A k \in Nat : k > L => At64(data, k) = 0
  BY <1>1 DEF At64
<1> HIDE DEF L, G, u, s
<1>7. G \in Nat /\ G >= 1 /\ u \in Nat /\ u >= 1 /\ u <= 4 * G /\ 4 * G - u <= 2 /\ L <= 3 * G
  BY <1>1, <1>2, SMTT(60)
<1>8. \A k \in 1..(4 * G) : s[k] \in 0..64 /\ (s[k] = CD!Pad <=> k > u)
  <2> TAKE k \in 1..(4 * G)
  <2>1. PICK h \in Nat : /\ h + 1 \in 1..G
                         /\ k = 4 * h + 1 \/ k = 4 * h + 2 \/ k = 4 * h + 3 \/ k = 4 * h + 4
    <3>1. (k - 1) \div 4 \in Nat /\ ((k - 1) \div 4) + 1 \in 1..G
      BY <1>7
    <3>2. \/ k = 4 * ((k - 1) \div 4) + 1 \/ k = 4 * ((k - 1) \div 4) + 2
          \/ k = 4 * ((k - 1) \div 4) + 3 \/ k = 4 * ((k - 1) \div 4) + 4
      BY <1>7
    <3> QED
      BY <3>1, <3>2
  <2>2. PICK x, y, z, w : Group(h, x, y, z, w)
    BY <1>4, <2>1
  <2>3. x \in 0..63 /\ y \in 0..63 /\ z \in 0..63 /\ w \in 0..63
    BY <2>2 DEF Encodes
  <2>4. \/ s[k] = IF k <= u THEN x ELSE CD!Pad
        \/ s[k] = IF k <= u THEN y ELSE CD!Pad
        \/ s[k] = IF k <= u THEN z ELSE CD!Pad
        \/ s[k] = IF k <= u THEN w ELSE CD!Pad
    BY <2>1, <2>2
  <2>5. k \in Nat /\ u \in Nat
    BY <1>7
  <2> HIDE DEF Group
  <2>6. CASE k <= u
    <3>1. s[k] = x \/ s[k] = y \/ s[k] = z \/ s[k] = w
      BY <2>4, <2>6
    <3>2. ~ (k > u)
      BY <1>7, <2>6
    <3> HIDE DEF s, u
    <3>3. \A v \in 0..63 : v \in 0..64 /\ v # CD!Pad
      BY DEF CD!Pad
    <3> QED
      BY <2>3, <3>1, <3>2, <3>3
  <2>7. CASE ~ (k <= u)
    <3>1. s[k] = CD!Pad
      BY <2>4, <2>7
    <3>2. k > u
      BY <1>7, <2>7
    <3>3. CD!Pad \in 0..64
      BY DEF CD!Pad
    <3> QED
      BY <3>1, <3>2, <3>3
  <2> QED
    BY <2>6, <2>7
<1> HIDE DEF Group
<1>9. UsedOf(s) = u
  <2>1. u \in 0..Len(s) /\ CD!IsUnpadded(s, u)
    <3>1. \A k \in 1..u : k \in 1..(4 * G) /\ ~ (k > u)
      BY <1>7
    <3>2. u < Len(s) => u + 1 \in 1..(4 * G) /\ u + 1 > u
      BY <1>3, <1>7
    <3> QED
      BY <1>3, <1>7, <1>8, <3>1, <3>2 DEF CD!IsUnpadded
  <2>2. \A v \in 0..Len(s) : CD!IsUnpadded(s, v) => v = u
    <3> SUFFICES ASSUME NEW v \in 0..Len(s), CD!IsUnpadded(s, v) PROVE v = u
      OBVIOUS
    <3>1. CASE v < u
      <4>1. v + 1 \in 1..(4 * G) /\ v < Len(s) /\ ~ (v + 1 > u)
        BY <1>3, <1>7, <3>1
      <4> QED
        BY <1>8, <4>1 DEF CD!IsUnpadded
    <3>2. CASE v > u
      <4>1. u + 1 \in 1..v /\ u + 1 \in 1..(4 * G) /\ u + 1 > u
        BY <1>3, <1>7, <3>2
      <4> QED
        BY <1>8, <4>1 DEF CD!IsUnpadded
    <3> QED
      BY <1>3, <1>7, <3>1, <3>2
  <2> QED
    BY <2>1, <2>2, UsedIsUnique
<1>10. (6 * u) \div 8 = L /\ (4 * G) % 4 = 0
  <2>1. (6 * u) \div 8 = L
    <3>1. \A h \in Nat : /\ (6 * (4 * h)) \div 8 = 3 * h
                          /\ (6 * (4 * h + 2)) \div 8 = 3 * h + 1
                          /\ (6 * (4 * h + 3)) \div 8 = 3 * h + 2
      OBVIOUS
    <3> QED
      BY <1>2, <3>1
  <2>2. (4 * G) % 4 = 0
    BY <1>7
  <2> QED
    BY <2>1, <2>2
<1>11. SizeOf(s) = L
  BY <1>9, <1>10 DEF SizeOf
<1>12. \A m \in (8 * L)..(6 * u - 1) : BitAt(s, m) # 1
  <2> SUFFICES ASSUME NEW m \in (8 * L)..(6 * u - 1) PROVE BitAt(s, m) # 1
    OBVIOUS
  <2> DEFINE r == m - 6 * (u - 1)
  <2>1. m \in Int /\ IsBitOf(m, u, r)
    BY <1>1, <1>7 DEF IsBitOf
  <2>2. \/ L = 3 * full + 1 /\ u = 4 * full + 2 /\ G = full + 1 /\ r \in 2..5
        \/ L = 3 * full + 2 /\ u = 4 * full + 3 /\ G = full + 1 /\ r \in 4..5
    BY <1>2, <1>7
  <2> HIDE DEF r
  <2>3. r \in 0..5
    BY <2>2
  <2>4. BitAt(s, m) = (s[u] \div 2^(5 - r)) % 2
    BY <1>7, <2>1, <2>3, BitOfNumbered
  <2>5. PICK x, y, z, w : Group(full, x, y, z, w)
    <3>1. full + 1 \in 1..G
      BY <2>2
    <3> QED
      BY <1>4, <3>1
  <2>6. x \in 0..63 /\ y \in 0..63 /\ z \in 0..63 /\ w \in 0..63
    BY <2>5 DEF Encodes, Group
  <2>7. CASE L = 3 * full + 1 /\ u = 4 * full + 2 /\ r \in 2..5
    <3>1. At64(data, 3 * full + 2) = 0
      BY <1>6, <2>7
    <3>2. y % 16 = 0
      BY <2>5, <3>1 DEF Encodes, Group
    <3>3. s[u] = y
      BY <2>5, <2>7 DEF Group
    <3>4. \A v \in 0..63 : v % 16 = 0 =>
            (v \div 1) % 2 = 0 /\ (v \div 2) % 2 = 0 /\ (v \div 4) % 2 = 0 /\ (v \div 8) % 2 = 0
      OBVIOUS
    <3>5. 2^(5 - r) \in {1, 2, 4, 8}
      <4>1. 5 - r \in {0, 1, 2, 3} /\ 2^0 = 1 /\ 2^1 = 2 /\ 2^2 = 4 /\ 2^3 = 8
        BY <2>7
      <4> QED
        BY <4>1
    <3> QED
      BY <2>4, <2>6, <3>2, <3>3, <3>4, <3>5, SMTT(60)
  <2>8. CASE L = 3 * full + 2 /\ u = 4 * full + 3 /\ r \in 4..5
    <3>1. At64(data, 3 * full + 3) = 0
      BY <1>6, <2>8
    <3>2. z % 4 = 0
      BY <2>5, <3>1 DEF Encodes, Group
    <3>3. s[u] = z
      BY <2>5, <2>8 DEF Group
    <3>4. \A v \in 0..63 : v % 4 = 0 => (v \div 1) % 2 = 0 /\ (v \div 2) % 2 = 0
      OBVIOUS
    <3>5. 2^(5 - r) \in {1, 2}
      <4>1. 5 - r \in {0, 1} /\ 2^0 = 1 /\ 2^1 = 2
        BY <2>8
      <4> QED
        BY <4>1
    <3> QED
      BY <2>4, <2>6, <3>2, <3>3, <3>4, <3>5
  <2> QED
    BY <2>2, <2>7, <2>8
<1>13. \A k \in 1..L : ByteAt(s, k) = data[k]
  <2> TAKE k \in 1..L
  <2>1. PICK h \in Nat : h + 1 \in 1..G /\ (k = 3 * h + 1 \/ k = 3 * h + 2 \/ k = 3 * h + 3)
    <3>1. (k - 1) \div 3 \in Nat /\ ((k - 1) \div 3) + 1 \in 1..G
      BY <1>1, <1>7, SMTT(60)
    <3>2. \/ k = 3 * ((k - 1) \div 3) + 1 \/ k = 3 * ((k - 1) \div 3) + 2
          \/ k = 3 * ((k - 1) \div 3) + 3
      <4>1. k \in Nat \ {0}
        BY <1>1
      <4> HIDE DEF L
      <4> QED
        BY ONLY <4>1, ThirdsOf
    <3> QED
      BY <3>1, <3>2
  <2>2. PICK x, y, z, w : Group(h, x, y, z, w)
    BY <1>4, <2>1
  <2>3. /\ FirstByte(x, y) = At64(data, 3 * h + 1) /\ SecondByte(y, z) = At64(data, 3 * h + 2)
        /\ ThirdByte(z, w) = At64(data, 3 * h + 3)
    BY <2>2 DEF Group, Encodes
  <2>4. /\ s[4 * h + 1] = IF 4 * h + 1 <= u THEN x ELSE CD!Pad
        /\ s[4 * h + 2] = IF 4 * h + 2 <= u THEN y ELSE CD!Pad
        /\ s[4 * h + 3] = IF 4 * h + 3 <= u THEN z ELSE CD!Pad
        /\ s[4 * h + 4] = IF 4 * h + 4 <= u THEN w ELSE CD!Pad
    BY <2>2 DEF Group
  <2>5. /\ s[4 * h + 1] \in Int /\ s[4 * h + 2] \in Int /\ s[4 * h + 3] \in Int
        /\ s[4 * h + 4] \in Int
    <3>1. 4 * h + 1 \in 1..(4 * G) /\ 4 * h + 2 \in 1..(4 * G) /\ 4 * h + 3 \in 1..(4 * G)
          /\ 4 * h + 4 \in 1..(4 * G)
      BY <1>7, <2>1
    <3>2. \A v \in 0..64 : v \in Int
      OBVIOUS
    <3> QED
      BY <1>8, <3>1, <3>2
  <2>6. /\ ByteAt(s, 3 * h + 1) = FirstByte(s[4 * h + 1], s[4 * h + 2])
        /\ ByteAt(s, 3 * h + 2) = SecondByte(s[4 * h + 2], s[4 * h + 3])
        /\ ByteAt(s, 3 * h + 3) = ThirdByte(s[4 * h + 3], s[4 * h + 4])
    BY <2>5, BytesOfGroup
  <2>7. data[k] = At64(data, k)
    BY <1>5
  <2>8. CASE k = 3 * h + 1
    <3>1. 4 * h + 1 <= u /\ 4 * h + 2 <= u
      BY <1>1, <1>2, <2>8
    <3> QED
      BY <2>3, <2>4, <2>6, <2>7, <2>8, <3>1
  <2>9. CASE k = 3 * h + 2
    <3>1. 4 * h + 2 <= u /\ 4 * h + 3 <= u
      BY <1>1, <1>2, <2>9, SMTT(60)
    <3> QED
      BY <2>3, <2>4, <2>6, <2>7, <2>9, <3>1, SMTT(60)
  <2>10. CASE k = 3 * h + 3
    <3>1. 4 * h + 3 <= u /\ 4 * h + 4 <= u
      BY <1>1, <1>2, <2>10, SMTT(60)
    <3> QED
      BY <2>3, <2>4, <2>6, <2>7, <2>10, <3>1, SMTT(60)
  <2> QED
    BY <2>1, <2>8, <2>9, <2>10
<1>14. ~ Spoilt(s)
  <2>1. Len(s) % 4 = 0 /\ ~ (Len(s) - UsedOf(s) > 2)
    BY <1>3, <1>7, <1>9, <1>10
  <2>2. ~ \E k \in 1..Len(s) : (s[k] = CD!Pad) # (k > UsedOf(s))
    BY <1>3, <1>8, <1>9
  <2>3. ~ \E m \in (8 * SizeOf(s))..(6 * UsedOf(s) - 1) : BitAt(s, m) = 1
    BY <1>9, <1>11, <1>12
  <2> QED
    BY <2>1, <2>2, <2>3, Zenon DEF Spoilt
<1>15. CD!sodium_base642bin(s) = [k \in 1..L |-> ByteAt(s, k)]
  BY <1>11, <1>14, DecoderParts
<1>16. s # << >>
  BY <1>3, <1>7
<1>17. CD!sodium_base642bin(s) = data
  BY <1>1, <1>13, <1>15
<1> QED
  BY <1>16, <1>17 DEF CD!base642bin, CD!bin2base64, s

(* The two hexadecimal readers and writers, and base64, whatever the       *)
(* buffers and strings: see CodecsInvert.                                  *)
THEOREM CodecsAreInverse == Spec => []CodecsInvert
<1> USE DEF Called, In, Out, Idle
<1>1. Init => CodecsInvert
  BY DEF Init, CodecsInvert
<1>2. ASSUME CodecsInvert, [Next]_vars PROVE CodecsInvert'
  <2>1. CASE job' = job
    BY <1>2, <2>1 DEF CodecsInvert
  <2>2. CASE job' = Idle \/ job' = << "field", << >>, << >> >>
    <3>1. job'[1] \notin {"hextobin", "hextobinStrict", "bintohex", "bin2base64"}
      BY <2>2
    <3> QED
      BY <3>1, Zenon DEF CodecsInvert
  <2>3. CASE RunCodec
    <3>1. CASE \E hex \in HexStrings : Run("hextobin", << hex >>, CD!hextobin(hex))
      <4>1. PICK hex \in HexStrings : job' = << "hextobin", << hex >>, CD!hextobin(hex) >>
        BY <3>1 DEF Run
      <4>2. CD!hextobin(hex) = CD!Refused <=> Len(hex) % 2 = 1
        BY ArgumentsAssumption, LooseRefuses
      <4> QED
        BY <4>1, <4>2 DEF CodecsInvert
    <3>2. CASE \E hex \in HexStrings : \E size \in 0..2 :
                 Run("hextobinStrict", << hex, size >>, CD!hextobinStrict(hex, size))
      <4>1. PICK hex \in HexStrings, size \in 0..2 :
              job' = << "hextobinStrict", << hex, size >>, CD!hextobinStrict(hex, size) >>
        BY <3>2 DEF Run
      <4>2. IF CD!hextobinStrict(hex, size) = CD!Refused
            THEN Len(hex) # 2 * size \/ \E k \in DOMAIN hex : ~CD!IsHexChar(hex[k])
            ELSE CD!hextobin(hex) = CD!hextobinStrict(hex, size)
        BY ArgumentsAssumption, StrictAgrees
      <4> QED
        BY <4>1, <4>2 DEF CodecsInvert
    <3>3. CASE \E data \in Buffers : Run("bintohex", << data >>, CD!bintohex(data))
      <4>1. PICK data \in Buffers : job' = << "bintohex", << data >>, CD!bintohex(data) >>
        BY <3>3 DEF Run
      <4>2. /\ CD!hextobin(CD!bintohex(data)) = data
            /\ CD!hextobinStrict(CD!bintohex(data), Len(data)) = data
        BY ArgumentsAssumption, HexInverts
      <4> QED
        BY <4>1, <4>2 DEF CodecsInvert
    <3>4. CASE \E data \in Buffers : Run("bin2base64", << data >>, CD!bin2base64(data))
      <4>1. PICK data \in Buffers :
              job' = << "bin2base64", << data >>, CD!bin2base64(data) >>
        BY <3>4 DEF Run
      <4>2. data # << >> => CD!base642bin(CD!bin2base64(data)) = data
        BY ArgumentsAssumption, Base64Inverts
      <4> QED
        BY <4>1, <4>2 DEF CodecsInvert
    <3> QED
      BY <2>3, <3>1, <3>2, <3>3, <3>4 DEF RunCodec
  <2>4. CASE RunScalar \/ RunRecoding \/ RunPower \/ RunVarint \/ RunSecretbox \/ RunHash
    <3>1. job'[1] \notin {"hextobin", "hextobinStrict", "bintohex", "bin2base64"}
      <4>1. job'[1] \in {"sc_reduce", "sc_reduce32", "sc_check", "sc_add", "sc_sub", "sc_mulsub",
                         "recoding", "varint", "secretboxOpen", "round", "blocks",
                         "sha1 padding", "double round", "cn_fast_hash", "sha1", "chacha"}
            \/ job' = << "power", << >>, << PC!fe_invert, PC!fe_pow22523 >> >>
        BY <2>4, CallNames, Zenon
      <4>2. \A call \in {"sc_reduce", "sc_reduce32", "sc_check", "sc_add", "sc_sub",
                         "sc_mulsub", "recoding", "varint", "secretboxOpen", "round", "blocks",
                         "sha1 padding", "double round", "cn_fast_hash", "sha1", "chacha",
                         "power"} :
               call \notin {"hextobin", "hextobinStrict", "bintohex", "bin2base64"}
        OBVIOUS
      <4>3. \A x, y, z : << x, y, z >>[1] = x
        OBVIOUS
      <4> QED
        BY <4>1, <4>2, <4>3, ZenonT(60)
    <3> QED
      BY <3>1, Zenon DEF CodecsInvert
  <2> QED
    BY <1>2, <2>1, <2>2, <2>3, <2>4, CallStep
<1> QED
  BY <1>1, <1>2, PTL DEF Spec
-----------------------------------------------------------------------------
(* The constants' types and order.                                         *)
LEMMA VarintFacts ==
  /\ GroupBits \in Nat /\ GroupBits >= 1 /\ IntegerBits \in Nat /\ IntegerBits >= 1
  /\ MantissaBits \in Nat /\ MantissaBits >= 1 /\ MantissaBits <= IntegerBits
  /\ FractionBits \in Nat /\ MAX_VARINT_SIZE \in Nat
  /\ GroupBits * MAX_VARINT_SIZE >= IntegerBits
BY KernelsAssumption DEF VI!VarintAssumption

(* Groups(i): the bytes that write_varint writes are enough for i, and one *)
(* less is not.                                                            *)
LEMMA GroupsExact ==
  ASSUME NEW i \in Nat, i < 2^IntegerBits
  PROVE  LET g == VI!Groups(i)
         IN  /\ g \in Nat /\ g >= 1 /\ i < 2^(GroupBits * g)
             /\ \A m \in 1..(g - 1) : i >= 2^(GroupBits * m) /\ GroupBits * m < IntegerBits
<1> DEFINE S == {m \in Nat : m >= 1 /\ i < 2^(GroupBits * m)}
<1>1. IntegerBits \in S
  <2>1. IntegerBits <= GroupBits * IntegerBits /\ GroupBits * IntegerBits \in Nat
    BY VarintFacts
  <2>2. 2^IntegerBits <= 2^(GroupBits * IntegerBits)
    BY <2>1, VarintFacts, PowersGrow
  <2>3. 2^IntegerBits \in Nat /\ 2^(GroupBits * IntegerBits) \in Nat
    BY <2>1, VarintFacts, PowerPositive
  <2> QED
    BY <2>2, <2>3, VarintFacts
<1>2. PICK x \in S : \A y \in S : x <= y
  BY <1>1, LeastNumber
<1>3. x \in 1..(IntegerBits + 1) /\ VI!Ends(i, x)
  <2>1. x <= IntegerBits
    BY <1>1, <1>2
  <2>2. \A m \in 1..(x - 1) : i >= 2^(GroupBits * m)
    <3> TAKE m \in 1..(x - 1)
    <3>1. m \in Nat /\ m >= 1 /\ m \notin S /\ GroupBits * m \in Nat
      BY <1>2, VarintFacts
    <3>2. 2^(GroupBits * m) \in Nat
      BY <3>1, PowerPositive
    <3> QED
      BY <3>1, <3>2
  <2> QED
    BY <2>1, <2>2, VarintFacts DEF VI!Ends
<1> DEFINE g == VI!Groups(i)
<1>4. g \in 1..(IntegerBits + 1) /\ VI!Ends(i, g)
  BY <1>3, SMT DEF VI!Groups
<1> HIDE DEF g, S
<1>5. g \in Nat /\ g >= 1 /\ i < 2^(GroupBits * g) /\ \A m \in 1..(g - 1) : i >= 2^(GroupBits * m)
  BY <1>4, VarintFacts DEF VI!Ends
<1>6. \A m \in 1..(g - 1) : GroupBits * m < IntegerBits
  <2> SUFFICES ASSUME NEW m \in 1..(g - 1), ~ (GroupBits * m < IntegerBits) PROVE FALSE
    OBVIOUS
  <2>1. m \in Nat /\ GroupBits * m \in Nat
    BY <1>5, VarintFacts
  <2>2. 2^IntegerBits <= 2^(GroupBits * m)
    BY <2>1, VarintFacts, PowersGrow
  <2>3. 2^IntegerBits \in Nat /\ 2^(GroupBits * m) \in Nat
    BY <2>1, VarintFacts, PowerPositive
  <2> QED
    BY <1>5, <2>2, <2>3
<1> QED
  BY <1>5, <1>6 DEF g

(* Readings: what read_varint's loop has between two bytes.                *)
Readings == {st \in [i : Int, read : Int, done : BOOLEAN] : st.done \/ st.read \in Nat}
Unread == [i |-> 0, read |-> 0, done |-> FALSE]

(* A byte leads from reading to reading.                                   *)
LEMMA ReadingsStay ==
  ASSUME NEW st \in Readings, NEW byte \in Nat
  PROVE  VI!ReadByte(st, byte) \in Readings
<1> DEFINE shift == GroupBits * st.read
<1>1. st \in [i : Int, read : Int, done : BOOLEAN]
  BY DEF Readings
<1>2. CASE st.done
  <2>1. VI!ReadByte(st, byte) = st
    BY <1>2, Zenon DEF VI!ReadByte
  <2> QED
    BY <2>1
<1>3. CASE ~ st.done
  <2>1. st.read \in Nat /\ shift \in Nat
    BY <1>3, VarintFacts DEF Readings
  <2>2. 2^shift \in Nat /\ VI!Continue \in Nat /\ VI!Continue > 0
    BY <2>1, VarintFacts, PowerPositive DEF VI!Continue
  <2>3. byte % VI!Continue \in Nat
    BY <2>2, Division
  <2> DEFINE next == [i |-> st.i + (byte % VI!Continue) * 2^shift, read |-> st.read + 1,
                      done |-> byte < VI!Continue]
  <2>4. st.i + (byte % VI!Continue) * 2^shift \in Int
    <3>1. \A x \in Int, y, z \in Nat : x + y * z \in Int
      OBVIOUS
    <3> QED
      BY <1>1, <2>2, <2>3, <3>1
  <2>5. next \in Readings
    BY <2>1, <2>2, <2>4 DEF Readings
  <2>6. /\ [i |-> st.i, read |-> -1, done |-> TRUE] \in Readings
        /\ [i |-> st.i, read |-> -2, done |-> TRUE] \in Readings
    BY <1>1 DEF Readings
  <2>7. \/ VI!ReadByte(st, byte) = [i |-> st.i, read |-> -1, done |-> TRUE]
        \/ VI!ReadByte(st, byte) = [i |-> st.i, read |-> -2, done |-> TRUE]
        \/ VI!ReadByte(st, byte) = next
    BY <1>3, Zenon DEF VI!ReadByte
  <2> QED
    BY <2>5, <2>6, <2>7, Zenon
<1> QED
  BY <1>2, <1>3

(* The fold of read_varint is a run of the loop.                           *)
LEMMA ReadRuns ==
  ASSUME NEW len \in Nat, NEW bytes \in [1..len -> Nat]
  PROVE  \E run \in [0..len -> Readings] :
           /\ run[0] = Unread
           /\ run[len] = VI!read_varint(bytes)
           /\ \A k \in 1..len : run[k] = VI!ReadByte(run[k - 1], bytes[k])
<1> DEFINE last == [T \in SUBSET (1..len) |-> VI!Max(T)]
           step == [vk \in Readings \X (1..len) |-> VI!ReadByte(vk[1], bytes[vk[2]])]
           Folds(it) == it = [T \in SUBSET DOMAIN bytes |->
                          IF T = {} THEN Unread
                          ELSE VI!ReadByte(it[T \ {VI!Max(T)}], bytes[VI!Max(T)])]
<1>1. DOMAIN bytes = 1..len /\ \A k \in 1..len : bytes[k] \in Nat
  OBVIOUS
<1>2. \A v \in Readings, k \in 1..len :
        step[<< v, k >>] = VI!ReadByte(v, bytes[k]) /\ step[<< v, k >>] \in Readings
  BY <1>1, ReadingsStay
<1>3. \A T \in SUBSET (1..len) : last[T] = VI!Max(T)
  OBVIOUS
<1>4. Largest(last, len)
  <2>1. \A T \in SUBSET (1..len) : T # {} => VI!Max(T) \in T /\ \A x \in T : VI!Max(T) >= x
    <3> TAKE T \in SUBSET (1..len)
    <3> HAVE T # {}
    <3>1. \E x \in T : \A y \in T : x >= y
      BY <1>1, LargestIsMax
    <3> QED
      BY <3>1 DEF VI!Max
  <2>2. ASSUME NEW T \in SUBSET (1..len), T # {}
        PROVE  last[T] \in T /\ \A x \in T : x <= last[T]
    <3>1. last[T] \in T /\ \A x \in T : last[T] >= x
      BY <1>3, <2>1, <2>2
    <3>2. T \subseteq Int
      BY <1>1
    <3> QED
      BY <3>1, <3>2
  <2> HIDE DEF last
  <2> QED
    BY <2>2 DEF Largest
<1>5. Stays(step, Readings, len) /\ Unread \in Readings
  <2>1. Unread \in Readings
    BY DEF Unread, Readings
  <2> HIDE DEF step
  <2> QED
    BY <1>2, <2>1 DEF Stays
<1> HIDE DEF step, last
<1>6. PICK it \in [SUBSET (1..len) -> Readings] : Solves(it, 1..len, last, step, Unread)
  BY <1>4, <1>5, FoldExists, Zenon
<1>7. Folds(it)
  <2>1. ASSUME NEW T \in SUBSET (1..len), T # {}
        PROVE  it[T] = VI!ReadByte(it[T \ {VI!Max(T)}], bytes[VI!Max(T)])
    <3>1. last[T] = VI!Max(T) /\ last[T] \in 1..len
      BY <1>3, <1>4, <2>1 DEF Largest
    <3>2. it[T] = step[<< it[T \ {last[T]}], last[T] >>]
      BY <1>6, <2>1 DEF Solves
    <3>3. it[T \ {last[T]}] \in Readings
      OBVIOUS
    <3> QED
      BY <1>2, <3>1, <3>2, <3>3
  <2>2. it[{}] = Unread
    BY <1>6 DEF Solves
  <2>3. it = [T \in SUBSET (1..len) |-> it[T]]
    OBVIOUS
  <2>4. [T \in SUBSET (1..len) |-> it[T]]
          = [T \in SUBSET (1..len) |->
               IF T = {} THEN Unread ELSE VI!ReadByte(it[T \ {VI!Max(T)}], bytes[VI!Max(T)])]
    BY <2>1, <2>2
  <2> QED
    BY <1>1, <2>3, <2>4, Zenon
<1>8. PICK iter : Folds(iter) /\ VI!read_varint(bytes) = iter[DOMAIN bytes]
  <2>1. VI!read_varint(bytes) = (CHOOSE i : Folds(i))[DOMAIN bytes]
    BY Zenon DEF VI!read_varint, VI!FoldLeft, VI!MapThenFoldSet, Unread
  <2> HIDE DEF Folds
  <2> QED
    BY <1>7, <2>1, Zenon
<1>9. Follows(iter, len, Readings, last, step, Unread)
  <2>1. iter[{}] = Unread
    BY <1>8
  <2>2. ASSUME NEW T \in SUBSET (1..len), T # {}, iter[T \ {last[T]}] \in Readings
        PROVE  iter[T] = step[<< iter[T \ {last[T]}], last[T] >>]
    <3>1. last[T] = VI!Max(T) /\ last[T] \in 1..len
      BY <1>3, <1>4, <2>2 DEF Largest
    <3>2. iter[T] = VI!ReadByte(iter[T \ {VI!Max(T)}], bytes[VI!Max(T)])
      BY <1>1, <1>8, <2>2
    <3> QED
      BY <1>2, <2>2, <3>1, <3>2
  <2> QED
    BY <2>1, <2>2 DEF Follows
<1>10. PICK run : IsRun(run, len, Readings, step, Unread, iter[1..len])
  BY <1>4, <1>5, <1>9, FoldRuns, Zenon
<1>11. \A k \in 1..len : run[k] = VI!ReadByte(run[k - 1], bytes[k])
  <2> TAKE k \in 1..len
  <2>1. run[k - 1] \in Readings
    BY <1>10 DEF IsRun
  <2> QED
    BY <1>2, <1>10, <2>1 DEF IsRun
<1> QED
  BY <1>1, <1>8, <1>10, <1>11, ZenonT(60) DEF IsRun

(* Where the loop is after k bytes of i, and the byte it reads then.       *)
After(i, k) == [i |-> i % 2^(GroupBits * k), read |-> k, done |-> k = VI!Groups(i)]
Written(i, k) == ((i \div 2^(GroupBits * (k - 1))) % VI!Continue)
                   + (IF k < VI!Groups(i) THEN VI!Continue ELSE 0)

(* What is written is a number.                                            *)
LEMMA WrittenIsNumber ==
  ASSUME NEW i \in Nat, NEW k \in Nat, k >= 1
  PROVE  Written(i, k) \in Nat
<1>1. GroupBits * (k - 1) \in Nat
  BY VarintFacts
<1>2. /\ 2^(GroupBits * (k - 1)) \in Nat /\ 2^(GroupBits * (k - 1)) > 0
      /\ VI!Continue \in Nat /\ VI!Continue > 0
  BY <1>1, VarintFacts, PowerPositive DEF VI!Continue
<1>3. i \div 2^(GroupBits * (k - 1)) \in Int
  BY <1>2, Division
<1>4. (i \div 2^(GroupBits * (k - 1))) % VI!Continue \in Nat
  BY <1>2, <1>3, Division
<1> QED
  BY <1>2, <1>4 DEF Written

(* The loop takes byte k + 1 as it was meant.                              *)
LEMMA ReadsWritten ==
  ASSUME NEW i \in Nat, i < 2^IntegerBits, NEW k \in Nat, k < VI!Groups(i)
  PROVE  VI!ReadByte(After(i, k), Written(i, k + 1)) = After(i, k + 1)
<1> DEFINE g == VI!Groups(i)
           shift == GroupBits * k
           a == 2^shift
           c == VI!Continue
           q == i \div a
           d == q % c
           byte == Written(i, k + 1)
<1>1. /\ g \in Nat /\ g >= 1 /\ i < 2^(GroupBits * g)
      /\ \A m \in 1..(g - 1) : i >= 2^(GroupBits * m) /\ GroupBits * m < IntegerBits
  BY GroupsExact
<1> HIDE DEF g
<1>2. /\ shift \in Nat /\ GroupBits * (k + 1) = shift + GroupBits /\ GroupBits * (k + 1) \in Nat
      /\ (k + 1) - 1 = k /\ (k = 0 => shift = 0) /\ (k # 0 => shift # 0)
  BY VarintFacts
<1>3. a \in Nat /\ a > 0 /\ c \in Nat /\ c > 0 /\ 2^(GroupBits * (k + 1)) = a * c
  BY <1>2, VarintFacts, PowerPositive, PowerSum DEF VI!Continue
<1>4. byte = d + (IF k + 1 < g THEN c ELSE 0)
  BY <1>2, Zenon DEF Written, g
<1>5. q \in Nat /\ (i >= a => q >= 1)
  BY <1>3, QuotientBelow
<1> HIDE DEF shift, c, a
<1>6. i % (a * c) = (i % a) + d * a
  BY <1>3, RemainderSplit
<1>7. d \in 0..(c - 1)
  BY <1>3, <1>5, Division
<1>8. k + 1 = g => d = q
  <2> SUFFICES ASSUME k + 1 = g PROVE d = q
    OBVIOUS
  <2>1. i < a * c
    BY <1>1, <1>3
  <2>2. q < c
    BY <1>3, <2>1, QuotientBelow
  <2> HIDE DEF q
  <2> QED
    BY <1>3, <1>5, <2>2, QuotientBelow
<1> HIDE DEF q, d, byte
<1>9. ~ (shift + GroupBits >= IntegerBits /\ byte >= 2^(IntegerBits - shift))
  <2>1. CASE k + 1 < g
    <3>1. GroupBits * (k + 1) < IntegerBits
      BY <1>1, <2>1
    <3> QED
      BY <1>2, <3>1, VarintFacts
  <2>2. CASE k + 1 = g
    <3>1. shift < IntegerBits
      <4>1. CASE k = 0
        BY <1>2, <4>1, VarintFacts
      <4>2. CASE k # 0
        BY <1>1, <2>2, <4>2 DEF shift
      <4> QED
        BY <4>1, <4>2
    <3>2. IntegerBits - shift \in Nat /\ shift + (IntegerBits - shift) = IntegerBits
      BY <1>2, <3>1, VarintFacts
    <3>3. 2^IntegerBits = a * 2^(IntegerBits - shift)
      BY <1>2, <3>2, PowerSum DEF a
    <3>4. 2^(IntegerBits - shift) \in Nat
      BY <3>2, PowerPositive
    <3>5. q < 2^(IntegerBits - shift)
      BY <1>3, <3>3, <3>4, QuotientBelow DEF q
    <3>6. byte = q
      BY <1>4, <1>5, <1>8, <2>2
    <3> QED
      BY <1>5, <3>4, <3>5, <3>6
  <2> QED
    BY <1>1, <2>1, <2>2 DEF g
<1>10. ~ (byte = 0 /\ shift # 0)
  <2>1. CASE k + 1 < g
    BY <1>3, <1>4, <1>7, <2>1
  <2>2. CASE k + 1 = g
    <3>1. k # 0 => i >= a
      BY <1>1, <2>2 DEF a, shift
    <3>2. byte = q
      BY <1>4, <1>5, <1>8, <2>2
    <3> QED
      BY <1>2, <1>5, <3>1, <3>2
  <2> QED
    BY <1>1, <2>1, <2>2 DEF g
<1>11. byte % c = d /\ (byte < c <=> k + 1 = g)
  <2>1. CASE k + 1 < g
    <3>1. byte = c * 1 + d
      BY <1>3, <1>4, <1>7, <2>1
    <3>2. byte % c = d
      BY <1>3, <1>7, <3>1, DivisionUnique
    <3> QED
      BY <1>3, <1>7, <2>1, <3>1, <3>2
  <2>2. CASE k + 1 = g
    <3>1. byte = c * 0 + d
      BY <1>3, <1>4, <1>7, <2>2
    <3>2. byte % c = d
      BY <1>3, <1>7, <3>1, DivisionUnique
    <3> QED
      BY <1>3, <1>7, <2>2, <3>1, <3>2
  <2> QED
    BY <1>1, <2>1, <2>2 DEF g
<1>12. k # g
  BY <1>1 DEF g
<1>13. After(i, k) = [i |-> i % a, read |-> k, done |-> FALSE]
  BY <1>12 DEF After, a, shift, g
<1>14. After(i, k + 1) = [i |-> (i % a) + d * a, read |-> k + 1, done |-> byte < c]
  <2>1. After(i, k + 1) = [i |-> i % 2^(GroupBits * (k + 1)), read |-> k + 1, done |-> k + 1 = g]
    BY DEF After, g
  <2>2. (k + 1 = g) = (byte < c)
    BY <1>11
  <2> QED
    BY <1>3, <1>6, <2>1, <2>2
<1>15. VI!ReadByte(After(i, k), byte) = After(i, k + 1)
  <2> DEFINE st == After(i, k)
  <2>1. st.i = i % a /\ st.read = k /\ ~ st.done
    BY <1>13
  <2> HIDE DEF st
  <2>2. VI!ReadByte(st, byte) = [i |-> st.i + (byte % c) * a, read |-> st.read + 1, done |-> byte < c]
    BY <1>9, <1>10, <2>1, Zenon DEF VI!ReadByte, shift, a, c
  <2> QED
    BY <1>11, <1>14, <2>1, <2>2 DEF st
<1> QED
  BY <1>15 DEF byte

(* read_varint reads what write_varint wrote, in its length and within the *)
(* buffer.                                                                 *)
LEMMA VarintInverts ==
  ASSUME NEW i \in Nat, i < 2^IntegerBits
  PROVE  LET bytes == VI!write_varint(i)
         IN  /\ bytes # VI!Refused
             /\ VI!read_varint(bytes) = [i |-> i, read |-> Len(bytes), done |-> TRUE]
             /\ Len(bytes) <= MAX_VARINT_SIZE
<1> DEFINE g == VI!Groups(i)
           bytes == VI!write_varint(i)
<1>1. /\ g \in Nat /\ g >= 1 /\ i < 2^(GroupBits * g)
      /\ \A m \in 1..(g - 1) : i >= 2^(GroupBits * m) /\ GroupBits * m < IntegerBits
  BY GroupsExact
<1>2. bytes = [k \in 1..g |-> Written(i, k)]
  BY Zenon DEF VI!write_varint, Written
<1> HIDE DEF g, bytes
<1>3. \A k \in 1..g : Written(i, k) \in Nat
  BY <1>1, WrittenIsNumber
<1>4. bytes \in [1..g -> Nat] /\ \A k \in 1..g : bytes[k] = Written(i, k)
  BY <1>2, <1>3
<1>5. bytes \in Seq(Nat) /\ Len(bytes) = g
  BY <1>1, <1>4, SeqIsFunction
<1>6. PICK run \in [0..g -> Readings] :
        /\ run[0] = Unread
        /\ run[g] = VI!read_varint(bytes)
        /\ \A k \in 1..g : run[k] = VI!ReadByte(run[k - 1], bytes[k])
  BY <1>1, <1>4, ReadRuns
<1> DEFINE S == {k \in Nat : k <= g => run[k] = After(i, k)}
<1>7. 0 \in S
  <2>1. 2^(GroupBits * 0) = 1
    <3>1. GroupBits * 0 = 0 /\ 2^0 = 1
      BY VarintFacts
    <3> QED
      BY <3>1
  <2>2. i % 1 = 0
    OBVIOUS
  <2>3. After(i, 0) = Unread
    <3>1. After(i, 0) = [i |-> i % 2^(GroupBits * 0), read |-> 0, done |-> 0 = g]
      BY DEF After, g
    <3>2. (0 = g) = FALSE
      BY <1>1
    <3> QED
      BY <2>1, <2>2, <3>1, <3>2 DEF Unread
  <2> QED
    BY <1>6, <2>3
<1>8. ASSUME NEW k \in Nat, k \in S
      PROVE  k + 1 \in S
  <2> SUFFICES ASSUME k + 1 <= g PROVE run[k + 1] = After(i, k + 1)
    OBVIOUS
  <2>1. run[k] = After(i, k) /\ k + 1 \in 1..g /\ (k + 1) - 1 = k /\ k < g
    BY <1>1, <1>8
  <2>2. run[k + 1] = VI!ReadByte(After(i, k), Written(i, k + 1))
    BY <1>4, <1>6, <2>1
  <2> QED
    BY <2>1, <2>2, ReadsWritten DEF g
<1>9. Nat \subseteq S
  <2> HIDE DEF S
  <2> QED
    BY <1>7, <1>8, NaturalInduction
<1>10. VI!read_varint(bytes) = After(i, g)
  BY <1>1, <1>6, <1>9
<1>11. After(i, g) = [i |-> i, read |-> g, done |-> TRUE]
  <2>1. GroupBits * g \in Nat
    BY <1>1, VarintFacts
  <2>2. 2^(GroupBits * g) \in Nat /\ 2^(GroupBits * g) > 0
    BY <2>1, PowerPositive
  <2>3. i % 2^(GroupBits * g) = i
    BY <1>1, <2>2, QuotientBelow
  <2> QED
    BY <2>3 DEF After, g
<1>12. g <= MAX_VARINT_SIZE
  <2> SUFFICES ASSUME g > MAX_VARINT_SIZE PROVE FALSE
    BY <1>1, VarintFacts
  <2>1. CASE g = 1
    BY <1>1, <2>1, VarintFacts
  <2>2. CASE g > 1
    <3>1. GroupBits * (g - 1) < IntegerBits
      BY <1>1, <2>2
    <3>2. g - 1 >= MAX_VARINT_SIZE /\ g - 1 \in Nat
      BY <1>1, VarintFacts
    <3>3. GroupBits * (g - 1) >= GroupBits * MAX_VARINT_SIZE
      BY <3>2, VarintFacts
    <3>4. GroupBits * (g - 1) \in Int /\ GroupBits * MAX_VARINT_SIZE \in Int
      BY <3>2, VarintFacts
    <3> QED
      BY <3>1, <3>3, <3>4, VarintFacts
  <2> QED
    BY <1>1, <2>1, <2>2
<1>13. bytes # VI!Refused
  <2>1. VI!Refused = << >> /\ Len(<< >>) = 0
    BY DEF VI!Refused
  <2> QED
    BY <1>1, <1>5, <2>1
<1> QED
  BY <1>5, <1>10, <1>11, <1>12, <1>13 DEF bytes

(* The exponent ToDouble chooses for i.                                    *)
ExponentOf(i) == CHOOSE e \in 0..IntegerBits : VI!IsExponent(i, e)
RoundsUp(i) ==
  LET twice == 2 * (i % 2^ExponentOf(i))
  IN  twice > 2^ExponentOf(i)
        \/ (twice = 2^ExponentOf(i) /\ (i \div 2^ExponentOf(i)) % 2 = 1)

(* ToDouble in these terms.                                                *)
LEMMA ToDoubleParts ==
  \A i : VI!ToDouble(i)
           = (IF RoundsUp(i) THEN (i \div 2^ExponentOf(i)) + 1 ELSE i \div 2^ExponentOf(i))
               * 2^ExponentOf(i) * VI!Unit
BY Zenon DEF VI!ToDouble, RoundsUp, ExponentOf

(* The exponent is needed: one less is too small for i.                    *)
LEMMA ExponentExact ==
  ASSUME NEW i \in Nat, i < 2^IntegerBits
  PROVE  LET e == ExponentOf(i)
         IN  e \in Nat /\ (e # 0 => i > 2^(MantissaBits + (e - 1)))
<1> DEFINE S == {e \in Nat : i <= 2^(MantissaBits + e)}
<1>1. IntegerBits \in S
  <2>1. MantissaBits + IntegerBits \in Nat /\ IntegerBits <= MantissaBits + IntegerBits
    BY VarintFacts
  <2>2. 2^IntegerBits <= 2^(MantissaBits + IntegerBits)
    BY <2>1, VarintFacts, PowersGrow
  <2>3. 2^IntegerBits \in Nat /\ 2^(MantissaBits + IntegerBits) \in Nat
    BY <2>1, VarintFacts, PowerPositive
  <2> QED
    BY <2>2, <2>3, VarintFacts
<1>2. PICK x \in S : \A y \in S : x <= y
  BY <1>1, LeastNumber
<1>3. x \in 0..IntegerBits /\ VI!IsExponent(i, x)
  <2>1. x <= IntegerBits /\ x \in Nat
    BY <1>1, <1>2
  <2>2. \A y \in 0..(x - 1) : i > 2^(MantissaBits + y)
    <3> TAKE y \in 0..(x - 1)
    <3>1. y \in Nat /\ y \notin S /\ MantissaBits + y \in Nat
      BY <1>2, VarintFacts
    <3>2. 2^(MantissaBits + y) \in Nat
      BY <3>1, PowerPositive
    <3> QED
      BY <3>1, <3>2
  <2> QED
    BY <1>2, <2>1, <2>2, VarintFacts DEF VI!IsExponent
<1>4. ExponentOf(i) \in 0..IntegerBits /\ VI!IsExponent(i, ExponentOf(i))
  BY <1>3, SMT DEF ExponentOf
<1> QED
  BY <1>4, VarintFacts DEF VI!IsExponent

(* Whatever is converted to a double, it is a whole number of ones.        *)
LEMMA ToDoubleIsWhole ==
  ASSUME NEW i \in Nat, i < 2^IntegerBits
  PROVE  \E k \in Int : VI!ToDouble(i) = k * VI!Unit
<1> DEFINE e == ExponentOf(i)
           low == i \div 2^e
           up == IF RoundsUp(i) THEN low + 1 ELSE low
<1>1. e \in Nat
  BY ExponentExact
<1> HIDE DEF e
<1>2. 2^e \in Nat /\ 2^e > 0
  BY <1>1, PowerPositive
<1>3. low \in Int
  BY <1>2, Division
<1>4. up \in Int
  BY <1>3
<1>5. VI!ToDouble(i) = up * 2^e * VI!Unit
  BY ToDoubleParts, Zenon DEF e
<1> HIDE DEF up
<1>6. up * 2^e \in Int
  BY <1>2, <1>4
<1> QED
  BY <1>5, <1>6

(* An integer that is a double converts to itself.                         *)
LEMMA ToDoubleExact ==
  ASSUME NEW i \in Nat, i < 2^IntegerBits, VI!IsDouble(i * VI!Unit)
  PROVE  VI!ToDouble(i) = i * VI!Unit
<1> DEFINE e == ExponentOf(i)
           x == i * VI!Unit
<1>1. e \in Nat /\ (e # 0 => i > 2^(MantissaBits + (e - 1)))
  BY ExponentExact
<1> HIDE DEF e
<1>2. 2^e \in Nat /\ 2^e > 0 /\ VI!Unit \in Nat /\ VI!Unit > 0
  BY <1>1, VarintFacts, PowerPositive DEF VI!Unit
<1>3. x \in Nat
  BY <1>2
<1>4. i % 2^e = 0
  <2>1. CASE e = 0
    <3>1. 2^e = 1 /\ i % 1 = 0
      BY <2>1
    <3> QED
      BY <3>1
  <2>2. CASE e # 0
    <3>1. PICK j \in 0..(IntegerBits + FractionBits) : x % 2^j = 0 /\ x \div 2^j <= 2^MantissaBits
      BY <1>3 DEF VI!IsDouble
    <3>2. j \in Nat /\ 2^j \in Nat /\ 2^j > 0 /\ 2^MantissaBits \in Nat
      BY VarintFacts, PowerPositive
    <3> DEFINE m == x \div 2^j
    <3>3. x = 2^j * m /\ m \in Nat /\ m <= 2^MantissaBits
      <4>1. x = 2^j * m + (x % 2^j)
        BY <1>3, <3>2, Division
      <4>2. m \in Nat
        BY <1>3, <3>2, QuotientBelow
      <4> QED
        BY <3>1, <4>1, <4>2
    <3> HIDE DEF m, x
    <3>4. j >= e + FractionBits
      <4> SUFFICES ASSUME j < e + FractionBits PROVE FALSE
        BY <1>1, <3>2, VarintFacts
      <4> DEFINE h == (e - 1) + FractionBits
      <4>1. h \in Nat /\ j <= h /\ e - 1 \in Nat /\ MantissaBits + (e - 1) \in Nat
        BY <1>1, <2>2, <3>2, VarintFacts
      <4>2. 2^j <= 2^h /\ 2^h = 2^(e - 1) * 2^FractionBits
        BY <3>2, <4>1, PowersGrow, PowerSum, VarintFacts
      <4>3. 2^(MantissaBits + (e - 1)) = 2^MantissaBits * 2^(e - 1)
        BY <4>1, PowerSum, VarintFacts
      <4>4. 2^h \in Nat /\ 2^(e - 1) \in Nat
        BY <4>1, PowerPositive
      <4> DEFINE M == 2^MantissaBits
                 E == 2^(e - 1)
                 u == VI!Unit
      <4>5. i > M * E /\ M \in Nat /\ E \in Nat /\ u \in Nat /\ u > 0 /\ 2^h = E * u
        BY <1>1, <1>2, <2>2, <3>2, <4>2, <4>3, <4>4 DEF VI!Unit
      <4>6. x = i * u
        BY DEF x
      <4> HIDE DEF M, E, u, h
      <4>7. x > (M * E) * u
        <5>1. \A a, b, d \in Nat : a > b /\ d > 0 => a * d > b * d
          OBVIOUS
        <5>2. M * E \in Nat
          BY <4>5
        <5> QED
          BY <4>5, <4>6, <5>1, <5>2
      <4>8. 2^j * m <= 2^h * m /\ m * 2^h <= M * 2^h
        <5>1. \A a, b, d \in Nat : a <= b => a * d <= b * d
          OBVIOUS
        <5> QED
          BY <3>2, <3>3, <4>2, <4>4, <4>5, <5>1 DEF M
      <4>9. M * 2^h = (M * E) * u /\ 2^h * m = m * 2^h
        BY <3>3, <4>4, <4>5
      <4>10. 2^j * m \in Nat /\ 2^h * m \in Nat /\ M * 2^h \in Nat
        BY <3>2, <3>3, <4>4, <4>5
      <4> QED
        BY <3>3, <4>7, <4>8, <4>9, <4>10
    <3>5. PICK t \in Nat : i = 2^e * t
      <4> DEFINE d == j - (e + FractionBits)
      <4>1. d \in Nat /\ j = (e + FractionBits) + d /\ e + FractionBits \in Nat
        BY <1>1, <3>2, <3>4, VarintFacts
      <4>2. 2^j = (2^e * 2^FractionBits) * 2^d
        BY <1>1, <4>1, PowerSum, VarintFacts
      <4>3. 2^d \in Nat
        BY <4>1, PowerPositive
      <4> DEFINE u == VI!Unit
                 a == 2^e
                 b == 2^d
      <4>4. u \in Nat /\ u > 0 /\ a \in Nat /\ b \in Nat /\ i * u = ((a * u) * b) * m
        BY <1>2, <3>3, <4>2, <4>3 DEF VI!Unit, x
      <4> HIDE DEF u, a, b, d
      <4>5. ((a * u) * b) * m = (a * (b * m)) * u /\ b * m \in Nat /\ a * (b * m) \in Nat
        BY <3>3, <4>4
      <4>6. \A v, w, d2 \in Nat : d2 > 0 /\ v * d2 = w * d2 => v = w
        OBVIOUS
      <4>7. i = a * (b * m)
        BY <4>4, <4>5, <4>6
      <4> QED
        BY <4>5, <4>7 DEF a
    <3>6. i = 2^e * t + 0 /\ 0 \in 0..(2^e - 1) /\ t \in Int
      BY <1>2, <3>5
    <3>7. (2^e * t + 0) % 2^e = 0
      BY <1>2, <3>6, DivisionUnique
    <3> QED
      BY <3>6, <3>7
  <2> QED
    BY <2>1, <2>2
<1>5. i = 2^e * (i \div 2^e) /\ i \div 2^e \in Int
  BY <1>2, <1>4, Division
<1>6. ~ RoundsUp(i)
  BY <1>2, <1>4 DEF RoundsUp, e
<1>7. VI!ToDouble(i) = (i \div 2^e) * 2^e * VI!Unit
  BY <1>6, ToDoubleParts DEF e
<1> DEFINE q == i \div 2^e
<1> HIDE DEF q
<1>8. q * 2^e = i
  BY <1>2, <1>5 DEF q
<1> QED
  BY <1>7, <1>8 DEF q

(* encodeVarint of a double: refused if negative or a fraction, and else   *)
(* the bytes of the integer.                                               *)
LEMMA EncodesIntegers ==
  ASSUME NEW x \in Int, VI!IsDouble(x), x < 2^IntegerBits * VI!Unit,
         NEW out \in VI!encodeVarint(x)
  PROVE  /\ out = VI!Refused <=> x < 0 \/ x % VI!Unit # 0
         /\ out # VI!Refused =>
              /\ VI!read_varint(out) = [i |-> x \div VI!Unit, read |-> Len(out), done |-> TRUE]
              /\ Len(out) <= MAX_VARINT_SIZE
<1>1. CASE x < 0
  <2>1. out = VI!Refused
    BY <1>1 DEF VI!encodeVarint
  <2> QED
    BY <1>1, <2>1
<1>2. CASE ~ (x < 0)
  <2> DEFINE i == x \div VI!Unit
             u == VI!Unit
  <2>1. u \in Nat /\ u > 0 /\ 2^IntegerBits \in Nat
    BY VarintFacts, PowerPositive DEF VI!Unit
  <2>2. x \in Nat /\ x < u * 2^IntegerBits
    BY <1>2, <2>1
  <2>3. i \in Nat /\ i < 2^IntegerBits
    BY <2>1, <2>2, QuotientBelow
  <2>4. out = IF VI!ToDouble(i) # x THEN VI!Refused ELSE VI!write_varint(i)
    <3>1. VI!Casts(x) = {i}
      BY Zenon DEF VI!Casts
    <3>2. VI!encodeVarint(x)
            = {IF VI!ToDouble(j) # x THEN VI!Refused ELSE VI!write_varint(j) : j \in VI!Casts(x)}
      BY <1>2, Zenon DEF VI!encodeVarint
    <3> QED
      BY <3>1, <3>2
  <2>5. x = u * i + (x % u) /\ x % u \in 0..(u - 1)
    BY <2>1, Division
  <2> HIDE DEF i, u
  <2>6. VI!ToDouble(i) = x <=> x % u = 0
    <3>1. ASSUME VI!ToDouble(i) = x PROVE x % u = 0
      <4>1. PICK k \in Int : x = k * u
        BY <2>3, <3>1, ToDoubleIsWhole DEF u
      <4>2. x = u * k + 0 /\ 0 \in 0..(u - 1)
        BY <2>1, <4>1
      <4>3. (u * k + 0) % u = 0
        BY <2>1, <4>2, DivisionUnique
      <4> QED
        BY <4>2, <4>3
    <3>2. ASSUME x % u = 0 PROVE VI!ToDouble(i) = x
      <4>1. x = i * u
        BY <2>1, <2>3, <2>5, <3>2
      <4> QED
        BY <2>3, <4>1, ToDoubleExact DEF u
    <3> QED
      BY <3>1, <3>2
  <2>7. /\ VI!write_varint(i) # VI!Refused
        /\ VI!read_varint(VI!write_varint(i))
             = [i |-> i, read |-> Len(VI!write_varint(i)), done |-> TRUE]
        /\ Len(VI!write_varint(i)) <= MAX_VARINT_SIZE
    BY <2>3, VarintInverts
  <2> QED
    BY <1>2, <2>4, <2>6, <2>7 DEF i, u
<1> QED
  BY <1>1, <1>2

(* encodeVarint, for integers, mantissas and groups of any width: fractions*)
(* and negative numbers are refused, safe integers are encoded, and the    *)
(* bytes of what is encoded are read back as it, all of them, and fit the  *)
(* buffer.                                                                 *)
THEOREM VarintsRoundTrip == Spec => []VarintRoundTrip
<1> USE DEF Called, In, Out, Idle
<1>1. Init => VarintRoundTrip
  BY DEF Init, VarintRoundTrip
<1>2. ASSUME VarintRoundTrip, [Next]_vars PROVE VarintRoundTrip'
  <2>1. CASE job' = job
    BY <1>2, <2>1 DEF VarintRoundTrip
  <2>2. CASE job' = Idle \/ job' = << "field", << >>, << >> >>
    <3>1. job'[1] # "varint"
      BY <2>2
    <3> QED
      BY <3>1, Zenon DEF VarintRoundTrip
  <2>3. CASE RunVarint
    <3>0. PICK x \in Numbers : \E out \in VI!encodeVarint(x) : job' = << "varint", << x >>, out >>
      BY <2>3 DEF RunVarint, Run
    <3>1. PICK out \in VI!encodeVarint(x) : job' = << "varint", << x >>, out >>
      BY <3>0
    <3>2. x \in Int /\ VI!IsDouble(x)
      BY ArgumentsAssumption
    <3>3. x < 2^IntegerBits * VI!Unit =>
            /\ out = VI!Refused <=> x < 0 \/ x % VI!Unit # 0
            /\ out # VI!Refused =>
                 /\ VI!read_varint(out)
                      = [i |-> x \div VI!Unit, read |-> Len(out), done |-> TRUE]
                 /\ Len(out) <= MAX_VARINT_SIZE
      BY <3>2, EncodesIntegers, Zenon
    <3>4. job'[2][1] = x /\ job'[3] = out
      BY <3>1
    <3>5. IsSafe(x) => ~(x < 0 \/ x % VI!Unit # 0)
      BY <3>2 DEF IsSafe
    <3> QED
      BY <3>3, <3>4, <3>5, Zenon DEF VarintRoundTrip
  <2>4. CASE RunScalar \/ RunRecoding \/ RunPower \/ RunCodec \/ RunSecretbox \/ RunHash
    <3>1. job'[1] # "varint"
      <4>1. job'[1] \in {"sc_reduce", "sc_reduce32", "sc_check", "sc_add", "sc_sub", "sc_mulsub",
                         "recoding", "hextobin", "hextobinStrict", "bintohex", "bin2base64",
                         "secretboxOpen", "round", "blocks",
                         "sha1 padding", "double round", "cn_fast_hash", "sha1", "chacha"}
            \/ job' = << "power", << >>, << PC!fe_invert, PC!fe_pow22523 >> >>
        BY <2>4, CallNames, Zenon
      <4>2. \A call \in {"sc_reduce", "sc_reduce32", "sc_check", "sc_add", "sc_sub",
                         "sc_mulsub", "recoding", "hextobin", "hextobinStrict", "bintohex",
                         "bin2base64", "secretboxOpen", "round", "blocks", "sha1 padding",
                         "double round", "cn_fast_hash", "sha1", "chacha", "power"} :
               call # "varint"
        OBVIOUS
      <4>3. \A x, y, z : << x, y, z >>[1] = x
        OBVIOUS
      <4> QED
        BY <4>1, <4>2, <4>3
    <3> QED
      BY <3>1, Zenon DEF VarintRoundTrip
  <2> QED
    BY <1>2, <2>1, <2>2, <2>3, <2>4, CallStep
<1> QED
  BY <1>1, <1>2, PTL DEF Spec
-----------------------------------------------------------------------------
Vectors16 == [1..(2 * Bytes) -> Int]

(* Positions, intervals and powers of two, as the recodings use them.      *)
LEMMA RecodingFacts ==
  /\ Bytes \in Nat /\ Bytes > 0 /\ SR!Bits = 8 * Bytes /\ SR!Bits \in Nat
  /\ SR!Positions = 0..(8 * Bytes - 1)
  /\ \A len \in Nat : IsFiniteSet(1..len)
  /\ \A k \in Nat : 2^k \in Nat /\ 2^k > 0 /\ 2^(k + 1) = 2 * 2^k
<1>1. Bytes \in Nat /\ Bytes > 0
  BY KernelsAssumption DEF SR!BytesAssumption
<1>2. \A len \in Nat : IsFiniteSet(1..len)
  BY FS_Interval
<1>3. \A k \in Nat : 2^k \in Nat /\ 2^k > 0 /\ 2^(k + 1) = 2^k + 2^k
  BY PowerPositive, PowerSuccessor
<1> QED
  BY <1>1, <1>2, <1>3 DEF SR!Bits, SR!Positions

(* Max picks the largest element. *)
LEMMA MaxIsLargest ==
  ASSUME NEW len \in Nat, NEW last, \A T \in SUBSET (1..len) : last[T] = SR!Max(T)
  PROVE  Largest(last, len)
<1>1. ASSUME NEW T \in SUBSET (1..len), T # {}
      PROVE  last[T] \in T /\ \A x \in T : x <= last[T]
  <2>1. \E x \in T : \A y \in T : x >= y
    BY <1>1, LargestIsMax
  <2>2. SR!Max(T) \in T /\ \A y \in T : SR!Max(T) >= y
    BY <2>1 DEF SR!Max
  <2>3. T \subseteq Int
    OBVIOUS
  <2> QED
    BY <2>2, <2>3
<1> QED
  BY <1>1 DEF Largest

(* What a turn of the carry loop of ge_scalarmult_base writes: digits i    *)
(* and i + 1, and no other.                                                *)
LEMMA NibbleCarryStays ==
  ASSUME NEW e \in Vectors16, NEW i \in 1..(2 * Bytes - 1)
  PROVE  LET carry == (e[i] + 8) \div 16
         IN  /\ carry \in Int
             /\ SR!NibbleCarry(e, i) \in Vectors16
             /\ SR!NibbleCarry(e, i)[i] = e[i] - carry * 16
             /\ SR!NibbleCarry(e, i)[i + 1] = e[i + 1] + carry
             /\ \A k \in 1..(2 * Bytes) : k # i /\ k # i + 1 => SR!NibbleCarry(e, i)[k] = e[k]
<1> DEFINE carry == (e[i] + 8) \div 16
           mid == [e EXCEPT ![i] = e[i] - carry * 16]
           res == [mid EXCEPT ![i + 1] = mid[i + 1] + carry]
<1>1. i \in 1..(2 * Bytes) /\ i + 1 \in 1..(2 * Bytes) /\ i \in Int /\ i + 1 # i
  BY RecodingFacts
<1>2. e[i] \in Int /\ e[i + 1] \in Int /\ carry \in Int
  BY <1>1 DEF Vectors16
<1>3. SR!NibbleCarry(e, i) = res
  BY DEF SR!NibbleCarry
<1> HIDE DEF carry
<1>4. mid \in Vectors16 /\ mid[i] = e[i] - carry * 16 /\ mid[i + 1] = e[i + 1]
      /\ \A k \in 1..(2 * Bytes) : k # i => mid[k] = e[k]
  BY <1>1, <1>2 DEF Vectors16
<1> HIDE DEF mid
<1>5. res \in Vectors16 /\ res[i] = mid[i] /\ res[i + 1] = e[i + 1] + carry
      /\ \A k \in 1..(2 * Bytes) : k # i + 1 => res[k] = mid[k]
  BY <1>1, <1>2, <1>4 DEF Vectors16
<1> HIDE DEF res
<1> QED
  BY <1>2, <1>3, <1>4, <1>5 DEF carry

(* The carry loop is a run of its turns.                                   *)
LEMMA NibbleCarriesRun ==
  ASSUME NEW base \in Vectors16, NEW len \in Nat, len = 2 * Bytes - 1
  PROVE  \E run \in [0..len -> Vectors16] :
           /\ run[0] = base
           /\ run[len] = SR!FoldLeft(SR!NibbleCarry, base, [k \in 1..(2 * Bytes - 1) |-> k])
           /\ \A k \in 1..len : run[k] = SR!NibbleCarry(run[k - 1], k)
<1> DEFINE last == [T \in SUBSET (1..len) |-> SR!Max(T)]
           step == [vk \in Vectors16 \X (1..len) |-> SR!NibbleCarry(vk[1], vk[2])]
           order == [k \in 1..(2 * Bytes - 1) |-> k]
           Folds(it) == it = [T \in SUBSET DOMAIN order |->
                          IF T = {} THEN base
                          ELSE SR!NibbleCarry(it[T \ {SR!Max(T)}], order[SR!Max(T)])]
<1>1. DOMAIN order = 1..len /\ \A k \in 1..len : order[k] = k
  OBVIOUS
<1>2. \A v \in Vectors16, k \in 1..len :
        step[<< v, k >>] = SR!NibbleCarry(v, k) /\ step[<< v, k >>] \in Vectors16
  BY NibbleCarryStays
<1>3. \A T \in SUBSET (1..len) : last[T] = SR!Max(T)
  OBVIOUS
<1> HIDE DEF step, last, order
<1>4. Largest(last, len) /\ Stays(step, Vectors16, len)
  BY <1>2, <1>3, MaxIsLargest DEF Stays
<1>5. \A T \in SUBSET (1..len) : T # {} => last[T] \in 1..len /\ last[T] = SR!Max(T)
  BY <1>3, <1>4 DEF Largest
<1>6. PICK it \in [SUBSET (1..len) -> Vectors16] : Solves(it, 1..len, last, step, base)
  BY <1>4, FoldExists, Zenon
<1>7. Folds(it)
  <2>1. \A T \in SUBSET (1..len) : T # {} =>
          it[T] = SR!NibbleCarry(it[T \ {SR!Max(T)}], order[SR!Max(T)])
    <3> TAKE T \in SUBSET (1..len)
    <3> HAVE T # {}
    <3>1. it[T] = step[<< it[T \ {last[T]}], last[T] >>] /\ it[T \ {last[T]}] \in Vectors16
      BY <1>6 DEF Solves
    <3>2. last[T] \in 1..len /\ last[T] = SR!Max(T) /\ order[last[T]] = last[T]
      BY <1>1, <1>5
    <3>3. it[T] = SR!NibbleCarry(it[T \ {last[T]}], last[T])
      BY <1>2, <3>1, <3>2
    <3> QED
      BY <3>2, <3>3
  <2>2. it[{}] = base
    BY <1>6 DEF Solves
  <2>3. it = [T \in SUBSET (1..len) |-> it[T]]
    OBVIOUS
  <2>4. [T \in SUBSET (1..len) |-> it[T]]
          = [T \in SUBSET (1..len) |->
               IF T = {} THEN base ELSE SR!NibbleCarry(it[T \ {SR!Max(T)}], order[SR!Max(T)])]
    BY <2>1, <2>2
  <2> QED
    BY <1>1, <2>3, <2>4, Zenon
<1>8. PICK iter : Folds(iter) /\ SR!FoldLeft(SR!NibbleCarry, base, order) = iter[DOMAIN order]
  <2>1. SR!FoldLeft(SR!NibbleCarry, base, order) = (CHOOSE i : Folds(i))[DOMAIN order]
    BY Zenon DEF SR!FoldLeft, SR!MapThenFoldSet
  <2> HIDE DEF Folds
  <2> QED
    BY <1>7, <2>1, Zenon
<1>9. Follows(iter, len, Vectors16, last, step, base)
  <2>1. \A T \in SUBSET (1..len) : T # {} =>
          iter[T] = SR!NibbleCarry(iter[T \ {last[T]}], last[T])
    <3> TAKE T \in SUBSET (1..len)
    <3> HAVE T # {}
    <3>1. last[T] \in 1..len /\ last[T] = SR!Max(T) /\ order[last[T]] = last[T]
      BY <1>1, <1>5
    <3>2. iter[T] = SR!NibbleCarry(iter[T \ {SR!Max(T)}], order[SR!Max(T)])
      BY <1>1, <1>8
    <3> QED
      BY <3>1, <3>2
  <2>2. iter[{}] = base
    BY <1>8
  <2> QED
    BY <1>2, <1>5, <2>1, <2>2 DEF Follows
<1>10. PICK run : IsRun(run, len, Vectors16, step, base, iter[1..len])
  BY <1>4, <1>9, FoldRuns, Zenon
<1>11. \A k \in 1..len : run[k] = SR!NibbleCarry(run[k - 1], k)
  <2> TAKE k \in 1..len
  <2>1. run[k - 1] \in Vectors16
    BY <1>10 DEF IsRun
  <2> QED
    BY <1>2, <1>10, <2>1 DEF IsRun
<1>12. iter[1..len] = SR!FoldLeft(SR!NibbleCarry, base, [k \in 1..(2 * Bytes - 1) |-> k])
  BY <1>1, <1>8, Zenon DEF order
<1>13. run \in [0..len -> Vectors16] /\ run[0] = base /\ run[len] = iter[1..len]
  BY <1>10 DEF IsRun
<1> QED
  BY <1>11, <1>12, <1>13, Zenon

(* Scalars are strings of Bytes bytes; those in range are below half. *)
Scalar == 0..(2^(8 * Bytes) - 1)

(* A scalar is below 2^(8 * Bytes).                                        *)
LEMMA ScalarIsOwnRemainder ==
  ASSUME NEW a \in Scalar
  PROVE  a \in Nat /\ a % 2^(8 * Bytes) = a
<1>1. 2^(8 * Bytes) \in Nat /\ 2^(8 * Bytes) > 0
  BY RecodingFacts
<1> HIDE DEF Scalar
<1>2. a \in Nat /\ a < 2^(8 * Bytes)
  BY <1>1 DEF Scalar
<1> QED
  BY <1>1, <1>2, QuotientBelow

(* The byte on top, and the scalar. *)
LEMMA InRangeIsHalf ==
  ASSUME NEW a \in Scalar, SR!InRange(a)
  PROVE  a < 2^(8 * Bytes - 1)
<1> DEFINE low == 8 * (Bytes - 1)
           P == 2^low
           top == a \div P
<1>1. low \in Nat /\ low + 8 = 8 * Bytes /\ low + 7 = 8 * Bytes - 1
  BY RecodingFacts
<1>2. P \in Nat /\ P > 0 /\ 2^(8 * Bytes) = P * 256 /\ 2^(8 * Bytes - 1) = P * 128
  <2>1. 2^(low + 8) = P * 2^8 /\ 2^(low + 7) = P * 2^7
    BY <1>1, PowerSum
  <2> QED
    BY <1>1, <2>1, PowerPositive, SmallPowers
<1>3. a \in Nat /\ a < P * 256
  BY <1>2 DEF Scalar
<1>4. top % 256 <= 127
  BY DEF SR!InRange, SR!Byte
<1> HIDE DEF P
<1>5. top \in Nat /\ top < 256 /\ a = P * top + (a % P) /\ a % P \in 0..(P - 1)
  BY <1>2, <1>3, QuotientBelow, Division
<1> HIDE DEF top
<1>6. top <= 127
  BY <1>4, <1>5
<1>7. P * top <= P * 127
  BY <1>2, <1>5, <1>6
<1> QED
  BY <1>2, <1>5, <1>7

(* The sum of the instance is that of the library. *)
LEMMA SumOfInstance ==
  \A f, S : SR!SumFunctionOnSet(f, S) = SumFunctionOnSet(f, S)
BY Zenon DEF SR!SumFunctionOnSet, SumFunctionOnSet, SR!FoldFunctionOnSet, FoldFunctionOnSet,
      SR!MapThenFoldSet, MapThenFoldSet

Weighed16(e, len) == [k \in 1..len |-> e[k] * 2^(4 * (k - 1))]

(* The value of len digits is the sum of the weighed digits.               *)
LEMMA RadixIsSum ==
  ASSUME NEW len \in Nat, NEW e \in [1..len -> Int]
  PROVE  /\ SR!RadixValue(e) = SumFunctionOnSet(Weighed16(e, len), 1..len)
         /\ \A k \in 1..len : Weighed16(e, len)[k] \in Int
<1>1. DOMAIN e = 1..len /\ DOMAIN Weighed16(e, len) = 1..len
  BY DEF Weighed16
<1>2. SR!RadixValue(e) = SR!SumFunction(Weighed16(e, len))
  BY <1>1, Zenon DEF SR!RadixValue, Weighed16
<1>3. SR!RadixValue(e) = SR!SumFunctionOnSet(Weighed16(e, len), 1..len)
  BY <1>1, <1>2, Zenon DEF SR!SumFunction
<1>4. \A k \in 1..len : Weighed16(e, len)[k] \in Int
  <2> TAKE k \in 1..len
  <2>1. e[k] \in Int /\ 4 * (k - 1) \in Nat
    OBVIOUS
  <2>2. 2^(4 * (k - 1)) \in Nat
    BY <2>1, RecodingFacts
  <2> QED
    BY <2>1, <2>2 DEF Weighed16
<1> QED
  BY <1>3, <1>4, SumOfInstance, Zenon

(* It is an integer. *)
LEMMA RadixIsInteger ==
  ASSUME NEW len \in Nat, NEW e \in [1..len -> Int]
  PROVE  SR!RadixValue(e) \in Int
<1>1. IsFiniteSet(1..len)
  BY RecodingFacts
<1> QED
  BY <1>1, RadixIsSum, SumIsInteger

(* The nibbles of a scalar. *)
LEMMA NibblesWeigh ==
  ASSUME NEW a \in Scalar
  PROVE  /\ SR!Nibbles(a) \in Vectors16
         /\ \A k \in 1..(2 * Bytes) : SR!Nibbles(a)[k] \in 0..15
         /\ SR!RadixValue(SR!Nibbles(a)) = a
         /\ SR!InRange(a) => SR!Nibbles(a)[2 * Bytes] <= 7
<1> DEFINE top == 2 * Bytes + 1
           c == [k \in 1..top |-> a % 2^(4 * (k - 1))]
           f == Weighed16(SR!Nibbles(a), 2 * Bytes)
<1>0. a \in Nat /\ a % 2^(8 * Bytes) = a /\ top \in Nat /\ 1 <= top /\ top - 1 = 2 * Bytes
  BY ScalarIsOwnRemainder, RecodingFacts
<1>1. ASSUME NEW k \in 1..(2 * Bytes)
      PROVE  /\ SR!Nibbles(a)[k] \in 0..15 /\ f[k] = c[k + 1] - c[k]
             /\ c[k] \in Int /\ c[k + 1] \in Int
  <2> DEFINE j == 4 * (k - 1)
             digit == (a \div 2^j) % 16
  <2>1. j \in Nat /\ k \in 1..top /\ k + 1 \in 1..top /\ 4 * ((k + 1) - 1) = j + 4
    BY RecodingFacts
  <2>2. /\ digit * 2^j = (a % 2^(j + 4)) - (a % 2^j) /\ digit \in 0..15
        /\ a % 2^j \in Nat /\ a % 2^(j + 4) \in Nat
    <3>1. 4 \in Nat /\ 2^4 = 16 /\ 16 - 1 = 15
      BY SmallPowers
    <3> HIDE DEF j
    <3>2. ((a \div 2^j) % 2^4) * 2^j = (a % 2^(j + 4)) - (a % 2^j)
      BY <1>0, <2>1, <3>1, DigitIsGain
    <3>3. (a \div 2^j) % 2^4 \in 0..(2^4 - 1) /\ a % 2^j \in Nat /\ a % 2^(j + 4) \in Nat
      BY <1>0, <2>1, <3>1, DigitIsGain
    <3> QED
      BY <3>1, <3>2, <3>3
  <2>3. SR!Nibbles(a)[k] = digit
    BY DEF SR!Nibbles
  <2>4. f[k] = digit * 2^j
    BY <2>3 DEF Weighed16
  <2>5. c[k] = a % 2^j /\ c[k + 1] = a % 2^(j + 4)
    BY <2>1
  <2> HIDE DEF digit, j, f, c
  <2> QED
    BY <2>2, <2>3, <2>4, <2>5
<1>2. SR!Nibbles(a) \in Vectors16
  <2>1. SR!Nibbles(a) = [k \in 1..(2 * Bytes) |-> SR!Nibbles(a)[k]]
    BY DEF SR!Nibbles
  <2>2. \A k \in 1..(2 * Bytes) : SR!Nibbles(a)[k] \in Int
    <3> HIDE DEF f, c
    <3>1. \A k \in 1..(2 * Bytes) : SR!Nibbles(a)[k] \in 0..15
      BY <1>1
    <3> QED
      BY <3>1
  <2> QED
    BY <2>1, <2>2 DEF Vectors16
<1>3. c[top] = a /\ c[1] = 0
  <2>1. 4 * (top - 1) = 8 * Bytes /\ 4 * (1 - 1) = 0 /\ 1 \in 1..top /\ top \in 1..top
    BY RecodingFacts
  <2>2. c[top] = a % 2^(8 * Bytes) /\ c[1] = a % 2^0
    BY <2>1
  <2>3. 2^0 = 1 /\ \A x \in Nat : x % 1 = 0
    BY SmallPowers
  <2> HIDE DEF c
  <2> QED
    BY <1>0, <2>2, <2>3
<1>4. \A k \in 1..top : c[k] \in Int
  <2> TAKE k \in 1..top
  <2>1. CASE k = top
    BY <1>0, <1>3, <2>1
  <2>2. CASE k # top
    <3>1. k \in 1..(2 * Bytes)
      BY <1>0, <2>2
    <3> QED
      BY <1>1, <3>1
  <2> QED
    BY <2>1, <2>2
<1>5. \A k \in 1..(top - 1) : f[k] = c[k + 1] - c[k]
  BY <1>0, <1>1
<1> HIDE DEF f, c
<1>6. SumFunctionOnSet(f, 1..(top - 1)) = c[top] - c[1]
  BY <1>0, <1>4, <1>5, SumTelescopes, ZenonT(60)
<1>7. SR!RadixValue(SR!Nibbles(a)) = a
  <2>1. SR!RadixValue(SR!Nibbles(a)) = SumFunctionOnSet(f, 1..(2 * Bytes))
    BY <1>2, RecodingFacts, RadixIsSum DEF f, Vectors16
  <2> HIDE DEF top
  <2> QED
    BY <1>0, <1>3, <1>6, <2>1
<1>8. SR!InRange(a) => SR!Nibbles(a)[2 * Bytes] <= 7
  <2> SUFFICES ASSUME SR!InRange(a) PROVE SR!Nibbles(a)[2 * Bytes] <= 7
    OBVIOUS
  <2> DEFINE j == 4 * (2 * Bytes - 1)
             P == 2^j
  <2>1. j \in Nat /\ j + 3 = 8 * Bytes - 1 /\ 2 * Bytes \in 1..(2 * Bytes)
    BY RecodingFacts
  <2>2. P \in Nat /\ P > 0 /\ 2^(8 * Bytes - 1) = P * 8
    <3>1. 2^(j + 3) = P * 2^3
      BY <2>1, PowerSum
    <3> QED
      BY <2>1, <3>1, PowerPositive, SmallPowers
  <2>3. SR!Nibbles(a)[2 * Bytes] = (a \div P) % 16
    BY <2>1 DEF SR!Nibbles
  <2> HIDE DEF P, j
  <2>4. a < P * 8
    BY <2>2, InRangeIsHalf
  <2>5. a \div P \in Nat /\ a \div P < 8
    BY <1>0, <2>2, <2>4, QuotientBelow
  <2> QED
    BY <2>3, <2>5
<1> QED
  BY <1>1, <1>2, <1>7, <1>8

(* A carry moves weight from one nibble to the next. *)
LEMMA NibbleCarryKeepsValue ==
  ASSUME NEW e \in Vectors16, NEW i \in 1..(2 * Bytes - 1)
  PROVE  SR!RadixValue(SR!NibbleCarry(e, i)) = SR!RadixValue(e)
<1> DEFINE carry == (e[i] + 8) \div 16
           after == SR!NibbleCarry(e, i)
           P == 2^(4 * (i - 1))
           f == Weighed16(e, 2 * Bytes)
           g == [f EXCEPT ![i] = f[i] - carry * 16 * P]
           h == Weighed16(after, 2 * Bytes)
           S == 1..(2 * Bytes)
<1>1. i \in S /\ i + 1 \in S /\ i # i + 1 /\ IsFiniteSet(S)
  BY RecodingFacts
<1>2. P \in Nat /\ 2^(4 * ((i + 1) - 1)) = 16 * P
  <2>1. 4 * (i - 1) \in Nat /\ 4 * ((i + 1) - 1) = 4 * (i - 1) + 4 /\ 4 \in Nat
    OBVIOUS
  <2>2. 2^(4 * (i - 1) + 4) = P * 2^4 /\ P \in Nat
    BY <2>1, PowerSum, PowerPositive
  <2> QED
    BY <2>1, <2>2, SmallPowers
<1>3. /\ carry \in Int /\ after \in Vectors16
      /\ after[i] = e[i] - carry * 16 /\ after[i + 1] = e[i + 1] + carry
      /\ \A k \in S : k # i /\ k # i + 1 => after[k] = e[k]
  BY NibbleCarryStays
<1>3a. 2 * Bytes \in Nat /\ e \in [1..(2 * Bytes) -> Int] /\ after \in [1..(2 * Bytes) -> Int]
  <2> HIDE DEF after, carry, P, f, g, h
  <2>1. after \in Vectors16
    BY <1>3
  <2> QED
    BY <2>1, RecodingFacts DEF Vectors16
<1>4. \A k \in S : e[k] \in Int /\ f[k] \in Int /\ h[k] \in Int
  <2> HIDE DEF after
  <2>1. (\A k \in S : f[k] \in Int) /\ (\A k \in S : h[k] \in Int)
    BY <1>3a, RadixIsSum
  <2> QED
    BY <1>3a, <2>1
<1>5. f[i] = e[i] * P /\ f[i + 1] = e[i + 1] * (16 * P)
  BY <1>1, <1>2 DEF Weighed16
<1>6. h[i] = (e[i] - carry * 16) * P /\ h[i + 1] = (e[i + 1] + carry) * (16 * P)
  BY <1>1, <1>2, <1>3 DEF Weighed16
<1>7. \A k \in S : k # i /\ k # i + 1 => h[k] = f[k]
  BY <1>3 DEF Weighed16
<1>8. SR!RadixValue(e) = SumFunctionOnSet(f, S) /\ SR!RadixValue(after) = SumFunctionOnSet(h, S)
  <2> HIDE DEF after
  <2> QED
    BY <1>3a, RadixIsSum
<1>9. DOMAIN f = S
  BY DEF Weighed16
<1> DEFINE d == carry * 16 * P
<1>10. d \in Int /\ -d \in Int
  BY <1>2, <1>3
<1> HIDE DEF P, f, h, S, carry, after
<1>11. /\ h[i] = f[i] + (-d) /\ h[i + 1] = f[i + 1] + d
  BY <1>1, <1>2, <1>3, <1>4, <1>5, <1>6
<1>12. \A k \in S : /\ k # i => g[k] = f[k]
                    /\ k = i => g[k] = f[k] + (-d)
                    /\ g[k] \in Int
  BY <1>1, <1>4, <1>9, <1>10
<1> HIDE DEF g, d
<1>13. SumFunctionOnSet(g, S) = SumFunctionOnSet(f, S) + (-d)
  <2>1. (\A k \in S \ {i} : g[k] = f[k]) /\ g[i] = f[i] + (-d)
    BY <1>1, <1>12
  <2> QED
    BY <1>1, <1>4, <1>10, <2>1, SumUpdated, ZenonT(60)
<1>14. SumFunctionOnSet(h, S) = SumFunctionOnSet(g, S) + d
  <2>1. \A k \in S \ {i + 1} : h[k] = g[k]
    BY <1>7, <1>11, <1>12
  <2>2. h[i + 1] = g[i + 1] + d
    BY <1>1, <1>11, <1>12
  <2> QED
    <3>1. \A k \in S : g[k] \in Int
      BY <1>12
    <3> QED
      BY <1>1, <1>10, <3>1, <2>1, <2>2, SumUpdated, ZenonT(60)
<1>15. SumFunctionOnSet(f, S) \in Int
  BY <1>1, <1>4, SumIsInteger
<1> QED
  BY <1>8, <1>10, <1>13, <1>14, <1>15 DEF after

(* After i carries: digits in the tables behind, then a nibble that may *)
(* have got a carry, then nibbles. *)
Carried(e, i, nibbles) ==
  \A k \in 1..(2 * Bytes) :
    IF k <= i THEN -8 <= e[k] /\ e[k] <= 7
    ELSE IF k = i + 1 THEN e[k] = nibbles[k] \/ e[k] = nibbles[k] + 1
    ELSE e[k] = nibbles[k]

(* A turn of the carry loop leaves a digit in -8..7 and adds at most 1 to  *)
(* the nibble above it.                                                    *)
LEMMA CarriedStep ==
  ASSUME NEW nibbles \in Vectors16, \A k \in 1..(2 * Bytes) : nibbles[k] \in 0..15,
         NEW i \in 0..(2 * Bytes - 2), NEW e \in Vectors16, Carried(e, i, nibbles)
  PROVE  Carried(SR!NibbleCarry(e, i + 1), i + 1, nibbles)
<1> DEFINE S == 1..(2 * Bytes)
           j == i + 1
           g == SR!NibbleCarry(e, j)
           carry == (e[j] + 8) \div 16
<1>1. /\ j \in 1..(2 * Bytes - 1) /\ j \in S /\ j + 1 \in S /\ j \in Int /\ i = j - 1
  BY RecodingFacts
<1>2. /\ carry \in Int
      /\ g[j] = e[j] - carry * 16 /\ g[j + 1] = e[j + 1] + carry
      /\ \A k \in S : k # j /\ k # j + 1 => g[k] = e[k]
  BY <1>1, NibbleCarryStays
<1>3. nibbles[j] \in 0..15 /\ nibbles[j + 1] \in 0..15
  BY <1>1
<1>4. (e[j] = nibbles[j] \/ e[j] = nibbles[j] + 1) /\ e[j + 1] = nibbles[j + 1]
  BY <1>1 DEF Carried
<1>5. carry \in {0, 1} /\ -8 <= g[j] /\ g[j] <= 7
  <2>1. e[j] \in 0..16
    BY <1>3, <1>4
  <2>2. \A x \in 0..16 : /\ (x + 8) \div 16 \in {0, 1}
                         /\ -8 <= x - ((x + 8) \div 16) * 16 /\ x - ((x + 8) \div 16) * 16 <= 7
    OBVIOUS
  <2>3. carry \in {0, 1} /\ -8 <= e[j] - carry * 16 /\ e[j] - carry * 16 <= 7
    BY <2>1, <2>2
  <2> HIDE DEF carry, g
  <2> QED
    BY <1>2, <2>3
<1>6. g[j + 1] = nibbles[j + 1] \/ g[j + 1] = nibbles[j + 1] + 1
  BY <1>2, <1>3, <1>4, <1>5
<1> HIDE DEF g, carry
<1>7. ASSUME NEW k \in S
      PROVE  IF k <= j THEN -8 <= g[k] /\ g[k] <= 7
             ELSE IF k = j + 1 THEN g[k] = nibbles[k] \/ g[k] = nibbles[k] + 1
             ELSE g[k] = nibbles[k]
  <2>1. CASE k < j
    <3>1. k <= i /\ k # j /\ k # j + 1 /\ k <= j
      BY <1>1, <2>1
    <3>2. -8 <= e[k] /\ e[k] <= 7
      BY <3>1 DEF Carried
    <3> QED
      BY <1>2, <3>1, <3>2
  <2>2. CASE k = j
    BY <1>1, <1>5, <2>2
  <2>3. CASE k = j + 1
    BY <1>1, <1>6, <2>3
  <2>4. CASE k > j + 1
    <3>1. ~ (k <= i) /\ k # i + 1 /\ ~ (k <= j) /\ k # j /\ k # j + 1
      BY <1>1, <2>4
    <3>2. e[k] = nibbles[k]
      BY <3>1 DEF Carried
    <3> QED
      BY <1>2, <3>1, <3>2
  <2> QED
    BY <1>1, <2>1, <2>2, <2>3, <2>4
<1> QED
  BY <1>7 DEF Carried, g

(* The recoding of ge_scalarmult_base. *)
LEMMA Radix16BaseExact ==
  ASSUME NEW a \in Scalar, SR!InRange(a)
  PROVE  /\ SR!RadixValue(SR!Radix16Base(a)) = a
         /\ \A k \in DOMAIN SR!Radix16Base(a) : SR!Radix16Base(a)[k] \in -8..8
<1> DEFINE nib == SR!Nibbles(a)
           S == 1..(2 * Bytes)
           len == 2 * Bytes - 1
<1>1. /\ nib \in Vectors16 /\ SR!RadixValue(nib) = a /\ nib[2 * Bytes] <= 7
      /\ \A k \in S : nib[k] \in 0..15
  BY NibblesWeigh
<1>2. len \in Nat /\ len + 1 = 2 * Bytes
  BY RecodingFacts
<1>3. PICK run \in [0..len -> Vectors16] :
           /\ run[0] = nib
           /\ run[len] = SR!FoldLeft(SR!NibbleCarry, nib, [k \in 1..(2 * Bytes - 1) |-> k])
           /\ \A k \in 1..len : run[k] = SR!NibbleCarry(run[k - 1], k)
  BY <1>1, <1>2, NibbleCarriesRun, Zenon
<1>4. SR!Radix16Base(a) = run[len]
  BY <1>3, Zenon DEF SR!Radix16Base, nib
<1> HIDE DEF nib
<1> DEFINE Good(i) == i <= len => SR!RadixValue(run[i]) = a /\ Carried(run[i], i, nib)
           G == {i \in Nat : Good(i)}
<1>5. 0 \in G
  <2>1. Carried(nib, 0, nib)
    BY DEF Carried
  <2>2. Good(0)
    BY <1>1, <1>3, <2>1
  <2> HIDE DEF Good
  <2> QED
    BY <2>2
<1>6. ASSUME NEW i \in Nat, i \in G PROVE i + 1 \in G
  <2>1. CASE i + 1 <= len
    <3>1. /\ i + 1 \in 1..len /\ (i + 1) - 1 = i /\ i \in 0..len
          /\ i + 1 \in 1..(2 * Bytes - 1) /\ i \in 0..(2 * Bytes - 2) /\ i <= len
      BY <1>2, <2>1
    <3>2. run[i] \in Vectors16 /\ run[i + 1] = SR!NibbleCarry(run[i], i + 1)
      BY <1>3, <3>1
    <3>3. SR!RadixValue(run[i]) = a /\ Carried(run[i], i, nib)
      BY <1>6, <3>1
    <3>4. SR!RadixValue(run[i + 1]) = a
      BY <3>1, <3>2, <3>3, NibbleCarryKeepsValue
    <3>5. Carried(run[i + 1], i + 1, nib)
      BY <1>1, <3>1, <3>2, <3>3, CarriedStep
    <3>6. Good(i + 1)
      BY <3>4, <3>5
    <3> HIDE DEF Good
    <3> QED
      BY <3>6
  <2>2. CASE ~ (i + 1 <= len)
    BY <2>2
  <2> QED
    BY <2>1, <2>2
<1>7. Nat \subseteq G
  <2> HIDE DEF G
  <2> QED
    BY <1>5, <1>6, NaturalInduction
<1>8. Good(len)
  BY <1>2, <1>7
<1>9. SR!RadixValue(run[len]) = a /\ Carried(run[len], len, nib)
  BY <1>2, <1>8
<1>10. run[len] \in Vectors16
  BY <1>2, <1>3
<1>11. DOMAIN run[len] = S
  BY <1>10 DEF Vectors16
<1>12. \A k \in S : run[len][k] \in -8..8
  <2> TAKE k \in S
  <2>0. run[len][k] \in Int /\ nib[k] \in 0..15
    BY <1>1, <1>10 DEF Vectors16
  <2>a. \A x \in Int : -8 <= x /\ x <= 8 => x \in -8..8
    OBVIOUS
  <2>1. k <= len \/ k = 2 * Bytes
    BY <1>2
  <2>2. CASE k <= len
    <3>1. -8 <= run[len][k] /\ run[len][k] <= 7
      BY <1>9, <2>2 DEF Carried
    <3> QED
      BY <2>0, <2>a, <3>1, SMTT(60)
  <2>3. CASE k = 2 * Bytes
    <3>1. nib[k] <= 7 /\ ~ (k <= len) /\ k = len + 1
      BY <1>1, <1>2, <2>3
    <3>2. run[len][k] = nib[k] \/ run[len][k] = nib[k] + 1
      BY <1>9, <3>1 DEF Carried
    <3>3. -8 <= run[len][k] /\ run[len][k] <= 8
      BY <2>0, <3>1, <3>2, SMTT(60)
    <3> QED
      BY <2>0, <2>a, <3>3
  <2> QED
    BY <2>1, <2>2, <2>3
<1> QED
  BY <1>4, <1>9, <1>11, <1>12

(* Two more digits. *)
Appended(g, e, len, x, y) ==
  /\ g \in [1..(len + 2) -> Int]
  /\ \A k \in 1..len : g[k] = e[k]
  /\ g[len + 1] = x /\ g[len + 2] = y
  /\ SR!RadixValue(e) \in Int
  /\ SR!RadixValue(g) = SR!RadixValue(e) + x * 2^(4 * len) + 16 * y * 2^(4 * len)

(* What two more digits add to the value.                                  *)
LEMMA TwoDigitsMore ==
  ASSUME NEW len \in Nat, NEW e \in [1..len -> Int], NEW x \in Int, NEW y \in Int
  PROVE  Appended(e \o << x, y >>, e, len, x, y)
<1> DEFINE g == e \o << x, y >>
           top == len + 2
           S == 1..top
           U == 1..(len + 1)
           f == Weighed16(e, len)
           h == Weighed16(g, top)
           P == 2^(4 * len)
<1>1. e \in Seq(Int) /\ Len(e) = len
  BY SeqIsFunction
<1>2. << x, y >> \in Seq(Int) /\ Len(<< x, y >>) = 2 /\ << x, y >>[1] = x /\ << x, y >>[2] = y
  OBVIOUS
<1>3. g \in Seq(Int) /\ Len(g) = top
  BY <1>1, <1>2
<1>4. g \in [1..top -> Int]
  BY <1>3, SeqIsFunction
<1>5. \A k \in S : g[k] = IF k <= len THEN e[k] ELSE << x, y >>[k - len]
  BY <1>1, <1>2, <1>3
<1>6. (\A k \in 1..len : g[k] = e[k]) /\ g[len + 1] = x /\ g[len + 2] = y
  <2>1. len + 1 \in S /\ len + 2 \in S /\ (len + 1) - len = 1 /\ (len + 2) - len = 2
        /\ ~ (len + 1 <= len) /\ ~ (len + 2 <= len)
    OBVIOUS
  <2>2. \A k \in 1..len : k \in S /\ k <= len
    OBVIOUS
  <2> HIDE DEF g, S
  <2> QED
    BY <1>2, <1>5, <2>1, <2>2
<1> HIDE DEF g
<1>7. top \in Nat /\ \A k \in Nat : IsFiniteSet(1..k)
  BY RecodingFacts
<1>8. /\ SR!RadixValue(e) = SumFunctionOnSet(f, 1..len) /\ \A k \in 1..len : f[k] \in Int
      /\ SR!RadixValue(g) = SumFunctionOnSet(h, S) /\ \A k \in S : h[k] \in Int
  BY <1>4, <1>7, RadixIsSum
<1>9. P \in Nat /\ 2^(4 * (len + 1)) = 16 * P
  <2>1. 4 * len \in Nat /\ 4 * (len + 1) = 4 * len + 4 /\ 4 \in Nat
    OBVIOUS
  <2>2. 2^(4 * len + 4) = P * 2^4 /\ P \in Nat
    BY <2>1, PowerSum, PowerPositive
  <2> QED
    BY <2>1, <2>2, SmallPowers
<1>10. h[len + 1] = x * P /\ h[len + 2] = y * (16 * P)
  <2>1. /\ len + 1 \in S /\ len + 2 \in S
        /\ (len + 1) - 1 = len /\ (len + 2) - 1 = len + 1
    OBVIOUS
  <2>2. h[len + 1] = g[len + 1] * 2^(4 * ((len + 1) - 1))
    BY <2>1 DEF Weighed16
  <2>3. h[len + 2] = g[len + 2] * 2^(4 * ((len + 2) - 1))
    BY <2>1 DEF Weighed16
  <2> HIDE DEF h, P
  <2> QED
    BY <1>6, <1>9, <2>1, <2>2, <2>3 DEF P
<1>11. \A k \in 1..len : h[k] = f[k]
  BY <1>6 DEF Weighed16
<1>12. /\ len + 2 \in S /\ S \ {len + 2} = U /\ len + 1 \in U /\ U \ {len + 1} = 1..len
       /\ U \subseteq S /\ IsFiniteSet(S) /\ IsFiniteSet(U) /\ IsFiniteSet(1..len)
  BY <1>7
<1> HIDE DEF f, h, S, U, P
<1>13. SumFunctionOnSet(h, S) = h[len + 2] + SumFunctionOnSet(h, U)
  BY <1>8, <1>12, SumSplit
<1>14. SumFunctionOnSet(h, U) = h[len + 1] + SumFunctionOnSet(h, 1..len)
  <2>1. \A k \in U : h[k] \in Int
    BY <1>8, <1>12
  <2>2. SumFunctionOnSet(h, U) = h[len + 1] + SumFunctionOnSet(h, U \ {len + 1})
    BY <1>12, <2>1, SumSplit, Zenon
  <2> QED
    BY <1>12, <2>2, Zenon
<1>15. SumFunctionOnSet(h, 1..len) = SumFunctionOnSet(f, 1..len)
  BY <1>8, <1>11, <1>12, SumsEqual
<1>16. SumFunctionOnSet(f, 1..len) \in Int
  BY <1>8, <1>12, SumIsInteger
<1>17. SR!RadixValue(g) = SR!RadixValue(e) + x * P + 16 * y * P
  BY <1>8, <1>9, <1>10, <1>13, <1>14, <1>15, <1>16
<1> QED
  BY <1>4, <1>6, <1>8, <1>16, <1>17 DEF g, P, Appended

(* The loop of ge_scalarmult. *)
Halves == [a : Nat, carry : Int, e : Seq(Int)]

(* What a turn of the loop of ge_scalarmult does: two digits more, and a   *)
(* carry.                                                                  *)
LEMMA ByteDigitsStays ==
  ASSUME NEW s \in Halves, NEW i \in Nat
  PROVE  /\ SR!ByteDigits(s, i) \in Halves
         /\ LET sum == s.carry + SR!Byte(s.a, i)
                carry2 == (sum + 8) \div 16
                carry == IF i < Bytes - 1 THEN (carry2 + 8) \div 16 ELSE 0
            IN  SR!ByteDigits(s, i)
                  = [a |-> s.a, carry |-> carry,
                     e |-> s.e \o << sum - carry2 * 16, carry2 - carry * 16 >>]
<1> DEFINE sum == s.carry + SR!Byte(s.a, i)
           carry2 == (sum + 8) \div 16
           carry == IF i < Bytes - 1 THEN (carry2 + 8) \div 16 ELSE 0
           next == [a |-> s.a, carry |-> carry,
                    e |-> s.e \o << sum - carry2 * 16, carry2 - carry * 16 >>]
<1>1. SR!ByteDigits(s, i) = next
  BY DEF SR!ByteDigits
<1>2. s.a \in Nat /\ s.carry \in Int /\ s.e \in Seq(Int)
  BY DEF Halves
<1>3. SR!Byte(s.a, i) \in Int
  <2>1. 8 * i \in Nat
    OBVIOUS
  <2>2. 2^(8 * i) \in Nat /\ 2^(8 * i) > 0
    BY <2>1, RecodingFacts
  <2>3. s.a \div 2^(8 * i) \in Int
    BY <1>2, <2>2, Division
  <2> QED
    BY <2>3 DEF SR!Byte
<1>4. sum \in Int
  BY <1>2, <1>3
<1> HIDE DEF sum
<1>5. carry2 \in Int
  BY <1>4
<1> HIDE DEF carry2
<1>6. carry \in Int
  BY <1>5
<1> HIDE DEF carry
<1>7. sum - carry2 * 16 \in Int /\ carry2 - carry * 16 \in Int
  BY <1>4, <1>5, <1>6
<1>8. s.e \o << sum - carry2 * 16, carry2 - carry * 16 >> \in Seq(Int)
  BY <1>2, <1>7
<1>9. next \in Halves
  BY <1>2, <1>6, <1>8 DEF Halves
<1> QED
  BY <1>1, <1>9, Zenon DEF sum, carry2, carry

(* The fold is a run of the loop. *)
LEMMA ByteDigitsRun ==
  ASSUME NEW base \in Halves, NEW len \in Nat, len = Bytes
  PROVE  \E run \in [0..len -> Halves] :
           /\ run[0] = base
           /\ run[len] = SR!FoldLeft(SR!ByteDigits, base, SR!UpTo(Bytes))
           /\ \A k \in 1..len : run[k] = SR!ByteDigits(run[k - 1], k - 1)
<1> DEFINE last == [T \in SUBSET (1..len) |-> SR!Max(T)]
           step == [vk \in Halves \X (1..len) |-> SR!ByteDigits(vk[1], vk[2] - 1)]
           order == SR!UpTo(Bytes)
           Folds(it) == it = [T \in SUBSET DOMAIN order |->
                          IF T = {} THEN base
                          ELSE SR!ByteDigits(it[T \ {SR!Max(T)}], order[SR!Max(T)])]
<1>1. DOMAIN order = 1..len /\ \A k \in 1..len : order[k] = k - 1
  BY RecodingFacts DEF SR!UpTo
<1>2. \A v \in Halves, k \in 1..len :
        step[<< v, k >>] = SR!ByteDigits(v, k - 1) /\ step[<< v, k >>] \in Halves
  <2>1. \A k \in 1..len : k - 1 \in 0..(len - 1)
    OBVIOUS
  <2>2. \A v \in Halves, j \in 0..(len - 1) : SR!ByteDigits(v, j) \in Halves
    <3> TAKE v \in Halves, j \in 0..(len - 1)
    <3>1. j \in Nat
      OBVIOUS
    <3> QED
      BY <3>1, ByteDigitsStays, Zenon
  <2> QED
    BY <2>1, <2>2
<1>3. \A T \in SUBSET (1..len) : last[T] = SR!Max(T)
  OBVIOUS
<1> HIDE DEF step, last, order
<1>4. Largest(last, len) /\ Stays(step, Halves, len)
  BY <1>2, <1>3, MaxIsLargest DEF Stays
<1>5. \A T \in SUBSET (1..len) : T # {} => last[T] \in 1..len /\ last[T] = SR!Max(T)
  BY <1>3, <1>4 DEF Largest
<1>6. PICK it \in [SUBSET (1..len) -> Halves] : Solves(it, 1..len, last, step, base)
  BY <1>4, FoldExists, Zenon
<1>7. Folds(it)
  <2>1. \A T \in SUBSET (1..len) : T # {} =>
          it[T] = SR!ByteDigits(it[T \ {SR!Max(T)}], order[SR!Max(T)])
    <3> TAKE T \in SUBSET (1..len)
    <3> HAVE T # {}
    <3>1. it[T] = step[<< it[T \ {last[T]}], last[T] >>] /\ it[T \ {last[T]}] \in Halves
      BY <1>6 DEF Solves
    <3>2. last[T] \in 1..len /\ last[T] = SR!Max(T) /\ order[last[T]] = last[T] - 1
      BY <1>1, <1>5
    <3>3. it[T] = SR!ByteDigits(it[T \ {last[T]}], last[T] - 1)
      BY <1>2, <3>1, <3>2
    <3> QED
      BY <3>2, <3>3
  <2>2. it[{}] = base
    BY <1>6 DEF Solves
  <2>3. it = [T \in SUBSET (1..len) |-> it[T]]
    OBVIOUS
  <2>4. [T \in SUBSET (1..len) |-> it[T]]
          = [T \in SUBSET (1..len) |->
               IF T = {} THEN base ELSE SR!ByteDigits(it[T \ {SR!Max(T)}], order[SR!Max(T)])]
    BY <2>1, <2>2
  <2> QED
    BY <1>1, <2>3, <2>4, Zenon
<1>8. PICK iter : Folds(iter) /\ SR!FoldLeft(SR!ByteDigits, base, order) = iter[DOMAIN order]
  <2>1. SR!FoldLeft(SR!ByteDigits, base, order) = (CHOOSE i : Folds(i))[DOMAIN order]
    BY Zenon DEF SR!FoldLeft, SR!MapThenFoldSet
  <2> HIDE DEF Folds
  <2> QED
    BY <1>7, <2>1, Zenon
<1>9. Follows(iter, len, Halves, last, step, base)
  <2>1. \A T \in SUBSET (1..len) : T # {} => iter[T] = SR!ByteDigits(iter[T \ {last[T]}], last[T] - 1)
    <3> TAKE T \in SUBSET (1..len)
    <3> HAVE T # {}
    <3>1. last[T] \in 1..len /\ last[T] = SR!Max(T) /\ order[last[T]] = last[T] - 1
      BY <1>1, <1>5
    <3>2. iter[T] = SR!ByteDigits(iter[T \ {SR!Max(T)}], order[SR!Max(T)])
      BY <1>1, <1>8
    <3> QED
      BY <3>1, <3>2
  <2>2. iter[{}] = base
    BY <1>8
  <2> QED
    BY <1>2, <1>5, <2>1, <2>2 DEF Follows
<1>10. PICK run : IsRun(run, len, Halves, step, base, iter[1..len])
  BY <1>4, <1>9, FoldRuns, Zenon
<1>11. \A k \in 1..len : run[k] = SR!ByteDigits(run[k - 1], k - 1)
  <2> TAKE k \in 1..len
  <2>1. run[k - 1] \in Halves
    BY <1>10 DEF IsRun
  <2> QED
    BY <1>2, <1>10, <2>1 DEF IsRun
<1>12. iter[1..len] = SR!FoldLeft(SR!ByteDigits, base, SR!UpTo(Bytes))
  BY <1>1, <1>8, Zenon DEF order
<1>13. run \in [0..len -> Halves] /\ run[0] = base /\ run[len] = iter[1..len]
  BY <1>10 DEF IsRun
<1> QED
  BY <1>11, <1>12, <1>13, Zenon

(* After i bytes the digits and the carry weigh what the bytes do. *)
Digits(s, a, i) ==
  /\ s.a = a /\ s.carry \in {0, 1} /\ (i = Bytes => s.carry = 0)
  /\ s.e \in [1..(2 * i) -> Int]
  /\ \A k \in 1..(2 * i) : s.e[k] \in -8..8
  /\ SR!RadixValue(s.e) + s.carry * 2^(8 * i) = a % 2^(8 * i)

(* The digits so far and the carry weigh as much as the bytes read so far; *)
(* the next byte keeps that.                                               *)
LEMMA DigitsStep ==
  ASSUME NEW a \in Scalar, SR!InRange(a), NEW i \in 0..(Bytes - 1),
         NEW s \in Halves, Digits(s, a, i)
  PROVE  Digits(SR!ByteDigits(s, i), a, i + 1)
<1> DEFINE byte == SR!Byte(a, i)
           P == 2^(8 * i)
           sum == s.carry + byte
           carry2 == (sum + 8) \div 16
           carry == IF i < Bytes - 1 THEN (carry2 + 8) \div 16 ELSE 0
           x == sum - carry2 * 16
           y == carry2 - carry * 16
           next == SR!ByteDigits(s, i)
           e == s.e
           g == next.e
<1>0. i \in Nat /\ 8 * i \in Nat /\ 2 * i \in Nat /\ a \in Nat /\ 8 \in Nat
  BY RecodingFacts, ScalarIsOwnRemainder
<1>1. /\ byte * P = (a % 2^(8 * i + 8)) - (a % P)
      /\ byte \in 0..255 /\ a % P \in Nat /\ a % 2^(8 * i + 8) \in Nat
  <2>1. 2^8 = 256 /\ 256 - 1 = 255
    BY SmallPowers
  <2>2. ((a \div P) % 2^8) * P = (a % 2^(8 * i + 8)) - (a % P)
    BY <1>0, DigitIsGain
  <2>3. (a \div P) % 2^8 \in 0..(2^8 - 1) /\ a % P \in Nat /\ a % 2^(8 * i + 8) \in Nat
    BY <1>0, DigitIsGain
  <2> QED
    BY <2>1, <2>2, <2>3 DEF SR!Byte
<1>2. i = Bytes - 1 => byte <= 127
  BY DEF SR!InRange
<1>3. /\ s.a = a /\ s.carry \in {0, 1} /\ e \in [1..(2 * i) -> Int]
      /\ \A k \in 1..(2 * i) : e[k] \in -8..8
      /\ SR!RadixValue(e) + s.carry * P = a % P
  BY DEF Digits
<1>4. next = [a |-> a, carry |-> carry, e |-> e \o << x, y >>]
  BY <1>0, <1>3, ByteDigitsStays, Zenon
<1>5. P \in Nat /\ 2^(8 * i + 8) = P * 256
  <2>1. 2^(8 * i + 8) = P * 2^8 /\ P \in Nat
    BY <1>0, PowerSum, PowerPositive
  <2> QED
    BY <2>1, SmallPowers
<1> HIDE DEF byte, P
<1>6. /\ x \in -8..8 /\ y \in -8..8 /\ carry \in {0, 1}
      /\ x + 16 * y + 256 * carry = s.carry + byte
      /\ (i + 1 = Bytes => carry = 0)
  <2>1. sum \in 0..256 /\ (i = Bytes - 1 => sum \in 0..128)
    <3>1. \A j \in {0, 1}, k \in 0..255 : j + k \in 0..256 /\ (k <= 127 => j + k \in 0..128)
      OBVIOUS
    <3>2. s.carry \in {0, 1} /\ byte \in 0..255
      BY <1>1, <1>3
    <3> QED
      BY <1>2, <3>1, <3>2
  <2> HIDE DEF sum
  <2>2. carry2 \in 0..16 /\ x \in -8..8 /\ (i = Bytes - 1 => carry2 \in 0..8)
    BY <2>1
  <2> HIDE DEF carry2
  <2>3. i < Bytes - 1 \/ i = Bytes - 1
    BY <1>0, RecodingFacts
  <2>4. carry \in {0, 1} /\ y \in -8..8 /\ (i + 1 = Bytes => carry = 0)
    <3>1. CASE i < Bytes - 1
      <4>1. carry = (carry2 + 8) \div 16 /\ i + 1 # Bytes
        BY <1>0, <3>1, RecodingFacts
      <4>2. \A z \in 0..16 : /\ (z + 8) \div 16 \in {0, 1}
                             /\ z - ((z + 8) \div 16) * 16 \in -8..8
        OBVIOUS
      <4> QED
        BY <2>2, <4>1, <4>2
    <3>2. CASE i = Bytes - 1
      <4>1. carry = 0 /\ carry2 \in 0..8
        BY <1>0, <2>2, <3>2, RecodingFacts
      <4> HIDE DEF carry
      <4>2. y \in -8..8
        BY <4>1
      <4> QED
        BY <4>1, <4>2
    <3> QED
      BY <2>3, <3>1, <3>2
  <2> HIDE DEF carry
  <2>5. x + 16 * y + 256 * carry = sum
    BY <2>1, <2>2, <2>4
  <2> QED
    BY <2>2, <2>4, <2>5 DEF sum
<1> HIDE DEF x, y, carry, sum, carry2, next
<1>7. next.a = a /\ next.carry = carry /\ g = e \o << x, y >>
  BY <1>4
<1> HIDE DEF e, g
<1>8. /\ g \in [1..(2 * i + 2) -> Int]
      /\ \A k \in 1..(2 * i) : g[k] = e[k]
      /\ g[2 * i + 1] = x /\ g[2 * i + 2] = y
      /\ SR!RadixValue(e) \in Int
      /\ SR!RadixValue(g) = SR!RadixValue(e) + x * P + 16 * y * P
  <2>1. x \in Int /\ y \in Int /\ 4 * (2 * i) = 8 * i
    BY <1>0, <1>6
  <2>2. 2^(4 * (2 * i)) = P
    BY <2>1 DEF P
  <2>3. e \in [1..(2 * i) -> Int] /\ 2 * i \in Nat
    BY <1>0, <1>3
  <2>4. Appended(g, e, 2 * i, x, y)
    BY <1>7, <2>1, <2>3, TwoDigitsMore, Zenon
  <2> QED
    BY <2>2, <2>4 DEF Appended
<1>9. \A k \in 1..(2 * i + 2) : g[k] \in -8..8
  <2> TAKE k \in 1..(2 * i + 2)
  <2>1. k \in 1..(2 * i) \/ k = 2 * i + 1 \/ k = 2 * i + 2
    BY <1>0
  <2> QED
    BY <1>3, <1>6, <1>8, <2>1
<1>10. 2 * (i + 1) = 2 * i + 2 /\ 8 * (i + 1) = 8 * i + 8
  BY <1>0
<1>11. SR!RadixValue(g) + carry * 2^(8 * i + 8) = a % 2^(8 * i + 8)
  <2>1. SR!RadixValue(g) + carry * (P * 256) = SR!RadixValue(e) + (x + 16 * y + 256 * carry) * P
    BY <1>5, <1>6, <1>8
  <2>2. (s.carry + byte) * P = s.carry * P + byte * P
    BY <1>1, <1>3, <1>5
  <2>3. s.carry * P \in Int /\ byte * P \in Int
    BY <1>1, <1>3, <1>5
  <2>4. SR!RadixValue(g) + carry * (P * 256) = SR!RadixValue(e) + (s.carry * P + byte * P)
    BY <1>6, <2>1, <2>2
  <2>5. carry * 2^(8 * i + 8) = carry * (P * 256)
    BY <1>5
  <2>6. SR!RadixValue(e) + s.carry * P = a % P /\ byte * P = (a % 2^(8 * i + 8)) - (a % P)
    BY <1>1, <1>3
  <2> HIDE DEF P
  <2>7. SR!RadixValue(e) + (s.carry * P + byte * P) = a % 2^(8 * i + 8)
    <3>1. SR!RadixValue(e) \in Int /\ a % P \in Int /\ a % 2^(8 * i + 8) \in Int
      BY <1>1, <1>8
    <3> HIDE DEF P
    <3> QED
      BY <2>3, <2>6, <3>1
  <2> QED
    BY <2>4, <2>5, <2>7
<1> QED
  BY <1>6, <1>7, <1>8, <1>9, <1>10, <1>11 DEF Digits, g, next

(* The recoding of ge_scalarmult. *)
LEMMA Radix16Exact ==
  ASSUME NEW a \in Scalar, SR!InRange(a)
  PROVE  /\ SR!RadixValue(SR!Radix16(a)) = a
         /\ \A k \in DOMAIN SR!Radix16(a) : SR!Radix16(a)[k] \in -8..8
<1> DEFINE base == [a |-> a, carry |-> 0, e |-> << >>]
           len == Bytes
<1>1. len \in Nat /\ a \in Nat /\ a % 2^(8 * Bytes) = a
  BY RecodingFacts, ScalarIsOwnRemainder
<1>2. base \in Halves
  BY <1>1 DEF Halves
<1>3. PICK run \in [0..len -> Halves] :
           /\ run[0] = base
           /\ run[len] = SR!FoldLeft(SR!ByteDigits, base, SR!UpTo(Bytes))
           /\ \A k \in 1..len : run[k] = SR!ByteDigits(run[k - 1], k - 1)
  BY <1>1, <1>2, ByteDigitsRun, Zenon
<1>4. SR!Radix16(a) = run[len].e
  BY <1>3, Zenon DEF SR!Radix16
<1> DEFINE Good(i) == i <= len => Digits(run[i], a, i)
           G == {i \in Nat : Good(i)}
<1>5. 0 \in G
  <2>1. base.e \in [1..(2 * 0) -> Int] /\ base.carry = 0 /\ base.a = a /\ base.e = << >>
    OBVIOUS
  <2>2. SR!RadixValue(base.e) = 0
    <3> HIDE DEF base
    <3>2. 1..0 = {} /\ base.e \in [1..0 -> Int] /\ 0 \in Nat
      BY <2>1
    <3>1. SR!RadixValue(base.e) = SumFunctionOnSet(Weighed16(base.e, 0), 1..0)
      BY <3>2, RadixIsSum, Zenon
    <3> QED
      BY <3>1, <3>2, SumOfNone
  <2>3. 2^(8 * 0) = 1 /\ a % 1 = 0 /\ 1..(2 * 0) = {}
    BY <1>1, SmallPowers
  <2> HIDE DEF base
  <2>4. Digits(base, a, 0)
    BY <2>1, <2>2, <2>3 DEF Digits
  <2> QED
    BY <1>3, <2>4
<1>6. ASSUME NEW i \in Nat, i \in G PROVE i + 1 \in G
  <2>1. CASE i + 1 <= len
    <3>1. i + 1 \in 1..len /\ (i + 1) - 1 = i /\ i \in 0..len /\ i \in 0..(Bytes - 1) /\ i <= len
      BY <1>1, <2>1
    <3>2. run[i] \in Halves /\ run[i + 1] = SR!ByteDigits(run[i], i)
      BY <1>3, <3>1
    <3>3. Digits(run[i], a, i)
      BY <1>6, <3>1
    <3>4. Digits(run[i + 1], a, i + 1)
      BY <3>1, <3>2, <3>3, DigitsStep
    <3> QED
      BY <3>4
  <2>2. CASE ~ (i + 1 <= len)
    BY <2>2
  <2> QED
    BY <2>1, <2>2
<1>7. Nat \subseteq G
  <2> HIDE DEF G
  <2> QED
    BY <1>5, <1>6, NaturalInduction
<1>8. Digits(run[len], a, len)
  BY <1>1, <1>7
<1>9. /\ run[len].carry = 0 /\ run[len].e \in [1..(2 * Bytes) -> Int]
      /\ \A k \in 1..(2 * Bytes) : run[len].e[k] \in -8..8
      /\ SR!RadixValue(run[len].e) + run[len].carry * 2^(8 * Bytes) = a % 2^(8 * Bytes)
  BY <1>8 DEF Digits
<1>10. SR!RadixValue(run[len].e) = a
  <2>1. SR!RadixValue(run[len].e) \in Int
    <3>1. 2 * Bytes \in Nat
      BY RecodingFacts
    <3>2. run[len].e \in [1..(2 * Bytes) -> Int]
      BY <1>9
    <3> QED
      BY <3>1, <3>2, RadixIsInteger, Zenon
  <2>2. 0 * 2^(8 * Bytes) = 0
    BY RecodingFacts
  <2> QED
    BY <1>1, <1>9, <2>1, <2>2
<1>11. DOMAIN run[len].e = 1..(2 * Bytes)
  BY <1>9
<1> QED
  BY <1>4, <1>9, <1>10, <1>11

-----------------------------------------------------------------------------
(* slide. *)
Windows == [SR!Positions -> Int]
Weighed2(r) == [k \in SR!Positions |-> r[k] * 2^k]
Lower(r, i) == SumFunctionOnSet(Weighed2(r), 0..(i - 1))

(* The positions of the bits, and their weights.                           *)
LEMMA PositionFacts ==
  /\ SR!Bits \in Nat /\ SR!Bits > 0 /\ SR!Positions = 0..(SR!Bits - 1)
  /\ IsFiniteSet(SR!Positions) /\ \A i \in Nat : IsFiniteSet(0..i)
  /\ \A k \in SR!Positions : k \in Nat /\ k < SR!Bits /\ 2^k \in Nat /\ 2^k > 0
  /\ SR!Positions \subseteq Int
<1>1. SR!Bits \in Nat /\ SR!Bits > 0 /\ SR!Positions = 0..(SR!Bits - 1)
  BY RecodingFacts DEF SR!Positions
<1>2. \A i \in Int : IsFiniteSet(0..i)
  BY FS_Interval
<1>3. \A k \in SR!Positions : k \in Nat /\ k < SR!Bits
  BY <1>1
<1> QED
  BY <1>1, <1>2, <1>3, PowerPositive

(* The value of an array of digits as a sum of weighed digits.             *)
LEMMA SlideIsSum ==
  ASSUME NEW r \in Windows
  PROVE  /\ SR!SlideValue(r) = SumFunctionOnSet(Weighed2(r), SR!Positions)
         /\ SR!SlideValue(r) \in Int
         /\ \A k \in SR!Positions : Weighed2(r)[k] \in Int /\ Weighed2(r)[k] = r[k] * 2^k
<1>1. DOMAIN r = SR!Positions /\ DOMAIN Weighed2(r) = SR!Positions
  BY DEF Weighed2, Windows
<1>2. SR!SlideValue(r) = SR!SumFunction(Weighed2(r))
  BY <1>1, Zenon DEF SR!SlideValue, Weighed2
<1>3. SR!SlideValue(r) = SR!SumFunctionOnSet(Weighed2(r), SR!Positions)
  BY <1>1, <1>2, Zenon DEF SR!SumFunction
<1>4. \A k \in SR!Positions : Weighed2(r)[k] \in Int /\ Weighed2(r)[k] = r[k] * 2^k
  <2> TAKE k \in SR!Positions
  <2>1. r[k] \in Int /\ 2^k \in Int
    BY PositionFacts DEF Windows
  <2> QED
    BY <2>1 DEF Weighed2
<1>5. SR!SlideValue(r) = SumFunctionOnSet(Weighed2(r), SR!Positions)
  BY <1>3, SumOfInstance, Zenon
<1>6. SumFunctionOnSet(Weighed2(r), SR!Positions) \in Int
  BY <1>4, PositionFacts, SumIsInteger
<1> QED
  BY <1>4, <1>5, <1>6

(* The sum of the digits below a position. *)
LEMMA LowerGrows ==
  ASSUME NEW r \in Windows, NEW i \in SR!Positions
  PROVE  Lower(r, i) \in Int /\ Lower(r, i + 1) = Lower(r, i) + r[i] * 2^i
<1> DEFINE S == 0..i
           T == 0..(i - 1)
           f == Weighed2(r)
<1>1. i \in S /\ S \ {i} = T /\ S \subseteq SR!Positions /\ T \subseteq S /\ (i + 1) - 1 = i
  BY PositionFacts
<1>2. \A k \in S : f[k] \in Int
  BY <1>1, SlideIsSum
<1>3. IsFiniteSet(S) /\ IsFiniteSet(T)
  BY <1>1, PositionFacts, FS_Subset
<1>4. f[i] = r[i] * 2^i /\ f[i] \in Int
  BY SlideIsSum
<1>5. Lower(r, i + 1) = SumFunctionOnSet(f, S) /\ Lower(r, i) = SumFunctionOnSet(f, T)
  BY <1>1 DEF Lower
<1> HIDE DEF f, S, T
<1>6. SumFunctionOnSet(f, S) = f[i] + SumFunctionOnSet(f, S \ {i})
  BY <1>1, <1>2, <1>3, SumSplit
<1>7. SumFunctionOnSet(f, T) \in Int
  BY <1>1, <1>2, <1>3, SumIsInteger
<1>8. SumFunctionOnSet(f, S \ {i}) = SumFunctionOnSet(f, T)
  BY <1>1
<1> QED
  BY <1>4, <1>5, <1>6, <1>7, <1>8

(* The sum below i depends on the digits below i only.                     *)
LEMMA LowerDepends ==
  ASSUME NEW r \in Windows, NEW g \in Windows, NEW i \in SR!Positions,
         \A k \in SR!Positions : k < i => g[k] = r[k]
  PROVE  Lower(g, i) = Lower(r, i)
<1> DEFINE T == 0..(i - 1)
<1>1. T \subseteq SR!Positions /\ \A k \in T : k < i
  BY PositionFacts
<1>2. IsFiniteSet(T)
  BY <1>1, PositionFacts, FS_Subset
<1>3. \A k \in T : Weighed2(r)[k] \in Int /\ Weighed2(g)[k] = Weighed2(r)[k]
  <2> TAKE k \in T
  <2>1. k \in SR!Positions /\ g[k] = r[k]
    BY <1>1
  <2> QED
    BY <2>1, SlideIsSum
<1> HIDE DEF T
<1>4. SumFunctionOnSet(Weighed2(g), T) = SumFunctionOnSet(Weighed2(r), T)
  BY <1>2, <1>3, SumsEqual
<1> QED
  BY <1>4 DEF Lower, T

(* The value of an array with nothing above i.                             *)
LEMMA ValueIsLower ==
  ASSUME NEW r \in Windows, NEW i \in SR!Positions, \A k \in SR!Positions : k > i => r[k] = 0
  PROVE  SR!SlideValue(r) = Lower(r, i) + r[i] * 2^i
<1> DEFINE S == SR!Positions
           T == 0..i
           f == Weighed2(r)
<1>1. T \in SUBSET S /\ (\A k \in S \ T : k > i) /\ IsFiniteSet(S) /\ (i + 1) - 1 = i
  BY PositionFacts
<1>2. (\A k \in S : f[k] \in Int) /\ \A k \in S \ T : f[k] = 0
  <2>1. \A k \in S : f[k] \in Int /\ f[k] = r[k] * 2^k /\ 2^k \in Nat
    BY SlideIsSum, PositionFacts
  <2> HIDE DEF f, S, T
  <2> QED
    BY <1>1, <2>1 DEF S
<1>3. SR!SlideValue(r) = SumFunctionOnSet(f, S)
  BY SlideIsSum
<1>4. Lower(r, i + 1) = SumFunctionOnSet(f, T)
  BY <1>1 DEF Lower
<1> HIDE DEF f, S, T
<1>5. SumFunctionOnSet(f, S) = SumFunctionOnSet(f, T)
  BY <1>1, <1>2, SumOfPart
<1> QED
  BY <1>3, <1>4, <1>5, LowerGrows

(* The bits of a scalar. *)
LEMMA BitsWeigh ==
  ASSUME NEW a \in Scalar
  PROVE  /\ SR!BitsOf(a) \in Windows
         /\ \A k \in SR!Positions : SR!BitsOf(a)[k] \in {0, 1}
         /\ SR!SlideValue(SR!BitsOf(a)) = a
<1> DEFINE top == SR!Bits
           S == 0..(top - 1)
           c == [k \in 0..top |-> a % 2^k]
           f == Weighed2(SR!BitsOf(a))
<1>0. /\ a \in Nat /\ a % 2^top = a /\ top \in Nat /\ 0 <= top /\ SR!Positions = S /\ 0 \in Nat
      /\ 0 \in 0..top /\ top \in 0..top
  BY ScalarIsOwnRemainder, RecodingFacts, PositionFacts
<1>1. \A k \in 0..top : c[k] \in Int
  <2> TAKE k \in 0..top
  <2>1. k \in Nat
    OBVIOUS
  <2>2. a % 2^k \in Nat
    BY <1>0, <2>1, DigitIsGain
  <2> QED
    BY <2>2
<1>2. ASSUME NEW k \in S
      PROVE  SR!BitsOf(a)[k] \in {0, 1} /\ SR!BitsOf(a)[k] * 2^k = c[k + 1] - c[k]
  <2>1. k \in Nat /\ k \in 0..top /\ k + 1 \in 0..top /\ 1 \in Nat /\ 2^1 = 2
    BY <1>0, SmallPowers
  <2>2. ((a \div 2^k) % 2^1) * 2^k = (a % 2^(k + 1)) - (a % 2^k)
    BY <1>0, <2>1, DigitIsGain
  <2>3. (a \div 2^k) % 2^1 \in 0..(2^1 - 1)
    BY <1>0, <2>1, DigitIsGain
  <2>4. SR!BitsOf(a)[k] = (a \div 2^k) % 2
    BY <1>0 DEF SR!BitsOf
  <2>5. c[k + 1] = a % 2^(k + 1) /\ c[k] = a % 2^k
    BY <2>1
  <2> DEFINE q == (a \div 2^k) % 2
             gain == (a % 2^(k + 1)) - (a % 2^k)
             w == 2^k
  <2>6. q * w = gain
    BY <2>1, <2>2, Zenon
  <2>7. q \in 0..(2 - 1)
    BY <2>1, <2>3, Zenon
  <2>8. SR!BitsOf(a)[k] = q /\ c[k + 1] - c[k] = gain
    BY <2>4, <2>5, Zenon
  <2> HIDE DEF c, q, gain, w
  <2>9. q \in {0, 1}
    BY <2>7
  <2>10. SR!BitsOf(a)[k] * w = c[k + 1] - c[k]
    BY <2>6, <2>8, Zenon
  <2> QED
    BY <2>8, <2>9, <2>10, Zenon DEF w
<1>3. SR!BitsOf(a) \in Windows
  <2>1. SR!BitsOf(a) = [k \in S |-> SR!BitsOf(a)[k]]
    BY <1>0, Zenon DEF SR!BitsOf
  <2>2. \A k \in S : SR!BitsOf(a)[k] \in Int
    <3> HIDE DEF c, f, S
    <3>1. \A k \in S : SR!BitsOf(a)[k] \in {0, 1}
      BY <1>2
    <3> QED
      BY <3>1
  <2> QED
    BY <1>0, <2>1, <2>2 DEF Windows
<1>4. \A k \in S : f[k] = c[k + 1] - c[k]
  BY <1>0, <1>2, <1>3, SlideIsSum
<1>5. c[top] = a /\ c[0] = 0
  <2>1. c[top] = a % 2^top /\ c[0] = a % 2^0
    BY <1>0
  <2>2. 2^0 = 1 /\ \A x \in Nat : x % 1 = 0
    BY SmallPowers
  <2> HIDE DEF c
  <2> QED
    BY <1>0, <2>1, <2>2
<1>6. SR!SlideValue(SR!BitsOf(a)) = SumFunctionOnSet(f, S)
  BY <1>0, <1>3, SlideIsSum
<1> HIDE DEF f, c
<1>7. SumFunctionOnSet(f, S) = c[top] - c[0]
  BY <1>0, <1>1, <1>4, SumTelescopes
<1> QED
  BY <1>0, <1>2, <1>3, <1>5, <1>6, <1>7

(* The loop over k: it adds 2^from, and loses 2^Bits if no bit is clear. *)
AllSet(r, from, k) == k >= from /\ \A j \in from..(k - 1) : r[j] # 0

(* What CarryUp writes at each position.                                   *)
LEMMA CarryUpDigits ==
  ASSUME NEW r \in Windows, NEW from \in SR!Positions,
         \A k \in SR!Positions : k >= from => r[k] \in {0, 1}
  PROVE  /\ SR!CarryUp(r, from) \in Windows
         /\ \A k \in SR!Positions :
              SR!CarryUp(r, from)[k]
                = IF ~ AllSet(r, from, k) THEN r[k] ELSE IF r[k] = 0 THEN 1 ELSE 0
<1>1. SR!CarryUp(r, from)
        = [k \in SR!Positions |->
             IF ~ AllSet(r, from, k) THEN r[k] ELSE IF r[k] = 0 THEN 1 ELSE 0]
  BY Zenon DEF SR!CarryUp, AllSet
<1>2. \A k \in SR!Positions :
        (IF ~ AllSet(r, from, k) THEN r[k] ELSE IF r[k] = 0 THEN 1 ELSE 0) \in Int
  BY DEF Windows
<1> QED
  BY <1>1, <1>2 DEF Windows

(* A carry that has reached k goes on to k + 1 if the bit at k is set.     *)
LEMMA AllSetGrows ==
  ASSUME NEW r, NEW from \in Nat, NEW k \in Nat
  PROVE  /\ k < from => ~ AllSet(r, from, k)
         /\ AllSet(r, from, from)
         /\ k >= from => (AllSet(r, from, k + 1) <=> AllSet(r, from, k) /\ r[k] # 0)
<1>1. k < from => ~ AllSet(r, from, k)
  BY DEF AllSet
<1>2. AllSet(r, from, from)
  BY DEF AllSet
<1>3. ASSUME k >= from PROVE AllSet(r, from, k + 1) <=> AllSet(r, from, k) /\ r[k] # 0
  <2>1. k \in from..((k + 1) - 1) /\ \A j \in from..((k + 1) - 1) : j = k \/ j \in from..(k - 1)
    BY <1>3
  <2>2. from..(k - 1) \subseteq from..((k + 1) - 1)
    OBVIOUS
  <2> QED
    BY <1>3, <2>1, <2>2 DEF AllSet
<1> QED
  BY <1>1, <1>2, <1>3

(* CarryUp adds 2^from to the value, unless every bit from there on was    *)
(* set: then it clears them all and 2^Bits is lost.                        *)
LEMMA CarryUpExact ==
  ASSUME NEW r \in Windows, NEW from \in SR!Positions,
         \A k \in SR!Positions : k >= from => r[k] \in {0, 1}
  PROVE  \/ SR!SlideValue(SR!CarryUp(r, from)) = SR!SlideValue(r) + 2^from
         \/ /\ SR!SlideValue(SR!CarryUp(r, from)) = SR!SlideValue(r) + 2^from - 2^SR!Bits
            /\ \A k \in SR!Positions : k >= from => SR!CarryUp(r, from)[k] = 0
<1> DEFINE g == SR!CarryUp(r, from)
           top == SR!Bits
           S == SR!Positions
           out == [k \in 0..top |-> IF k > from /\ AllSet(r, from, k) THEN 2^k ELSE 0]
           d == [k \in 0..top |-> 0 - out[k]]
           f == Weighed2(r)
           f2 == [k \in S |-> IF k = from THEN f[k] + 2^from ELSE f[k]]
           t == [k \in S |-> d[k + 1] - d[k]]
           h == Weighed2(g)
<1>0. /\ top \in Nat /\ S = 0..(top - 1) /\ IsFiniteSet(S) /\ from \in Nat /\ from \in S
      /\ from < top /\ 0 \in Nat /\ 0 <= top /\ 0 \in 0..top /\ top \in 0..top
      /\ \A k \in S : k \in Nat /\ k \in 0..top /\ k + 1 \in 0..top
  BY PositionFacts
<1>1. /\ g \in Windows
      /\ \A k \in S : g[k] = IF ~ AllSet(r, from, k) THEN r[k] ELSE IF r[k] = 0 THEN 1 ELSE 0
  BY CarryUpDigits
<1>2. \A k \in 0..top : 2^k \in Nat /\ 2^(k + 1) = 2 * 2^k
  BY RecodingFacts
<1>3. \A k \in 0..top : /\ k > from /\ AllSet(r, from, k) => d[k] = 0 - 2^k
                        /\ ~ (k > from /\ AllSet(r, from, k)) => d[k] = 0
                        /\ d[k] \in Int
  <2> TAKE k \in 0..top
  <2>1. d[k] = 0 - out[k] /\ out[k] = IF k > from /\ AllSet(r, from, k) THEN 2^k ELSE 0
    OBVIOUS
  <2>2. 2^k \in Int
    BY <1>2
  <2> HIDE DEF out, d
  <2>3. CASE k > from /\ AllSet(r, from, k)
    <3>1. out[k] = 2^k
      BY <2>1, <2>3
    <3> QED
      BY <2>1, <2>2, <2>3, <3>1
  <2>4. CASE ~ (k > from /\ AllSet(r, from, k))
    <3>1. out[k] = 0
      BY <2>1, <2>4
    <3> QED
      BY <2>1, <2>4, <3>1
  <2> QED
    BY <2>3, <2>4
<1>4. /\ \A k \in S : f[k] \in Int /\ f[k] = r[k] * 2^k
      /\ SR!SlideValue(r) = SumFunctionOnSet(f, S)
      /\ SR!SlideValue(r) \in Int
  BY SlideIsSum
<1>5. /\ \A k \in S : h[k] \in Int /\ h[k] = g[k] * 2^k
      /\ SR!SlideValue(g) = SumFunctionOnSet(h, S)
  <2> HIDE DEF g
  <2> QED
    BY <1>1, SlideIsSum
<1>6. (\A k \in S \ {from} : f2[k] = f[k]) /\ f2[from] = f[from] + 2^from
      /\ (\A k \in S : f2[k] \in Int)
  <2>1. \A k \in S : f[k] \in Int /\ 2^from \in Int
    BY <1>0, <1>2, <1>4
  <2> HIDE DEF f
  <2> QED
    BY <1>0, <2>1
<1>7. \A k \in S : t[k] = d[k + 1] - d[k]
  OBVIOUS
<1> HIDE DEF g, out, d, f, f2, t, h, S, top
<1>8. \A k \in S : t[k] \in Int
  <2> TAKE k \in S
  <2>1. d[k] \in Int /\ d[k + 1] \in Int
    BY <1>0, <1>3
  <2> QED
    BY <1>7, <2>1
<1>9. \A k \in S : h[k] = f2[k] + t[k]
  <2> TAKE k \in S
  <2>0. k \in 0..top /\ k + 1 \in 0..top /\ k \in Nat
    BY <1>0
  <2>1. 2^k \in Nat /\ 2^(k + 1) = 2 * 2^k
    BY <1>2, <2>0
  <2>2. h[k] = g[k] * 2^k /\ f[k] = r[k] * 2^k /\ t[k] = d[k + 1] - d[k]
    BY <1>4, <1>5, <1>7
  <2>3. g[k] = IF ~ AllSet(r, from, k) THEN r[k] ELSE IF r[k] = 0 THEN 1 ELSE 0
    BY <1>1
  <2>4. k >= from => (AllSet(r, from, k + 1) <=> AllSet(r, from, k) /\ r[k] # 0)
    BY <1>0, <2>0, AllSetGrows
  <2>5. (k < from => ~ AllSet(r, from, k)) /\ AllSet(r, from, from)
    BY <1>0, <2>0, AllSetGrows
  <2>6. k >= from => r[k] \in {0, 1}
    BY DEF S
  <2>7. r[k] \in Int
    BY DEF S, Windows
  <2>8. CASE k < from
    <3>1. d[k] = 0 /\ d[k + 1] = 0
      BY <1>0, <1>3, <2>0, <2>8
    <3>2. f2[k] = f[k]
      BY <1>0, <1>6, <2>8
    <3> QED
      BY <2>1, <2>2, <2>3, <2>5, <2>7, <2>8, <3>1, <3>2
  <2>9. CASE k = from
    <3>1. d[k] = 0
      BY <1>3, <2>0, <2>9
    <3>2. f2[k] = f[k] + 2^k
      BY <1>6, <2>9
    <3>3. CASE r[k] = 0
      <4>1. d[k + 1] = 0
        BY <1>0, <1>3, <2>0, <2>4, <2>9, <3>3
      <4>2. g[k] = 1
        BY <2>3, <2>5, <2>9, <3>3
      <4> QED
        BY <2>1, <2>2, <3>1, <3>2, <3>3, <4>1, <4>2
    <3>4. CASE r[k] = 1
      <4>1. d[k + 1] = 0 - 2^(k + 1)
        BY <1>0, <1>3, <2>0, <2>4, <2>5, <2>9, <3>4
      <4>2. g[k] = 0
        BY <2>3, <2>5, <2>9, <3>4
      <4> QED
        BY <2>1, <2>2, <3>1, <3>2, <3>4, <4>1, <4>2
    <3> QED
      BY <1>0, <2>6, <2>9, <3>3, <3>4
  <2>10. CASE k > from
    <3>1. f2[k] = f[k]
      BY <1>0, <1>6, <2>10
    <3>2. r[k] \in {0, 1} /\ k >= from /\ k + 1 > from
      BY <1>0, <2>0, <2>6, <2>10
    <3>3. CASE ~ AllSet(r, from, k)
      <4>1. ~ AllSet(r, from, k + 1)
        BY <2>4, <3>2, <3>3
      <4>2. d[k] = 0 /\ d[k + 1] = 0
        BY <1>3, <2>0, <3>3, <4>1
      <4> QED
        BY <2>1, <2>2, <2>3, <2>7, <3>1, <3>3, <4>2
    <3>4. CASE AllSet(r, from, k) /\ r[k] = 0
      <4>1. ~ AllSet(r, from, k + 1) /\ g[k] = 1
        BY <2>3, <2>4, <3>2, <3>4
      <4>2. d[k] = 0 - 2^k /\ d[k + 1] = 0
        BY <1>3, <2>0, <2>10, <3>4, <4>1
      <4> QED
        BY <2>1, <2>2, <3>1, <3>4, <4>1, <4>2
    <3>5. CASE AllSet(r, from, k) /\ r[k] = 1
      <4>1. AllSet(r, from, k + 1) /\ g[k] = 0
        BY <2>3, <2>4, <3>2, <3>5
      <4>2. d[k] = 0 - 2^k /\ d[k + 1] = 0 - 2^(k + 1)
        BY <1>3, <2>0, <2>10, <3>2, <3>5, <4>1
      <4> QED
        BY <2>1, <2>2, <3>1, <3>5, <4>1, <4>2
    <3> QED
      BY <3>2, <3>3, <3>4, <3>5
  <2> QED
    BY <1>0, <2>0, <2>8, <2>9, <2>10
<1>10. SumFunctionOnSet(h, S) = SumFunctionOnSet(f2, S) + SumFunctionOnSet(t, S)
  BY <1>0, <1>6, <1>8, <1>9, SumOfSums, SMTT(60)
<1>11. SumFunctionOnSet(f2, S) = SumFunctionOnSet(f, S) + 2^from
  <2>1. 2^from \in Int /\ \A k \in S : f[k] \in Int
    BY <1>0, <1>2, <1>4
  <2> QED
    BY <1>0, <1>6, <2>1, SumUpdated
<1>12. SumFunctionOnSet(t, S) = d[top] - d[0]
  BY <1>0, <1>3, <1>7, SumTelescopes, SMTT(60)
<1>13. d[0] = 0 /\ (d[top] = 0 \/ (d[top] = 0 - 2^top /\ AllSet(r, from, top)))
  BY <1>0, <1>3
<1>14. AllSet(r, from, top) => \A k \in S : k >= from => g[k] = 0
  <2> SUFFICES ASSUME AllSet(r, from, top), NEW k \in S, k >= from PROVE g[k] = 0
    OBVIOUS
  <2>1. AllSet(r, from, k) /\ r[k] # 0
    BY <1>0 DEF AllSet
  <2> QED
    BY <1>1, <2>1
<1>15. 2^from \in Int /\ 2^top \in Int
  BY <1>0, <1>2
<1> QED
  BY <1>4, <1>5, <1>10, <1>11, <1>12, <1>13, <1>14, <1>15 DEF g, top, S

(* One turn of the loop over b. *)
WindowStates == [r : Windows, stop : BOOLEAN]
Passes(w, i, b) == w.stop \/ i + b >= SR!Bits \/ w.r[i + b] = 0
Swallowed(r, i, b) == [[r EXCEPT ![i] = r[i] + r[i + b] * 2^b] EXCEPT ![i + b] = 0]
Lessened(r, i, b) == [r EXCEPT ![i] = r[i] - r[i + b] * 2^b]

(* The four ways a turn of the loop over b ends.                           *)
LEMMA WindowCases ==
  ASSUME NEW w \in WindowStates, NEW i \in SR!Positions, NEW b \in 1..6
  PROVE  /\ Passes(w, i, b) => SR!Window(w, i, b) = w
         /\ ~ Passes(w, i, b) /\ w.r[i] + w.r[i + b] * 2^b <= 15 =>
              SR!Window(w, i, b) = [r |-> Swallowed(w.r, i, b), stop |-> FALSE]
         /\ ~ Passes(w, i, b) /\ ~ (w.r[i] + w.r[i + b] * 2^b <= 15)
              /\ w.r[i] - w.r[i + b] * 2^b >= -15 =>
              SR!Window(w, i, b)
                = [r |-> SR!CarryUp(Lessened(w.r, i, b), i + b), stop |-> FALSE]
         /\ ~ Passes(w, i, b) /\ ~ (w.r[i] + w.r[i + b] * 2^b <= 15)
              /\ ~ (w.r[i] - w.r[i + b] * 2^b >= -15) =>
              SR!Window(w, i, b) = [r |-> w.r, stop |-> TRUE]
         /\ ~ Passes(w, i, b) => i + b \in SR!Positions
<1>1. ~ Passes(w, i, b) => i + b \in SR!Positions
  BY PositionFacts DEF Passes
<1> QED
  BY <1>1, Zenon DEF SR!Window, Passes, Swallowed, Lessened

(* The digits of an array whose bit at i + b goes into the digit at i.     *)
LEMMA SwallowedDigits ==
  ASSUME NEW r \in Windows, NEW i \in SR!Positions, NEW b \in 1..6, i + b \in SR!Positions
  PROVE  /\ Swallowed(r, i, b) \in Windows /\ Lessened(r, i, b) \in Windows
         /\ Swallowed(r, i, b)[i] = r[i] + r[i + b] * 2^b /\ Swallowed(r, i, b)[i + b] = 0
         /\ \A k \in SR!Positions : k # i /\ k # i + b => Swallowed(r, i, b)[k] = r[k]
         /\ Lessened(r, i, b)[i] = r[i] - r[i + b] * 2^b
         /\ \A k \in SR!Positions : k # i => Lessened(r, i, b)[k] = r[k]
<1> DEFINE v == r[i + b] * 2^b
           mid == [r EXCEPT ![i] = r[i] + v]
           res == [mid EXCEPT ![i + b] = 0]
           less == [r EXCEPT ![i] = r[i] - v]
<1>1. i + b # i /\ b \in Nat /\ i \in Int
  BY PositionFacts
<1>2. r[i] \in Int /\ v \in Int
  <2>1. 2^b \in Int /\ r[i] \in Int /\ r[i + b] \in Int
    BY <1>1, RecodingFacts DEF Windows
  <2> QED
    BY <2>1
<1>3. Swallowed(r, i, b) = res /\ Lessened(r, i, b) = less
  BY DEF Swallowed, Lessened
<1> HIDE DEF v
<1>4. mid \in Windows /\ mid[i] = r[i] + v /\ \A k \in SR!Positions : k # i => mid[k] = r[k]
  BY <1>2 DEF Windows
<1>5. less \in Windows /\ less[i] = r[i] - v /\ \A k \in SR!Positions : k # i => less[k] = r[k]
  BY <1>2 DEF Windows
<1> HIDE DEF mid, less
<1>6. /\ res \in Windows /\ res[i + b] = 0
      /\ \A k \in SR!Positions : k # i + b => res[k] = mid[k]
  BY <1>4 DEF Windows
<1> HIDE DEF res
<1> QED
  BY <1>1, <1>3, <1>4, <1>5, <1>6 DEF v

(* A turn leaves an array of integers and a flag.                          *)
LEMMA WindowStays ==
  ASSUME NEW w \in WindowStates, NEW i \in SR!Positions, NEW b \in 1..6
  PROVE  SR!Window(w, i, b) \in WindowStates
<1>1. w.r \in Windows
  BY DEF WindowStates
<1>2. CASE Passes(w, i, b)
  BY <1>2, WindowCases, Zenon
<1>3. CASE ~ Passes(w, i, b)
  <2>1. i + b \in SR!Positions
    BY <1>3, WindowCases, Zenon
  <2>2. Swallowed(w.r, i, b) \in Windows /\ Lessened(w.r, i, b) \in Windows
    BY <1>1, <2>1, SwallowedDigits
  <2>3. SR!CarryUp(Lessened(w.r, i, b), i + b) \in Windows
    <3> DEFINE r == Lessened(w.r, i, b)
    <3> HIDE DEF r
    <3>1. SR!CarryUp(r, i + b)
            = [k \in SR!Positions |->
                 IF ~ AllSet(r, i + b, k) THEN r[k] ELSE IF r[k] = 0 THEN 1 ELSE 0]
      BY Zenon DEF SR!CarryUp, AllSet
    <3>2. \A k \in SR!Positions : r[k] \in Int
      BY <2>2 DEF Windows, r
    <3>3. \A k \in SR!Positions :
            (IF ~ AllSet(r, i + b, k) THEN r[k] ELSE IF r[k] = 0 THEN 1 ELSE 0) \in Int
      BY <3>2
    <3> QED
      BY <3>1, <3>3 DEF Windows, r
  <2>4. /\ [r |-> Swallowed(w.r, i, b), stop |-> FALSE] \in WindowStates
        /\ [r |-> SR!CarryUp(Lessened(w.r, i, b), i + b), stop |-> FALSE] \in WindowStates
        /\ [r |-> w.r, stop |-> TRUE] \in WindowStates
    BY <1>1, <2>2, <2>3 DEF WindowStates
  <2> QED
    BY <1>3, <2>4, WindowCases, Zenon
<1> QED
  BY <1>2, <1>3

(* The loop over b is a run of its turns. *)
LEMMA WindowsRun ==
  ASSUME NEW i \in SR!Positions, NEW r \in Windows, r[i] # 0, NEW len \in Nat, len = 6
  PROVE  \E run \in [0..len -> WindowStates] :
           /\ run[0] = [r |-> r, stop |-> FALSE]
           /\ run[len].r = SR!SlideFrom(r, i)
           /\ \A k \in 1..len : run[k] = SR!Window(run[k - 1], i, k)
<1> DEFINE base == [r |-> r, stop |-> FALSE]
           last == [T \in SUBSET (1..len) |-> SR!Max(T)]
           step == [vk \in WindowStates \X (1..len) |-> SR!Window(vk[1], i, vk[2])]
           order == << 1, 2, 3, 4, 5, 6 >>
           Folds(it) == it = [T \in SUBSET DOMAIN order |->
                          IF T = {} THEN base
                          ELSE SR!Window(it[T \ {SR!Max(T)}], i, order[SR!Max(T)])]
<1>0. base \in WindowStates
  BY DEF WindowStates
<1>1. DOMAIN order = 1..len /\ \A k \in 1..len : order[k] = k
  OBVIOUS
<1>2. \A v \in WindowStates, k \in 1..len :
        step[<< v, k >>] = SR!Window(v, i, k) /\ step[<< v, k >>] \in WindowStates
  <2>1. \A v \in WindowStates, k \in 1..len : SR!Window(v, i, k) \in WindowStates
    BY WindowStays
  <2> QED
    BY <2>1
<1>3. \A T \in SUBSET (1..len) : last[T] = SR!Max(T)
  OBVIOUS
<1> HIDE DEF base, step, last, order
<1>4. Largest(last, len) /\ Stays(step, WindowStates, len)
  BY <1>2, <1>3, MaxIsLargest DEF Stays
<1>5. \A T \in SUBSET (1..len) : T # {} => last[T] \in 1..len /\ last[T] = SR!Max(T)
  BY <1>3, <1>4 DEF Largest
<1>6. PICK it \in [SUBSET (1..len) -> WindowStates] : Solves(it, 1..len, last, step, base)
  BY <1>0, <1>4, FoldExists, Zenon
<1>7. Folds(it)
  <2>1. \A T \in SUBSET (1..len) : T # {} =>
          it[T] = SR!Window(it[T \ {SR!Max(T)}], i, order[SR!Max(T)])
    <3> TAKE T \in SUBSET (1..len)
    <3> HAVE T # {}
    <3>1. it[T] = step[<< it[T \ {last[T]}], last[T] >>] /\ it[T \ {last[T]}] \in WindowStates
      BY <1>6 DEF Solves
    <3>2. last[T] \in 1..len /\ last[T] = SR!Max(T) /\ order[last[T]] = last[T]
      BY <1>1, <1>5
    <3>3. it[T] = SR!Window(it[T \ {last[T]}], i, last[T])
      BY <1>2, <3>1, <3>2
    <3> QED
      BY <3>2, <3>3
  <2>2. it[{}] = base
    BY <1>6 DEF Solves
  <2>3. it = [T \in SUBSET (1..len) |-> it[T]]
    OBVIOUS
  <2>4. [T \in SUBSET (1..len) |-> it[T]]
          = [T \in SUBSET (1..len) |->
               IF T = {} THEN base ELSE SR!Window(it[T \ {SR!Max(T)}], i, order[SR!Max(T)])]
    BY <2>1, <2>2
  <2> QED
    BY <1>1, <2>3, <2>4, Zenon
<1>8. PICK iter : Folds(iter) /\ SR!SlideFrom(r, i) = iter[DOMAIN order].r
  <2>1. SR!SlideFrom(r, i) = (CHOOSE it2 : Folds(it2))[DOMAIN order].r
    BY Zenon DEF SR!SlideFrom, SR!FoldLeft, SR!MapThenFoldSet, order, base
  <2> HIDE DEF Folds
  <2> QED
    BY <1>7, <2>1, Zenon
<1>9. Follows(iter, len, WindowStates, last, step, base)
  <2>1. \A T \in SUBSET (1..len) : T # {} => iter[T] = SR!Window(iter[T \ {last[T]}], i, last[T])
    <3> TAKE T \in SUBSET (1..len)
    <3> HAVE T # {}
    <3>1. last[T] \in 1..len /\ last[T] = SR!Max(T) /\ order[last[T]] = last[T]
      BY <1>1, <1>5
    <3>2. iter[T] = SR!Window(iter[T \ {SR!Max(T)}], i, order[SR!Max(T)])
      BY <1>1, <1>8
    <3> QED
      BY <3>1, <3>2
  <2>2. iter[{}] = base
    BY <1>8
  <2> QED
    BY <1>2, <1>5, <2>1, <2>2 DEF Follows
<1>10. PICK run : IsRun(run, len, WindowStates, step, base, iter[1..len])
  BY <1>0, <1>4, <1>9, FoldRuns, Zenon
<1>11. \A k \in 1..len : run[k] = SR!Window(run[k - 1], i, k)
  <2> TAKE k \in 1..len
  <2>1. run[k - 1] \in WindowStates
    BY <1>10 DEF IsRun
  <2> QED
    BY <1>2, <1>10, <2>1 DEF IsRun
<1>12. iter[1..len].r = SR!SlideFrom(r, i)
  BY <1>1, <1>8, Zenon
<1>13. run \in [0..len -> WindowStates] /\ run[0] = base /\ run[len] = iter[1..len]
  BY <1>10 DEF IsRun
<1> QED
  BY <1>11, <1>12, <1>13, Zenon DEF base

(* A digit that changes by d changes the value by d times its weight.      *)
LEMMA DigitChanges ==
  ASSUME NEW r \in Windows, NEW g \in Windows, NEW y \in SR!Positions, NEW d \in Int,
         \A k \in SR!Positions : k # y => g[k] = r[k], g[y] = r[y] + d
  PROVE  SR!SlideValue(g) = SR!SlideValue(r) + d * 2^y
<1> DEFINE S == SR!Positions
           f == Weighed2(r)
           h == Weighed2(g)
           P == 2^y
<1>1. IsFiniteSet(S) /\ P \in Int /\ y \in S /\ r[y] \in Int
  BY PositionFacts DEF Windows
<1>2. \A k \in S : f[k] \in Int /\ f[k] = r[k] * 2^k /\ h[k] \in Int /\ h[k] = g[k] * 2^k
  BY SlideIsSum
<1>3. \A k \in S \ {y} : h[k] = f[k]
  BY <1>2
<1>4. f[y] = r[y] * P /\ h[y] = g[y] * P
  BY <1>1, <1>2
<1>5. SR!SlideValue(g) = SumFunctionOnSet(h, S) /\ SR!SlideValue(r) = SumFunctionOnSet(f, S)
  BY SlideIsSum
<1> HIDE DEF f, h, S, P
<1>6. h[y] = f[y] + d * P /\ d * P \in Int
  BY <1>1, <1>4
<1>7. SumFunctionOnSet(h, S) = SumFunctionOnSet(f, S) + d * P
  BY <1>1, <1>2, <1>3, <1>6, SumUpdated
<1> QED
  BY <1>5, <1>7 DEF P

(* Swallowing a bit keeps the value, subtracting it leaves what CarryUp    *)
(* has to add.                                                             *)
LEMMA SwallowedValue ==
  ASSUME NEW r \in Windows, NEW i \in SR!Positions, NEW b \in 1..6, i + b \in SR!Positions,
         r[i + b] = 1
  PROVE  /\ SR!SlideValue(Swallowed(r, i, b)) = SR!SlideValue(r)
         /\ SR!SlideValue(Lessened(r, i, b)) = SR!SlideValue(r) - 2^(i + b)
         /\ SR!SlideValue(r) \in Int
<1> DEFINE v == 2^b
           g == Swallowed(r, i, b)
           less == Lessened(r, i, b)
           mid == [r EXCEPT ![i] = r[i] + v]
<1>1. /\ i \in Nat /\ b \in Nat /\ v \in Nat /\ 2^i \in Nat /\ 2^(i + b) = 2^i * v
      /\ r[i] \in Int /\ i + b # i
  BY PositionFacts, RecodingFacts, PowerSum DEF Windows
<1>2. r[i + b] * 2^b = v
  BY <1>1
<1>3. /\ g \in Windows /\ less \in Windows /\ g[i] = r[i] + v /\ g[i + b] = 0
      /\ less[i] = r[i] - v
      /\ (\A k \in SR!Positions : k # i /\ k # i + b => g[k] = r[k])
      /\ \A k \in SR!Positions : k # i => less[k] = r[k]
  <2>1. /\ g \in Windows /\ less \in Windows /\ g[i] = r[i] + r[i + b] * 2^b /\ g[i + b] = 0
        /\ less[i] = r[i] - r[i + b] * 2^b
        /\ (\A k \in SR!Positions : k # i /\ k # i + b => g[k] = r[k])
        /\ \A k \in SR!Positions : k # i => less[k] = r[k]
    BY SwallowedDigits
  <2> HIDE DEF g, less, v
  <2> QED
    BY <1>2, <2>1
<1>4. mid \in Windows /\ mid[i] = r[i] + v /\ \A k \in SR!Positions : k # i => mid[k] = r[k]
  BY <1>1 DEF Windows
<1>5. 0 - v \in Int /\ -1 \in Int /\ less[i] = r[i] + (0 - v)
  BY <1>1, <1>3
<1>6. g[i + b] = mid[i + b] + (-1) /\ \A k \in SR!Positions : k # i + b => g[k] = mid[k]
  BY <1>1, <1>3, <1>4
<1>7. v \in Int
  BY <1>1
<1> HIDE DEF v, g, less, mid
<1>8. SR!SlideValue(mid) = SR!SlideValue(r) + v * 2^i
  BY <1>4, <1>7, DigitChanges
<1>9. SR!SlideValue(g) = SR!SlideValue(mid) + (-1) * 2^(i + b)
  BY <1>3, <1>4, <1>5, <1>6, DigitChanges
<1>10. SR!SlideValue(less) = SR!SlideValue(r) + (0 - v) * 2^i
  BY <1>3, <1>5, DigitChanges
<1>11. SR!SlideValue(r) \in Int
  BY SlideIsSum
<1>12. 2^(i + b) \in Int /\ v * 2^i = 2^(i + b) /\ (0 - v) * 2^i = 0 - 2^(i + b)
  BY <1>1
<1> QED
  BY <1>8, <1>9, <1>10, <1>11, <1>12 DEF g, less

(* The digit at i after b turns, b at most 3: it has taken in the bits of  *)
(* positions i to i + b.                                                   *)
Grown(r, w, i, b, a) ==
  /\ w \in WindowStates /\ w.stop = FALSE
  /\ 1 <= w.r[i] /\ w.r[i] <= 2^(b + 1) - 1 /\ w.r[i] % 2 = 1
  /\ \A k \in SR!Positions : k < i => w.r[k] = r[k]
  /\ \A k \in SR!Positions : i < k /\ k <= i + b => w.r[k] = 0
  /\ \A k \in SR!Positions : k > i + b => w.r[k] = r[k]
  /\ SR!SlideValue(w.r) = a

(* What is left to do at i: nothing lost below, bits from i on.            *)
Pending(r, i, a) ==
  /\ r \in Windows /\ SR!SlideValue(r) = a
  /\ \A k \in SR!Positions : k >= i => r[k] \in {0, 1}
  /\ 0 - 2^i < Lower(r, i)
  /\ r[i] = 1

(* Turns 1 to 3 swallow the bit they find: the digit stays below 2^(b +    *)
(* 1).                                                                     *)
LEMMA GrownStep ==
  ASSUME NEW i \in SR!Positions, NEW r, NEW a, Pending(r, i, a),
         NEW c \in 0..2, NEW w, Grown(r, w, i, c, a)
  PROVE  Grown(r, SR!Window(w, i, c + 1), i, c + 1, a)
<1> DEFINE b == c + 1
           x == w.r[i]
           u == 2^b
<1>1. /\ i \in Nat /\ c \in Nat /\ b \in 1..6 /\ b \in Nat /\ b <= 3 /\ i + b \in Nat
      /\ i + b > i /\ i + b > i + c
  BY PositionFacts
<1>2. u \in Nat /\ u > 0 /\ u % 2 = 0 /\ u <= 8 /\ 2^(b + 1) = 2 * u
  <2>1. c = 0 \/ c = 1 \/ c = 2
    OBVIOUS
  <2>2. 2^1 = 2 /\ 2^2 = 4 /\ 2^3 = 8 /\ 2^4 = 16
    BY SmallPowers
  <2>3. CASE c = 0
    BY <2>2, <2>3
  <2>4. CASE c = 1
    BY <2>2, <2>4
  <2>5. CASE c = 2
    BY <2>2, <2>5
  <2> QED
    BY <2>1, <2>3, <2>4, <2>5
<1>3. /\ w \in WindowStates /\ w.stop = FALSE /\ w.r \in Windows
      /\ 1 <= x /\ x <= u - 1 /\ x % 2 = 1 /\ x \in Int
      /\ (\A k \in SR!Positions : k < i => w.r[k] = r[k])
      /\ (\A k \in SR!Positions : i < k /\ k <= i + c => w.r[k] = 0)
      /\ (\A k \in SR!Positions : k > i + c => w.r[k] = r[k])
      /\ SR!SlideValue(w.r) = a
  BY DEF Grown, WindowStates, Windows
<1>4. CASE Passes(w, i, b)
  <2>1. SR!Window(w, i, b) = w
    BY <1>1, <1>3, <1>4, WindowCases, Zenon
  <2>2. i + b \in SR!Positions => w.r[i + b] = 0
    BY <1>3, <1>4, PositionFacts DEF Passes
  <2>3. ASSUME NEW k \in SR!Positions, i < k, k <= i + b PROVE w.r[k] = 0
    <3>1. k \in Nat
      BY PositionFacts
    <3>2. k <= i + c \/ k = i + b
      BY <1>1, <2>3, <3>1
    <3> QED
      BY <1>3, <2>2, <2>3, <3>2
  <2>4. ASSUME NEW k \in SR!Positions, k > i + b PROVE w.r[k] = r[k]
    <3>1. k \in Nat
      BY PositionFacts
    <3>2. k > i + c
      BY <1>1, <2>4, <3>1
    <3> QED
      BY <1>3, <3>2
  <2>5. x <= 2^(b + 1) - 1
    BY <1>2, <1>3
  <2> HIDE DEF b, u
  <2>6. Grown(r, w, i, b, a)
    BY <1>3, <2>3, <2>4, <2>5 DEF Grown
  <2> QED
    BY <2>1, <2>6 DEF b
<1>5. CASE ~ Passes(w, i, b)
  <2>1. i + b \in SR!Positions /\ w.r[i + b] # 0
    BY <1>1, <1>3, <1>5, WindowCases, Zenon DEF Passes
  <2>2. w.r[i + b] = 1
    <3>1. r[i + b] \in {0, 1}
      BY <1>1, <2>1 DEF Pending
    <3>2. w.r[i + b] = r[i + b]
      BY <1>1, <1>3, <2>1
    <3> QED
      BY <2>1, <3>1, <3>2
  <2> DEFINE g == Swallowed(w.r, i, b)
             s == [r |-> g, stop |-> FALSE]
  <2>3. w.r[i + b] * 2^b = u
    BY <1>2, <2>2
  <2>4. x + u <= 15
    BY <1>2, <1>3
  <2>5. SR!Window(w, i, b) = s
    <3>1. w.r[i] + w.r[i + b] * 2^b <= 15
      BY <2>3, <2>4
    <3> QED
      BY <1>1, <1>3, <1>5, <3>1, WindowCases, Zenon
  <2>6. /\ g \in Windows /\ g[i] = w.r[i] + w.r[i + b] * 2^b /\ g[i + b] = 0
        /\ \A k \in SR!Positions : k # i /\ k # i + b => g[k] = w.r[k]
    BY <1>1, <1>3, <2>1, SwallowedDigits
  <2>7. SR!SlideValue(g) = a
    BY <1>1, <1>3, <2>1, <2>2, SwallowedValue
  <2> HIDE DEF g, u, b
  <2>8. g[i] = x + u
    BY <2>3, <2>6
  <2> HIDE DEF x
  <2>9. 1 <= g[i] /\ g[i] <= 2^(b + 1) - 1 /\ g[i] % 2 = 1
    <3>1. (x + u) % 2 = 1
      BY <1>2, <1>3
    <3>2. 1 <= x + u /\ x + u <= 2 * u - 1
      BY <1>2, <1>3
    <3> QED
      BY <1>2, <2>8, <3>1, <3>2
  <2>10. ASSUME NEW k \in SR!Positions, k < i PROVE g[k] = r[k]
    <3>1. k # i /\ k # i + b
      BY <1>1, <2>10, PositionFacts
    <3> QED
      BY <1>3, <2>6, <2>10, <3>1
  <2>11. ASSUME NEW k \in SR!Positions, i < k, k <= i + b PROVE g[k] = 0
    <3>1. k \in Nat /\ k # i
      BY <1>1, <2>11, PositionFacts
    <3>2. k <= i + c \/ k = i + b
      BY <1>1, <2>11, <3>1 DEF b
    <3>3. CASE k = i + b
      BY <2>6, <3>3
    <3>4. CASE k # i + b
      BY <1>3, <2>6, <2>11, <3>1, <3>2, <3>4
    <3> QED
      BY <3>3, <3>4
  <2>12. ASSUME NEW k \in SR!Positions, k > i + b PROVE g[k] = r[k]
    <3>1. k # i /\ k # i + b /\ k > i + c
      BY <1>1, <2>12, PositionFacts
    <3> QED
      BY <1>3, <2>6, <3>1
  <2>13. s \in WindowStates /\ s.r = g /\ s.stop = FALSE
    BY <2>6 DEF WindowStates
  <2> HIDE DEF s
  <2>14. Grown(r, s, i, b, a)
    BY <2>7, <2>9, <2>10, <2>11, <2>12, <2>13 DEF Grown
  <2> QED
    BY <2>5, <2>14 DEF b
<1> QED
  BY <1>4, <1>5

(* The digit at i when no further turn changes it: odd, within the table,  *)
(* three zeros above it, bits from there on.                               *)
Settled(r, w, i, a) ==
  /\ w \in WindowStates
  /\ 0 - 15 <= w.r[i] /\ w.r[i] <= 15 /\ w.r[i] % 2 = 1
  /\ \A k \in SR!Positions : k < i => w.r[k] = r[k]
  /\ \A k \in SR!Positions : i < k /\ k <= i + 3 => w.r[k] = 0
  /\ \A k \in SR!Positions : k > i => w.r[k] \in {0, 1}
  /\ SR!SlideValue(w.r) = a

(* The fourth turn swallows nothing more: a bit at i + 4 is subtracted and *)
(* carried up.  Were the carry lost, every digit above i would be 0 and    *)
(* the value below -2^(Bits - 1), which the digits up to i cannot weigh.   *)
LEMMA FourthTurn ==
  ASSUME NEW i \in SR!Positions, NEW r, NEW a \in Nat, a < 2^(SR!Bits - 1), Pending(r, i, a),
         NEW w, Grown(r, w, i, 3, a)
  PROVE  Settled(r, SR!Window(w, i, 4), i, a)
<1> DEFINE x == w.r[i]
           from == i + 4
           T == 2^i
           H == 2^(SR!Bits - 1)
<1>1. /\ i \in Nat /\ 4 \in 1..6 /\ from \in Nat /\ from > i /\ SR!Bits \in Nat
      /\ T \in Nat /\ T > 0 /\ H \in Nat /\ 2^SR!Bits = 2 * H
  BY PositionFacts, RecodingFacts
<1>2. 2^4 = 16 /\ 2^from = 16 * T
  <2>1. 2^from = 2^i * 2^4
    BY <1>1, PowerSum
  <2> QED
    BY <1>1, <2>1, SmallPowers
<1>3. /\ w \in WindowStates /\ w.stop = FALSE /\ w.r \in Windows
      /\ 1 <= x /\ x <= 15 /\ x % 2 = 1 /\ x \in Int
      /\ (\A k \in SR!Positions : k < i => w.r[k] = r[k])
      /\ (\A k \in SR!Positions : i < k /\ k <= i + 3 => w.r[k] = 0)
      /\ (\A k \in SR!Positions : k > i + 3 => w.r[k] = r[k])
      /\ SR!SlideValue(w.r) = a
  BY <1>2 DEF Grown, WindowStates, Windows
<1>4. r \in Windows /\ (\A k \in SR!Positions : k >= i => r[k] \in {0, 1}) /\ 0 - T < Lower(r, i)
  BY DEF Pending
<1>5. \A k \in SR!Positions : k > i => w.r[k] \in {0, 1}
  <2> TAKE k \in SR!Positions
  <2> HAVE k > i
  <2>1. k \in Nat
    BY PositionFacts
  <2>2. k <= i + 3 \/ k > i + 3
    BY <1>1, <2>1
  <2>3. r[k] \in {0, 1}
    BY <1>1, <1>4, <2>1
  <2> QED
    BY <1>3, <2>2, <2>3
<1> HIDE DEF T, H, from
<1>6. CASE Passes(w, i, 4)
  <2>1. SR!Window(w, i, 4) = w
    BY <1>1, <1>3, <1>6, WindowCases, Zenon
  <2>2. Settled(r, w, i, a)
    BY <1>3, <1>5 DEF Settled
  <2> QED
    BY <2>1, <2>2
<1>7. CASE ~ Passes(w, i, 4)
  <2> DEFINE less == Lessened(w.r, i, 4)
             g == SR!CarryUp(less, from)
             s == [r |-> g, stop |-> FALSE]
             y == x - 16
  <2>1. from \in SR!Positions /\ w.r[from] # 0
    BY <1>1, <1>3, <1>7, WindowCases, Zenon DEF Passes, from
  <2>2. w.r[from] = 1
    BY <1>1, <1>5, <2>1
  <2>3. w.r[from] * 2^4 = 16
    BY <1>2, <2>2
  <2>4. SR!Window(w, i, 4) = s
    <3>1. ~ (w.r[i] + w.r[i + 4] * 2^4 <= 15) /\ w.r[i] - w.r[i + 4] * 2^4 >= -15
      BY <1>3, <2>3 DEF from
    <3> QED
      BY <1>1, <1>3, <1>7, <3>1, WindowCases, Zenon DEF from
  <2>5. /\ less \in Windows /\ less[i] = w.r[i] - w.r[i + 4] * 2^4
        /\ \A k \in SR!Positions : k # i => less[k] = w.r[k]
    BY <1>1, <1>3, <2>1, SwallowedDigits DEF from
  <2>6. SR!SlideValue(less) = a - 2^from
    BY <1>1, <1>3, <2>1, <2>2, SwallowedValue DEF from
  <2> HIDE DEF less
  <2>7. less[i] = y
    BY <2>3, <2>5 DEF from
  <2>8. \A k \in SR!Positions : k >= from => less[k] \in {0, 1}
    <3> TAKE k \in SR!Positions
    <3> HAVE k >= from
    <3>1. k > i /\ k # i
      BY <1>1, PositionFacts
    <3> QED
      BY <1>5, <2>5, <3>1
  <2>9. /\ g \in Windows
        /\ \A k \in SR!Positions :
             g[k] = IF ~ AllSet(less, from, k) THEN less[k] ELSE IF less[k] = 0 THEN 1 ELSE 0
    BY <2>1, <2>5, <2>8, CarryUpDigits
  <2>10. \/ SR!SlideValue(g) = SR!SlideValue(less) + 2^from
         \/ /\ SR!SlideValue(g) = SR!SlideValue(less) + 2^from - 2^SR!Bits
            /\ \A k \in SR!Positions : k >= from => g[k] = 0
    BY <2>1, <2>5, <2>8, CarryUpExact
  <2> HIDE DEF g
  <2>11. \A k \in SR!Positions : k < from => g[k] = less[k]
    <3> TAKE k \in SR!Positions
    <3> HAVE k < from
    <3>1. ~ AllSet(less, from, k)
      BY <1>1, PositionFacts, AllSetGrows
    <3> QED
      BY <2>9, <3>1
  <2>12. g[i] = y
    BY <1>1, <2>7, <2>11
  <2>13. \A k \in SR!Positions : k < i => g[k] = r[k]
    <3> TAKE k \in SR!Positions
    <3> HAVE k < i
    <3>1. k < from /\ k # i
      BY <1>1, PositionFacts
    <3> QED
      BY <1>3, <2>5, <2>11, <3>1
  <2>14. \A k \in SR!Positions : i < k /\ k <= i + 3 => g[k] = 0
    <3> TAKE k \in SR!Positions
    <3> HAVE i < k /\ k <= i + 3
    <3>1. k < from /\ k # i
      BY <1>1, PositionFacts DEF from
    <3> QED
      BY <1>3, <2>5, <2>11, <3>1
  <2>15. \A k \in SR!Positions : k > i => g[k] \in {0, 1}
    <3> TAKE k \in SR!Positions
    <3> HAVE k > i
    <3>1. k # i /\ k \in Nat
      BY <1>1, PositionFacts
    <3>2. less[k] \in {0, 1}
      BY <1>5, <2>5, <3>1
    <3> QED
      BY <2>9, <3>2
  <2>16. ASSUME \A k \in SR!Positions : k >= from => g[k] = 0
         PROVE  SR!SlideValue(g) # a - 2^SR!Bits
    <3>1. \A k \in SR!Positions : k > i => g[k] = 0
      <4> TAKE k \in SR!Positions
      <4> HAVE k > i
      <4>1. k \in Nat
        BY PositionFacts
      <4>2. k <= i + 3 \/ k >= from
        BY <1>1, <4>1 DEF from
      <4> QED
        BY <2>14, <2>16, <4>2
    <3>2. SR!SlideValue(g) = Lower(g, i) + g[i] * T
      BY <2>9, <3>1, ValueIsLower DEF T
    <3>3. Lower(g, i) = Lower(r, i) /\ Lower(r, i) \in Int
      BY <1>4, <2>9, <2>13, LowerDepends, LowerGrows
    <3>4. y \in Int /\ 0 - 15 <= y
      BY <1>3
    <3>5. 0 - 15 * T <= y * T /\ y * T \in Int
      BY <1>1, <3>4, SMT
    <3>6. 0 - 16 * T < SR!SlideValue(g)
      BY <1>1, <1>4, <2>12, <3>2, <3>3, <3>5
    <3>7. 16 * T <= H
      <4>1. PICK d \in Nat : from + d = SR!Bits - 1
        <5>1. (SR!Bits - 1) - from \in Nat /\ from + ((SR!Bits - 1) - from) = SR!Bits - 1
          BY <1>1, <2>1, PositionFacts
        <5> QED
          BY <5>1
      <4>2. H = 2^from * 2^d /\ 2^d \in Nat /\ 2^d > 0
        <5>1. 2^(from + d) = 2^from * 2^d
          BY <1>1, PowerSum
        <5>2. H = 2^(from + d)
          BY <4>1 DEF H
        <5> QED
          BY <5>1, <5>2, RecodingFacts
      <4> DEFINE D == 2^d
                 F == 2^from
      <4>3. F \in Nat /\ D \in Nat /\ D > 0 /\ H = F * D /\ F = 16 * T
        BY <1>1, <1>2, <4>2
      <4> HIDE DEF D, F
      <4>4. F * D >= F
        BY <4>3, SMT
      <4> QED
        BY <4>3, <4>4
    <3> QED
      BY <1>1, <3>6, <3>7 DEF H
  <2>17. SR!SlideValue(g) = a
    BY <1>1, <1>2, <2>6, <2>10, <2>16
  <2>18. 0 - 15 <= g[i] /\ g[i] <= 15 /\ g[i] % 2 = 1
    <3>1. 0 - 15 <= y /\ y <= 15 /\ y % 2 = 1
      BY <1>3
    <3> QED
      BY <2>12, <3>1
  <2>19. s \in WindowStates /\ s.r = g
    BY <2>9 DEF WindowStates
  <2> HIDE DEF s
  <2>20. Settled(r, s, i, a)
    BY <2>13, <2>14, <2>15, <2>17, <2>18, <2>19 DEF Settled
  <2> QED
    BY <2>4, <2>20
<1> QED
  BY <1>6, <1>7

(* The two last turns find no bit, or stop.                                *)
LEMMA LaterTurn ==
  ASSUME NEW i \in SR!Positions, NEW r, NEW a, NEW b \in 5..6,
         NEW w, Settled(r, w, i, a)
  PROVE  Settled(r, SR!Window(w, i, b), i, a)
<1> DEFINE x == w.r[i]
<1>1. i \in Nat /\ b \in 1..6 /\ i + b > i /\ b \in Nat
  BY PositionFacts
<1>2. 2^b \in Nat /\ 2^b >= 32
  <2>1. b = 5 \/ b = 6
    BY <1>1
  <2>2. 2^5 = 32 /\ 2^6 = 64
    BY SmallPowers
  <2>3. CASE b = 5
    BY <2>2, <2>3
  <2>4. CASE b = 6
    BY <2>2, <2>4
  <2> QED
    BY <2>1, <2>3, <2>4
<1>3. /\ w \in WindowStates /\ w.r \in Windows /\ x \in Int
      /\ 0 - 15 <= x /\ x <= 15
      /\ \A k \in SR!Positions : k > i => w.r[k] \in {0, 1}
  BY DEF Settled, WindowStates, Windows
<1>4. CASE Passes(w, i, b)
  BY <1>1, <1>3, <1>4, WindowCases, Zenon
<1>5. CASE ~ Passes(w, i, b)
  <2>1. i + b \in SR!Positions /\ w.r[i + b] # 0
    BY <1>1, <1>3, <1>5, WindowCases, Zenon DEF Passes
  <2>2. w.r[i + b] = 1
    BY <1>1, <1>3, <2>1
  <2>3. w.r[i + b] * 2^b = 2^b
    BY <1>2, <2>2
  <2>4. ~ (w.r[i] + w.r[i + b] * 2^b <= 15) /\ ~ (w.r[i] - w.r[i + b] * 2^b >= -15)
    BY <1>2, <1>3, <2>3
  <2> DEFINE s == [r |-> w.r, stop |-> TRUE]
  <2>5. SR!Window(w, i, b) = s
    BY <1>1, <1>3, <1>5, <2>4, WindowCases, Zenon
  <2>6. s \in WindowStates /\ s.r = w.r
    BY <1>3 DEF WindowStates
  <2> HIDE DEF s
  <2>7. Settled(r, s, i, a)
    BY <2>6 DEF Settled
  <2> QED
    BY <2>5, <2>7
<1> QED
  BY <1>4, <1>5

(* The array when the loop over i reaches i: its value is the scalar, the  *)
(* digits below i are final, bits are left from i on; and the digits below *)
(* are not so negative that a carry could run out of the top.              *)
Slid(r, i, a) ==
  /\ r \in Windows /\ SR!SlideValue(r) = a
  /\ \A k \in SR!Positions : k < i =>
       r[k] = 0 \/ (0 - 15 <= r[k] /\ r[k] <= 15 /\ r[k] % 2 = 1)
  /\ \A k \in SR!Positions : k >= i => r[k] \in {0, 1}
  /\ \E m \in 0..3 : /\ \A k \in SR!Positions : i <= k /\ k < i + m => r[k] = 0
                     /\ 0 - 2^(i + m) < Lower(r, i)

(* A turn of the loop over i settles the digit at i.                       *)
LEMMA SlideFromStep ==
  ASSUME NEW i \in SR!Positions, NEW r, NEW a \in Nat, a < 2^(SR!Bits - 1), Slid(r, i, a)
  PROVE  Slid(SR!SlideFrom(r, i), i + 1, a)
<1> DEFINE T == 2^i
<1>1. i \in Nat /\ i + 1 \in Nat /\ T \in Nat /\ T > 0 /\ 2^(i + 1) = 2 * T
  BY PositionFacts, RecodingFacts
<1>2. /\ r \in Windows /\ SR!SlideValue(r) = a
      /\ (\A k \in SR!Positions : k < i =>
            r[k] = 0 \/ (0 - 15 <= r[k] /\ r[k] <= 15 /\ r[k] % 2 = 1))
      /\ (\A k \in SR!Positions : k >= i => r[k] \in {0, 1})
  BY DEF Slid
<1>3. PICK m \in 0..3 : /\ \A k \in SR!Positions : i <= k /\ k < i + m => r[k] = 0
                        /\ 0 - 2^(i + m) < Lower(r, i)
  BY DEF Slid
<1>4. Lower(r, i) \in Int /\ Lower(r, i + 1) = Lower(r, i) + r[i] * T
  BY <1>2, LowerGrows
<1>5. r[i] \in {0, 1}
  BY <1>1, <1>2
<1>6. CASE r[i] = 0
  <2>1. SR!SlideFrom(r, i) = r
    BY <1>6 DEF SR!SlideFrom
  <2>2. Lower(r, i + 1) = Lower(r, i)
    BY <1>1, <1>4, <1>6
  <2>3. ASSUME NEW k \in SR!Positions, k < i + 1
        PROVE  r[k] = 0 \/ (0 - 15 <= r[k] /\ r[k] <= 15 /\ r[k] % 2 = 1)
    <3>1. k < i \/ k = i
      BY <1>1, <2>3, PositionFacts
    <3> QED
      BY <1>2, <1>6, <3>1
  <2>4. ASSUME NEW k \in SR!Positions, k >= i + 1 PROVE r[k] \in {0, 1}
    <3>1. k >= i
      BY <1>1, <2>4, PositionFacts
    <3> QED
      BY <1>2, <3>1
  <2>5. \E q \in 0..3 :
          /\ \A k \in SR!Positions : i + 1 <= k /\ k < (i + 1) + q => r[k] = 0
          /\ 0 - 2^((i + 1) + q) < Lower(r, i + 1)
    <3>1. CASE m = 0
      <4>1. (i + 1) + 0 = i + 1 /\ i + m = i /\ 0 \in 0..3
        BY <1>1, <3>1
      <4>2. \A k \in SR!Positions : ~ (i + 1 <= k /\ k < i + 1)
        BY <1>1, PositionFacts
      <4>3. 0 - T < Lower(r, i)
        BY <1>3, <4>1
      <4>4. 0 - 2 * T < Lower(r, i)
        BY <1>1, <1>4, <4>3
      <4>5. 0 - 2^(i + 1) < Lower(r, i + 1)
        BY <1>1, <2>2, <4>4
      <4> QED
        BY <4>1, <4>2, <4>5
    <3>2. CASE m # 0
      <4>1. m - 1 \in 0..3 /\ (i + 1) + (m - 1) = i + m
        BY <1>1, <3>2
      <4>2. \A k \in SR!Positions : i + 1 <= k /\ k < i + m => r[k] = 0
        <5> TAKE k \in SR!Positions
        <5> HAVE i + 1 <= k /\ k < i + m
        <5>1. i <= k
          BY <1>1, PositionFacts
        <5> QED
          BY <1>3, <5>1
      <4>3. 0 - 2^(i + m) < Lower(r, i + 1)
        BY <1>3, <2>2
      <4> QED
        BY <4>1, <4>2, <4>3
    <3> QED
      BY <3>1, <3>2
  <2>6. Slid(r, i + 1, a)
    BY <1>2, <2>3, <2>4, <2>5 DEF Slid
  <2> QED
    BY <2>1, <2>6
<1>7. CASE r[i] = 1
  <2>1. m = 0 /\ 0 - T < Lower(r, i)
    <3>1. ~ (m > 0)
      BY <1>1, <1>3, <1>7
    <3>2. m = 0 /\ i + m = i
      BY <1>1, <3>1
    <3> QED
      BY <1>3, <3>2
  <2>2. Pending(r, i, a)
    BY <1>2, <1>7, <2>1 DEF Pending
  <2> DEFINE base == [r |-> r, stop |-> FALSE]
  <2>3. PICK len \in Nat : len = 6
    OBVIOUS
  <2>4. base \in WindowStates /\ base.r = r /\ base.stop = FALSE
    BY <1>2 DEF WindowStates
  <2> HIDE DEF base
  <2>5. PICK run \in [0..len -> WindowStates] :
           /\ run[0] = base
           /\ run[len].r = SR!SlideFrom(r, i)
           /\ \A k \in 1..len : run[k] = SR!Window(run[k - 1], i, k)
    <3>1. r[i] # 0
      BY <1>7
    <3> QED
      BY <1>2, <2>3, <3>1, WindowsRun, Zenon DEF base
  <2>7. /\ run[1] = SR!Window(run[0], i, 1) /\ run[2] = SR!Window(run[1], i, 2)
        /\ run[3] = SR!Window(run[2], i, 3) /\ run[4] = SR!Window(run[3], i, 4)
        /\ run[5] = SR!Window(run[4], i, 5) /\ run[6] = SR!Window(run[5], i, 6)
    <3>1. /\ 1 \in 1..len /\ 2 \in 1..len /\ 3 \in 1..len /\ 4 \in 1..len /\ 5 \in 1..len /\ 6 \in 1..len
          /\ 1 - 1 = 0 /\ 2 - 1 = 1 /\ 3 - 1 = 2 /\ 4 - 1 = 3 /\ 5 - 1 = 4 /\ 6 - 1 = 5
      BY <2>3
    <3>2. \A k \in 1..len : run[k] = SR!Window(run[k - 1], i, k)
      BY <2>5
    <3> QED
      BY <3>1, <3>2
  <2>8. Grown(r, run[0], i, 0, a)
    <3>1. ASSUME NEW k \in SR!Positions PROVE ~ (i < k /\ k <= i + 0)
      BY <1>1, PositionFacts
    <3>2. 2^(0 + 1) = 2 /\ 1 % 2 = 1
      BY SmallPowers
    <3>3. run[0].r = r /\ run[0].stop = FALSE /\ run[0] \in WindowStates
      BY <2>4, <2>5
    <3>4. \A k \in SR!Positions : k < i => run[0].r[k] = r[k]
      BY <3>3
    <3>5. \A k \in SR!Positions : k > i + 0 => run[0].r[k] = r[k]
      BY <3>3
    <3>6. 1 <= run[0].r[i] /\ run[0].r[i] <= 2^(0 + 1) - 1 /\ run[0].r[i] % 2 = 1
      BY <1>7, <3>2, <3>3
    <3>7. SR!SlideValue(run[0].r) = a
      BY <1>2, <3>3
    <3> QED
      BY <3>1, <3>3, <3>4, <3>5, <3>6, <3>7 DEF Grown
  <2>9. Grown(r, run[1], i, 1, a)
    <3>1. Grown(r, SR!Window(run[0], i, 0 + 1), i, 0 + 1, a)
      BY <2>2, <2>8, GrownStep
    <3> QED
      BY <2>7, <3>1
  <2>10. Grown(r, run[2], i, 2, a)
    <3>1. Grown(r, SR!Window(run[1], i, 1 + 1), i, 1 + 1, a)
      BY <2>2, <2>9, GrownStep
    <3> QED
      BY <2>7, <3>1
  <2>11. Grown(r, run[3], i, 3, a)
    <3>1. Grown(r, SR!Window(run[2], i, 2 + 1), i, 2 + 1, a)
      BY <2>2, <2>10, GrownStep
    <3> QED
      BY <2>7, <3>1
  <2>12. Settled(r, run[4], i, a)
    BY <2>2, <2>7, <2>11, FourthTurn
  <2>13. Settled(r, run[5], i, a)
    BY <2>7, <2>12, LaterTurn
  <2>14. Settled(r, run[6], i, a)
    BY <2>7, <2>13, LaterTurn
  <2> DEFINE g == run[6].r
  <2>15. /\ g \in Windows /\ g[i] \in Int /\ 0 - 15 <= g[i] /\ g[i] <= 15 /\ g[i] % 2 = 1
         /\ (\A k \in SR!Positions : k < i => g[k] = r[k])
         /\ (\A k \in SR!Positions : i < k /\ k <= i + 3 => g[k] = 0)
         /\ (\A k \in SR!Positions : k > i => g[k] \in {0, 1})
         /\ SR!SlideValue(g) = a
    BY <2>14 DEF Settled, WindowStates, Windows
  <2> HIDE DEF g
  <2>16. ASSUME NEW k \in SR!Positions, k < i + 1
         PROVE  g[k] = 0 \/ (0 - 15 <= g[k] /\ g[k] <= 15 /\ g[k] % 2 = 1)
    <3>1. k < i \/ k = i
      BY <1>1, <2>16, PositionFacts
    <3>2. CASE k < i
      BY <1>2, <2>15, <3>2
    <3>3. CASE k = i
      BY <2>15, <3>3
    <3> QED
      BY <3>1, <3>2, <3>3
  <2>17. ASSUME NEW k \in SR!Positions, k >= i + 1 PROVE g[k] \in {0, 1}
    <3>1. k > i
      BY <1>1, <2>17, PositionFacts
    <3> QED
      BY <2>15, <3>1
  <2>18. ASSUME NEW k \in SR!Positions, i + 1 <= k, k < (i + 1) + 3 PROVE g[k] = 0
    <3>1. i < k /\ k <= i + 3
      BY <1>1, <2>18, PositionFacts
    <3> QED
      BY <2>15, <3>1
  <2>19. 0 - 2^((i + 1) + 3) < Lower(g, i + 1)
    <3>1. 2^((i + 1) + 3) = 16 * T
      <4>1. (i + 1) + 3 = i + 4 /\ 4 \in Nat
        BY <1>1
      <4>2. 2^(i + 4) = 2^i * 2^4
        BY <1>1, <4>1, PowerSum
      <4>3. 2^(i + 4) = T * 16
        BY <4>2, SmallPowers
      <4> HIDE DEF T
      <4> QED
        BY <1>1, <4>1, <4>3
    <3>2. Lower(g, i) = Lower(r, i)
      BY <1>2, <2>15, LowerDepends
    <3>3. Lower(g, i + 1) = Lower(g, i) + g[i] * T
      BY <2>15, LowerGrows
    <3> HIDE DEF T
    <3>4. 0 - 15 * T <= g[i] * T /\ g[i] * T \in Int
      BY <1>1, <2>15, SMT
    <3> QED
      BY <1>1, <1>4, <2>1, <3>1, <3>2, <3>3, <3>4
  <2>20. Slid(g, i + 1, a)
    BY <2>15, <2>16, <2>17, <2>18, <2>19 DEF Slid
  <2> QED
    BY <2>3, <2>5, <2>20 DEF g
<1> QED
  BY <1>5, <1>6, <1>7

(* The array stays an array of integers.                                   *)
LEMMA SlideFromStays ==
  ASSUME NEW r \in Windows, NEW i \in SR!Positions
  PROVE  SR!SlideFrom(r, i) \in Windows
<1>1. CASE r[i] = 0
  BY <1>1 DEF SR!SlideFrom
<1>2. CASE r[i] # 0
  <2>1. PICK len \in Nat : len = 6
    OBVIOUS
  <2>2. PICK run \in [0..len -> WindowStates] : run[len].r = SR!SlideFrom(r, i)
    BY <1>2, <2>1, WindowsRun, Zenon
  <2>3. run[len] \in WindowStates
    BY <2>1
  <2> QED
    BY <2>2, <2>3 DEF WindowStates
<1> QED
  BY <1>1, <1>2

(* slide is a run of its loop over i.                                      *)
LEMMA SlideRun ==
  ASSUME NEW base \in Windows, NEW len \in Nat, len = SR!Bits
  PROVE  \E run \in [0..len -> Windows] :
           /\ run[0] = base
           /\ run[len] = SR!FoldLeft(SR!SlideFrom, base, SR!UpTo(SR!Bits))
           /\ \A k \in 1..len : run[k] = SR!SlideFrom(run[k - 1], k - 1)
<1> DEFINE last == [T \in SUBSET (1..len) |-> SR!Max(T)]
           step == [vk \in Windows \X (1..len) |-> SR!SlideFrom(vk[1], vk[2] - 1)]
           order == SR!UpTo(SR!Bits)
           Folds(it) == it = [T \in SUBSET DOMAIN order |->
                          IF T = {} THEN base
                          ELSE SR!SlideFrom(it[T \ {SR!Max(T)}], order[SR!Max(T)])]
<1>1. DOMAIN order = 1..len /\ \A k \in 1..len : order[k] = k - 1
  BY DEF SR!UpTo
<1>2. \A v \in Windows, k \in 1..len :
        step[<< v, k >>] = SR!SlideFrom(v, k - 1) /\ step[<< v, k >>] \in Windows
  <2>1. \A k \in 1..len : k - 1 \in 0..(len - 1)
    OBVIOUS
  <2>2. \A v \in Windows, j \in 0..(len - 1) : SR!SlideFrom(v, j) \in Windows
    BY SlideFromStays, PositionFacts
  <2> QED
    BY <2>1, <2>2
<1>3. \A T \in SUBSET (1..len) : last[T] = SR!Max(T)
  OBVIOUS
<1> HIDE DEF step, last, order
<1>4. Largest(last, len) /\ Stays(step, Windows, len)
  BY <1>2, <1>3, MaxIsLargest DEF Stays
<1>5. \A T \in SUBSET (1..len) : T # {} => last[T] \in 1..len /\ last[T] = SR!Max(T)
  BY <1>3, <1>4 DEF Largest
<1>6. PICK it \in [SUBSET (1..len) -> Windows] : Solves(it, 1..len, last, step, base)
  BY <1>4, FoldExists, Zenon
<1>7. Folds(it)
  <2>1. \A T \in SUBSET (1..len) : T # {} =>
          it[T] = SR!SlideFrom(it[T \ {SR!Max(T)}], order[SR!Max(T)])
    <3> TAKE T \in SUBSET (1..len)
    <3> HAVE T # {}
    <3>1. it[T] = step[<< it[T \ {last[T]}], last[T] >>] /\ it[T \ {last[T]}] \in Windows
      BY <1>6 DEF Solves
    <3>2. last[T] \in 1..len /\ last[T] = SR!Max(T) /\ order[last[T]] = last[T] - 1
      BY <1>1, <1>5
    <3>3. it[T] = SR!SlideFrom(it[T \ {last[T]}], last[T] - 1)
      BY <1>2, <3>1, <3>2
    <3> QED
      BY <3>2, <3>3
  <2>2. it[{}] = base
    BY <1>6 DEF Solves
  <2>3. it = [T \in SUBSET (1..len) |-> it[T]]
    OBVIOUS
  <2>4. [T \in SUBSET (1..len) |-> it[T]]
          = [T \in SUBSET (1..len) |->
               IF T = {} THEN base ELSE SR!SlideFrom(it[T \ {SR!Max(T)}], order[SR!Max(T)])]
    BY <2>1, <2>2
  <2> QED
    BY <1>1, <2>3, <2>4, Zenon
<1>8. PICK iter : Folds(iter) /\ SR!FoldLeft(SR!SlideFrom, base, order) = iter[DOMAIN order]
  <2>1. SR!FoldLeft(SR!SlideFrom, base, order) = (CHOOSE i : Folds(i))[DOMAIN order]
    BY Zenon DEF SR!FoldLeft, SR!MapThenFoldSet
  <2> HIDE DEF Folds
  <2> QED
    BY <1>7, <2>1, Zenon
<1>9. Follows(iter, len, Windows, last, step, base)
  <2>1. \A T \in SUBSET (1..len) : T # {} => iter[T] = SR!SlideFrom(iter[T \ {last[T]}], last[T] - 1)
    <3> TAKE T \in SUBSET (1..len)
    <3> HAVE T # {}
    <3>1. last[T] \in 1..len /\ last[T] = SR!Max(T) /\ order[last[T]] = last[T] - 1
      BY <1>1, <1>5
    <3>2. iter[T] = SR!SlideFrom(iter[T \ {SR!Max(T)}], order[SR!Max(T)])
      BY <1>1, <1>8
    <3> QED
      BY <3>1, <3>2
  <2>2. iter[{}] = base
    BY <1>8
  <2> QED
    BY <1>2, <1>5, <2>1, <2>2 DEF Follows
<1>10. PICK run : IsRun(run, len, Windows, step, base, iter[1..len])
  BY <1>4, <1>9, FoldRuns, Zenon
<1>11. \A k \in 1..len : run[k] = SR!SlideFrom(run[k - 1], k - 1)
  <2> TAKE k \in 1..len
  <2>1. run[k - 1] \in Windows
    BY <1>10 DEF IsRun
  <2> QED
    BY <1>2, <1>10, <2>1 DEF IsRun
<1>12. iter[1..len] = SR!FoldLeft(SR!SlideFrom, base, SR!UpTo(SR!Bits))
  BY <1>1, <1>8, Zenon DEF order
<1>13. run \in [0..len -> Windows] /\ run[0] = base /\ run[len] = iter[1..len]
  BY <1>10 DEF IsRun
<1> QED
  BY <1>11, <1>12, <1>13, Zenon

(* slide: the digits weigh as much as the scalar, each is 0 or odd and     *)
(* within the table.                                                       *)
LEMMA SlideExact ==
  ASSUME NEW a \in Scalar, SR!InRange(a)
  PROVE  /\ SR!slide(a) \in Windows /\ SR!SlideValue(SR!slide(a)) = a
         /\ \A k \in SR!Positions :
              SR!slide(a)[k] = 0 \/ (SR!slide(a)[k] \in -15..15 /\ SR!slide(a)[k] % 2 = 1)
<1> DEFINE len == SR!Bits
           base == SR!BitsOf(a)
<1>1. len \in Nat /\ a \in Nat /\ a < 2^(len - 1) /\ SR!Positions = 0..(len - 1)
  BY RecodingFacts, PositionFacts, ScalarIsOwnRemainder, InRangeIsHalf
<1>2. /\ base \in Windows /\ (\A k \in SR!Positions : base[k] \in {0, 1})
      /\ SR!SlideValue(base) = a
  BY BitsWeigh
<1> HIDE DEF base
<1>3. PICK run \in [0..len -> Windows] :
           /\ run[0] = base
           /\ run[len] = SR!FoldLeft(SR!SlideFrom, base, SR!UpTo(SR!Bits))
           /\ \A k \in 1..len : run[k] = SR!SlideFrom(run[k - 1], k - 1)
  BY <1>1, <1>2, SlideRun, Zenon
<1>4. SR!slide(a) = run[len]
  BY <1>3, Zenon DEF SR!slide, base
<1> DEFINE Good(i) == i <= len => Slid(run[i], i, a)
           G == {i \in Nat : Good(i)}
<1>5. 0 \in G
  <2>1. \A k \in SR!Positions : k >= 0 /\ ~ (k < 0) /\ ~ (0 <= k /\ k < 0 + 0)
    BY PositionFacts
  <2>2. Lower(base, 0) = 0
    <3>1. 0..(0 - 1) = {}
      OBVIOUS
    <3> QED
      BY <3>1, SumOfNone DEF Lower
  <2>3. 0 - 2^(0 + 0) < Lower(base, 0) /\ 0 \in 0..3
    BY <2>2, SmallPowers
  <2>4. Slid(base, 0, a)
    BY <1>2, <2>1, <2>3 DEF Slid
  <2> QED
    BY <1>3, <2>4
<1>6. ASSUME NEW i \in Nat, i \in G PROVE i + 1 \in G
  <2>1. CASE i + 1 <= len
    <3>1. i + 1 \in 1..len /\ (i + 1) - 1 = i /\ i \in SR!Positions /\ i <= len
      BY <1>1, <2>1
    <3>2. run[i + 1] = SR!SlideFrom(run[i], i)
      BY <1>3, <3>1
    <3>3. Slid(run[i], i, a)
      BY <1>6, <3>1
    <3>4. Slid(run[i + 1], i + 1, a)
      BY <1>1, <3>1, <3>2, <3>3, SlideFromStep
    <3> QED
      BY <3>4
  <2>2. CASE ~ (i + 1 <= len)
    BY <2>2
  <2> QED
    BY <2>1, <2>2
<1>7. Nat \subseteq G
  <2> HIDE DEF G
  <2> QED
    BY <1>5, <1>6, NaturalInduction
<1>8. Slid(run[len], len, a)
  BY <1>1, <1>7
<1> DEFINE r == run[len]
<1>9. /\ r \in Windows /\ SR!SlideValue(r) = a
      /\ \A k \in SR!Positions : k < len =>
           r[k] = 0 \/ (0 - 15 <= r[k] /\ r[k] <= 15 /\ r[k] % 2 = 1)
  BY <1>8 DEF Slid
<1> HIDE DEF r
<1>10. \A x \in Int : 0 - 15 <= x /\ x <= 15 => x \in -15..15
  OBVIOUS
<1>11. \A k \in SR!Positions : k < len /\ r[k] \in Int
  BY <1>9, PositionFacts DEF Windows
<1> QED
  BY <1>4, <1>9, <1>10, <1>11 DEF r

(* Whatever scalar of 255 bits is recoded, the digits weigh as much as it, *)
(* and each is in the table that is indexed with it.                       *)
THEOREM RecodingsAreExact == Spec => []RecodingExact
<1> USE DEF Called, In, Out, Idle, RecodingExact
<1>1. Init => RecodingExact
  BY DEF Init
<1>2. ASSUME RecodingExact, [Next]_vars PROVE RecodingExact'
  <2>1. CASE RunRecoding
    <3>1. PICK a \in RecodedScalars :
            job' = << "recoding", << a >>,
                      [slide |-> SR!slide(a), radix |-> SR!Radix16(a), base |-> SR!Radix16Base(a)] >>
      BY <2>1 DEF RunRecoding, Run
    <3> DEFINE out == [slide |-> SR!slide(a), radix |-> SR!Radix16(a), base |-> SR!Radix16Base(a)]
    <3>2. job'[1] = "recoding" /\ job'[2][1] = a /\ job'[3] = out
      BY <3>1
    <3>3. out.slide = SR!slide(a) /\ out.radix = SR!Radix16(a) /\ out.base = SR!Radix16Base(a)
      OBVIOUS
    <3>4. a \in Scalar
      BY ArgumentsAssumption DEF Scalar
    <3> HIDE DEF out
    <3>5. ASSUME SR!InRange(a)
          PROVE  /\ SR!SlideValue(out.slide) = a
                 /\ \A i \in DOMAIN out.slide :
                      out.slide[i] = 0 \/ (out.slide[i] \in -15..15 /\ out.slide[i] % 2 = 1)
                 /\ \A e \in {out.radix, out.base} :
                      SR!RadixValue(e) = a /\ \A k \in DOMAIN e : e[k] \in -8..8
      <4>1. DOMAIN out.slide = SR!Positions
        BY <3>3, <3>4, <3>5, SlideExact DEF Windows
      <4>2. /\ SR!SlideValue(out.slide) = a
            /\ \A i \in DOMAIN out.slide :
                 out.slide[i] = 0 \/ (out.slide[i] \in -15..15 /\ out.slide[i] % 2 = 1)
        BY <3>3, <3>4, <3>5, <4>1, SlideExact, Zenon
      <4>3. SR!RadixValue(out.radix) = a /\ \A k \in DOMAIN out.radix : out.radix[k] \in -8..8
        BY <3>3, <3>4, <3>5, Radix16Exact, Zenon
      <4>4. SR!RadixValue(out.base) = a /\ \A k \in DOMAIN out.base : out.base[k] \in -8..8
        BY <3>3, <3>4, <3>5, Radix16BaseExact, Zenon
      <4> QED
        BY <4>2, <4>3, <4>4, Zenon
    <3>6. SR!InRange(job'[2][1]) => SR!InRange(a)
      BY <3>2
    <3> QED
      BY <3>2, <3>5, <3>6, Zenon
  <2>2. CASE RunScalar \/ RunPower \/ RunVarint \/ RunCodec \/ RunSecretbox \/ RunHash
    BY <2>2, CallNames
  <2>3. CASE job' = job
    BY <1>2, <2>3
  <2>4. CASE job' = Idle \/ job' = << "field", << >>, << >> >>
    BY <2>4
  <2> QED
    BY <1>2, <2>1, <2>2, <2>3, <2>4, CallStep
<1> QED
  BY <1>1, <1>2, PTL DEF Spec
=============================================================================
