----------------------------- MODULE FieldLimbs -----------------------------
(***************************************************************************)
(* The field functions of crypto-ops.c on limb vectors.  An element of     *)
(* GF(2^255-19) is ten int32 limbs that are alternately 26 and 25 bits     *)
(* wide and may be negative; a product is reduced by a chain of carries    *)
(* whose last one wraps around with a factor of 19.                        *)
(*                                                                         *)
(* N limbs, W+1 and W bits wide, with 2^K - C in place of 2^255 - 19: the  *)
(* program has N = 10, W = 25 and C = 19.  TLC's integers have 32 bits, so *)
(* it checks fewer and narrower limbs; the order of the carries, the wrap  *)
(* around, the doubled odd products and the rounding are those of the code.*)
(***************************************************************************)
EXTENDS Integers, FiniteSetsExt, SequencesExt, Functions

CONSTANTS
  N, W, C,  \* number of limbs (even), width of the odd ones, 2^K - p
  Cut       \* Cut[i] is the first bit loaded into limb i, Cut[N] = K

Limb == 0..(N - 1)
Width(i) == IF i % 2 = 0 THEN W + 1 ELSE W
Pos(i) == W * i + (i + 1) \div 2     \* the weight of limb i is 2^Pos(i)
K == Pos(N)
p == 2^K - C

ASSUME LimbsAssumption ==
  /\ N \in Nat \ {0} /\ N % 2 = 0 /\ W \in Nat \ {0} /\ C \in Nat \ {0}
  /\ 4 * C < 2^(W - 1)           \* what the proof above fe_tobytes needs
  /\ Cut \in [0..N -> Nat] /\ Cut[0] = 0 /\ Cut[N] = K
  /\ \A i \in Limb : Pos(i) <= Cut[i] /\ Cut[i] < Cut[i + 1]

(* The integer a vector of limbs stands for, and the element of the field. *)
Integer(f) == SumFunction([i \in Limb |-> f[i] * 2^Pos(i)])
Element(f) == Integer(f) % p
-----------------------------------------------------------------------------
fe_0 == [i \in Limb |-> 0]
fe_1 == [i \in Limb |-> IF i = 0 THEN 1 ELSE 0]
fe_add(f, g) == [i \in Limb |-> f[i] + g[i]]
fe_sub(f, g) == [i \in Limb |-> f[i] - g[i]]
fe_neg(f) == [i \in Limb |-> -f[i]]
fe_copy(f) == f
fe_cmov(f, g, b) == [i \in Limb |-> IF b = 1 THEN g[i] ELSE f[i]]

(* carry_i: limb i is brought to its width, rounding to the nearest, and   *)
(* the rest goes to the next limb; what leaves the last limb is worth C.   *)
CarryNoWrap(h, i) ==   \* mutant: what leaves the last limb is worth 1
  LET carry == (h[i] + 2^(Width(i) - 1)) \div 2^Width(i)
  IN  [h EXCEPT ![i] = @ - carry * 2^Width(i), ![(i + 1) % N] = @ + carry]

Carry(h, i) ==
  LET carry == (h[i] + 2^(Width(i) - 1)) \div 2^Width(i)
  IN  [h EXCEPT ![i] = @ - carry * 2^Width(i),
                ![(i + 1) % N] = @ + (IF i = N - 1 THEN C * carry ELSE carry)]

(* 0,4, 1,5, 2,6, 3,7, 4,8, 9, 0: two interleaved chains and the wrap.     *)
MulCarryOrder ==
  [n \in 1..N |-> IF n % 2 = 1 THEN n \div 2 ELSE n \div 2 + N \div 2 - 2]
    \o << N - 1, 0 >>
MulCarries(h) == FoldLeft(Carry, h, MulCarryOrder)

(* h_k sums the f_i g_j with i + j = k or k + N; the latter are worth C,   *)
(* and a product of two odd limbs counts twice, as its weight is one more. *)
Doubled(i, j) == IF i % 2 = 1 /\ j % 2 = 1 THEN 2 ELSE 1
MulProducts(f, g) ==
  [k \in Limb |->
     SumFunction([i \in Limb |->
       IF i <= k THEN Doubled(i, k - i) * f[i] * g[k - i]
                 ELSE Doubled(i, k - i + N) * C * f[i] * g[k - i + N]])]
fe_mul(f, g) == MulCarries(MulProducts(f, g))

(* The squares compute f_i f_j and f_j f_i once, as twice one of them.     *)
Paired(i, j) == CASE i < j -> 2 [] i = j -> 1 [] i > j -> 0
SquareProducts(f) ==
  [k \in Limb |->
     SumFunction([i \in Limb |->
       LET j == (k - i) % N
       IN  Paired(i, j) * Doubled(i, j) * (IF i + j >= N THEN C ELSE 1) * f[i] * f[j]])]
fe_sq(f) == MulCarries(SquareProducts(f))
fe_sq2(f) == LET h == SquareProducts(f) IN MulCarries(fe_add(h, h))
-----------------------------------------------------------------------------
(* The load: load_3 and load_4 take bytes s[Cut[i]..], so a limb starts out*)
(* with more bits than its width; the odd limbs are carried first.         *)
LoadLimbs(s) ==
  [i \in Limb |-> ((s \div 2^Cut[i]) % 2^(Cut[i + 1] - Cut[i])) * 2^(Cut[i] - Pos(i))]
LoadCarryOrder ==
  << N - 1 >> \o [n \in 1..(N \div 2 - 1) |-> 2 * n - 1] \o [n \in 1..(N \div 2) |-> 2 * n - 2]
fe_frombytes(s) == FoldLeft(Carry, LoadLimbs(s), LoadCarryOrder)

(* fe_tobytes: first q = floor(h / p), then h - p q with every limb in its *)
(* width; the carry out of the last limb is dropped.                       *)
QuotientOfTop(h) == (C * h[N - 1] + 2^(W - 1)) \div 2^W
Quotient(h) ==
  FoldLeft(LAMBDA q, i : (h[i] + q) \div 2^Width(i), QuotientOfTop(h), [n \in 1..N |-> n - 1])

CarryDown(h, i) ==
  LET carry == h[i] \div 2^Width(i)
  IN  [j \in Limb |-> CASE j = i -> h[j] - carry * 2^Width(i)
                        [] j = i + 1 -> h[j] + carry
                        [] OTHER -> h[j]]
NoQuotient(h) == h   \* mutant: the multiple of p is not taken out
TakeOut(h) == [h EXCEPT ![0] = @ + C * Quotient(h)]
ReducedLimbs(h) == FoldLeft(CarryDown, TakeOut(h), [n \in 1..N |-> n - 1])
fe_tobytes(h) == Integer(ReducedLimbs(h))   \* the limbs' bits side by side

fe_isnegative(f) == fe_tobytes(f) % 2
fe_isnonzero(f) == fe_tobytes(f) # 0
=============================================================================
