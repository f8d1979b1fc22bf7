---------------------------- MODULE ScalarLimbs ----------------------------
(***************************************************************************)
(* The scalar functions of crypto-ops.c (sc_reduce, sc_reduce32, sc_add,   *)
(* sc_sub, sc_mulsub, sc_check, sc_isnonzero): numbers modulo the group    *)
(* order l = 2^252 + c in limbs of 21 bits.  A limb from 12 on is folded   *)
(* down with the signed limbs of -c.                                       *)
(*                                                                         *)
(* n limbs of B bits and h = n/2 signed limbs Fold with                    *)
(* l = 2^(n B) - sum Fold[j] 2^(B j): the program has n = 12, B = 21 and   *)
(* Fold = 666643, 470296, 654183, -997805, 136657, -683901.  Narrower      *)
(* limbs keep the products within TLC's 32-bit integers.                   *)
(***************************************************************************)
EXTENDS Integers, FiniteSetsExt, SequencesExt, Functions

CONSTANTS
  n, B,
  Fold,       \* [0..(n \div 2 - 1) -> Int]
  ExtraBits,  \* a scalar of 32 bytes has n B + ExtraBits bits (4 in the code)
  WordBits, Words, WordsOfL  \* the 32-bit words of l that sc_check compares

h == n \div 2
l == 2^(n * B) - SumFunction([j \in 0..(h - 1) |-> Fold[j] * 2^(B * j)])
Strings == 0..(2^(n * B + ExtraBits) - 1)   \* 32 bytes, as a number
Doubles == 0..(2^(2 * (n * B + ExtraBits)) - 1)   \* 64 bytes

(* What the constants must satisfy; the modules that give values assume it.*)
ScalarsAssumption ==
  /\ n \in Nat /\ n % 2 = 0 /\ n > 0 /\ B \in Nat \ {0} /\ ExtraBits \in Nat \ {0}
  /\ Fold \in [0..(h - 1) -> -(2^(B - 1))..(2^(B - 1))]
  /\ 2^(n * B) < l /\ l < 2^(n * B) + 2^(h * B)
  /\ Words \in Nat /\ WordBits \in Nat \ {0} /\ n * B + ExtraBits <= WordBits * Words
  /\ WordsOfL \in [0..(Words - 1) -> 0..(2^WordBits - 1)]
  /\ l = SumFunction([i \in 0..(Words - 1) |-> WordsOfL[i] * 2^(WordBits * i)])

(* All limbs s0 ... s23; the functions on 32 bytes leave the upper ones 0. *)
Limbs(s, top) ==   \* the limbs of a string, the one at top unmasked
  [i \in 0..(2 * n - 1) |->
     IF i > top THEN 0
     ELSE IF i = top THEN s \div 2^(B * i) ELSE (s \div 2^(B * i)) % 2^B]
Load(s) == Limbs(s, n - 1)
-----------------------------------------------------------------------------
Moved(s, i, carry) == [[s EXCEPT ![i] = @ - carry * 2^B] EXCEPT ![i + 1] = @ + carry]
CarryRoundDown(s, i) == Moved(s, i, s[i] \div 2^B)   \* mutant: floor instead of nearest
CarryRound(s, i) == Moved(s, i, (s[i] + 2^(B - 1)) \div 2^B)
CarryFloor(s, i) == Moved(s, i, s[i] \div 2^B)

(* Limb i is worth Fold times 2^(B (i - n)); it is spent.                  *)
FoldDown(s, i) ==
  [j \in DOMAIN s |-> IF j = i THEN 0
                      ELSE IF j - (i - n) \in DOMAIN Fold THEN s[j] + s[i] * Fold[j - (i - n)]
                      ELSE s[j]]

From(a, b, step) == [k \in 1..((b - a) \div step + 1) |-> a + (k - 1) * step]
Down(a, b) == Reverse(From(b, a, 1))

(* Even limbs first, then odd ones, up to limb b.                          *)
CarryEvenOdd(s, a, b) ==
  FoldLeft(CarryRound, FoldLeft(CarryRound, s, From(a, b, 2)), From(a + 1, b, 2))

(* The tail every function shares: s12 is folded after a rounding chain,   *)
(* then twice more after chains that leave limbs of exactly B bits; the    *)
(* second of them stops before limb n - 1.                                 *)
Normalised(s) ==
  LET rounded == FoldDown(CarryEvenOdd(s, 0, n - 1), n)
      once    == FoldDown(FoldLeft(CarryFloor, rounded, From(0, n - 1, 1)), n)
  IN  FoldLeft(CarryFloor, once, From(0, n - 2, 1))

(* s[0..31]: the limbs' bits side by side, cut at 32 bytes.                *)
Pack(s) == SumFunction([i \in 0..(n - 1) |-> s[i] * 2^(B * i)]) % 2^(n * B + ExtraBits)

(* From 24 limbs to 12: s23 ... s18, carries 6 ... 16, s17 ... s12.        *)
Halved(s) ==
  LET upper == FoldLeft(FoldDown, s, Down(2 * n - 1, n + h))
  IN  FoldLeft(FoldDown, CarryEvenOdd(upper, h, n + h - 2), Down(n + h - 1, n))
-----------------------------------------------------------------------------
sc_0 == 0
sc_reduce(s) == Pack(Normalised(Halved(Limbs(s, 2 * n - 1))))
sc_reduce32(s) == Pack(Normalised(Load(s)))

sc_add(a, b) ==
  LET x == Load(a) y == Load(b) IN Pack(Normalised([i \in DOMAIN x |-> x[i] + y[i]]))
sc_sub(a, b) ==
  LET x == Load(a) y == Load(b) IN Pack(Normalised([i \in DOMAIN x |-> x[i] - y[i]]))

Products(a, b) ==
  [k \in 0..(2 * n - 1) |->
     SumFunction([i \in 0..(n - 1) |-> IF k - i \in 0..(n - 1) THEN a[i] * b[k - i] ELSE 0])]
MulSubLimbs(a, b, c) ==
  LET ab == Products(Load(a), Load(b))
      z  == Load(c)
  IN  CarryEvenOdd([k \in DOMAIN z |-> z[k] - ab[k]], 0, 2 * n - 2)
sc_mulsub(a, b, c) == Pack(Normalised(Halved(MulSubLimbs(a, b, c))))

(* The words are compared from the most significant one, by their weights; *)
(* 0 means accepted, -1 refused.                                           *)
signum(a) == IF a > 0 THEN 1 ELSE IF a < 0 THEN -1 ELSE 0
Word(s, i) == (s \div 2^(WordBits * i)) % 2^WordBits
sc_check(s) ==
  SumFunction([i \in 0..(Words - 1) |-> signum(WordsOfL[i] - Word(s, i)) * 2^i]) \div 2^Words

sc_isnonzero(s) == s # 0
=============================================================================
