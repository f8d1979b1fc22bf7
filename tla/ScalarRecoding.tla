--------------------------- MODULE ScalarRecoding ---------------------------
(***************************************************************************)
(* How the scalar multiplications of crypto-ops.c cut a scalar into signed *)
(* digits: slide (sliding windows of odd digits), and two recodings to     *)
(* radix 16, one in ge_scalarmult, byte by byte, and one in                *)
(* ge_scalarmult_base, nibble by nibble.  A scalar is a string of Bytes    *)
(* bytes, 32 in the program.                                               *)
(***************************************************************************)
EXTENDS Integers, SequencesExt, Functions

CONSTANT Bytes

ASSUME BytesAssumption == Bytes \in Nat \ {0}

Bits == 8 * Bytes
Positions == 0..(Bits - 1)
Byte(a, i) == (a \div 2^(8 * i)) % 256
UpTo(n) == [k \in 1..n |-> k - 1]    \* 0, 1, ..., n - 1
-----------------------------------------------------------------------------
(* slide: r[i] becomes an odd digit that swallows up to six higher bits.   *)
(* A bit that would make it too large is subtracted instead, and one is    *)
(* carried into the first zero above, if there is one.                     *)
BitsOf(a) == [i \in Positions |-> (a \div 2^i) % 2]

CarryStays(r, from) == [r EXCEPT ![from] = 0]   \* mutant: nothing is carried up
CarryUp(r, from) ==
  LET Reaches(k) == k >= from /\ \A j \in from..(k - 1) : r[j] # 0
  IN  [k \in Positions |-> IF ~Reaches(k) THEN r[k] ELSE IF r[k] = 0 THEN 1 ELSE 0]

(* One turn of the loop over b; stop is its break.                         *)
Window(w, i, b) ==
  LET r == w.r
      bit == r[i + b] * 2^b
  IN  IF w.stop \/ i + b >= Bits \/ r[i + b] = 0 THEN w
      ELSE IF r[i] + bit <= 15
           THEN [r |-> [[r EXCEPT ![i] = @ + bit] EXCEPT ![i + b] = 0], stop |-> FALSE]
      ELSE IF r[i] - bit >= -15
           THEN [r |-> CarryUp([r EXCEPT ![i] = @ - bit], i + b), stop |-> FALSE]
      ELSE [r |-> r, stop |-> TRUE]

SlideFrom(r, i) ==
  IF r[i] = 0 THEN r
  ELSE FoldLeft(LAMBDA w, b : Window(w, i, b), [r |-> r, stop |-> FALSE],
                << 1, 2, 3, 4, 5, 6 >>).r
slide(a) == FoldLeft(SlideFrom, BitsOf(a), UpTo(Bits))
-----------------------------------------------------------------------------
(* ge_scalarmult: two digits from each byte, and a carry in between; the   *)
(* last digit keeps its carry.                                             *)
ByteDigits(s, i) ==
  LET sum == s.carry + Byte(s.a, i)
      carry2 == (sum + 8) \div 16
      carry == IF i < Bytes - 1 THEN (carry2 + 8) \div 16 ELSE 0
  IN  [a |-> s.a, carry |-> carry, e |-> s.e \o << sum - carry2 * 16, carry2 - carry * 16 >>]
Radix16(a) == FoldLeft(ByteDigits, [a |-> a, carry |-> 0, e |-> << >>], UpTo(Bytes)).e

(* ge_scalarmult_base: the nibbles first, then the carries.                *)
Nibbles(a) == [k \in 1..(2 * Bytes) |-> (a \div 2^(4 * (k - 1))) % 16]
NibbleCarry(e, i) ==
  LET carry == (e[i] + 8) \div 16
  IN  [[e EXCEPT ![i] = @ - carry * 16] EXCEPT ![i + 1] = @ + carry]
Radix16Base(a) == FoldLeft(NibbleCarry, Nibbles(a), [k \in 1..(2 * Bytes - 1) |-> k])
-----------------------------------------------------------------------------
(* What the digits mean, and the precondition of both radix-16 functions   *)
(* (a[31] <= 127), under which slide loses no carry either.                *)
SlideValue(r) == SumFunction([i \in DOMAIN r |-> r[i] * 2^i])
RadixValue(e) == SumFunction([k \in DOMAIN e |-> e[k] * 2^(4 * (k - 1))])
InRange(a) == Byte(a, Bytes - 1) <= 127
=============================================================================
