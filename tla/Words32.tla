------------------------------ MODULE Words32 ------------------------------
(***************************************************************************)
(* 32-bit words as the sets of their one bits, as SHA-1 and ChaCha use     *)
(* them; a byte is a number below 256.  TLC's own integers have no         *)
(* unsigned 32-bit range and no bit operations.                            *)
(***************************************************************************)
EXTENDS Integers, FiniteSetsExt, SequencesExt

Bit == 0..31
Xor(a, b) == (a \ b) \cup (b \ a)
RotateLeft(value, amount) == {(b + amount) % 32 : b \in value}
Evaluated(f) == << >> @@ f      \* f, with TLC computing each value once
Eager(F(_), x) ==               \* F(x), with TLC computing x first
  CHOOSE y \in {F(v) : v \in {x}} : TRUE

Low(w) == MapThenSumSet(LAMBDA b : 2^b, w \cap 0..15)     \* the two halves of a word
High(w) == MapThenSumSet(LAMBDA b : 2^(b - 16), w \cap 16..31)
BitsOf(k) == {b \in 0..15 : (k \div 2^b) % 2 = 1}
Word(high, low) == BitsOf(low) \cup {b + 16 : b \in BitsOf(high)}
Plus(v, w) ==                   \* addition modulo 2^32
  LET low == Low(v) + Low(w)
  IN  Word((High(v) + High(w) + low \div 65536) % 65536, low % 65536)
=============================================================================
