---------------------------- MODULE ChaChaBlock ----------------------------
(***************************************************************************)
(* chacha_block of chacha8.c at its real size: the 64 bytes of keystream   *)
(* for a key of 32 bytes, a nonce of 8 and a 64-bit block counter.         *)
(***************************************************************************)
EXTENDS Words32

sigma == << 101, 120, 112, 97, 110, 100, 32, 51, 50, 45, 98, 121, 116, 101, 32, 107 >>

U8TO32_LITTLE(bytes, at) == Word(bytes[at + 4] * 256 + bytes[at + 3],
                                 bytes[at + 2] * 256 + bytes[at + 1])

(* j0 to j15.  counter is a sequence of two words, the lower first.        *)
Input(key, nonce, counter) ==
  Evaluated([k \in 0..15 |->
    CASE k < 4 -> U8TO32_LITTLE(sigma, 4 * k)
      [] k \in 4..11 -> U8TO32_LITTLE(key, 4 * (k - 4))
      [] k \in 12..13 -> counter[k - 11]
      [] OTHER -> U8TO32_LITTLE(nonce, 4 * (k - 14))])

Mixed(x, a, b, d, amount) ==    \* a = PLUS(a, b); d = ROTATE(XOR(d, a), amount)
  LET sum == Plus(x[a], x[b])
  IN  [x EXCEPT ![a] = sum, ![d] = RotateLeft(Xor(@, sum), amount)]
QUARTERROUND(x, a, b, c, d) ==
  Mixed(Mixed(Mixed(Mixed(x, a, b, d, 16), c, d, b, 12), a, b, d, 8), c, d, b, 7)

ColumnsTwice(x) ==   \* mutant: the diagonals are left out
  LET Q(y, k) == QUARTERROUND(y, k, k + 4, k + 8, k + 12)
  IN  FoldLeft(Q, x, << 0, 1, 2, 3, 0, 1, 2, 3 >>)
DoubleRound(x) ==
  LET Q(y, k) == QUARTERROUND(y, k[1], k[2], k[3], k[4])
  IN  FoldLeft(Q, x, << << 0, 4, 8, 12 >>, << 1, 5, 9, 13 >>,
                        << 2, 6, 10, 14 >>, << 3, 7, 11, 15 >>,
                        << 0, 5, 10, 15 >>, << 1, 6, 11, 12 >>,
                        << 2, 7, 8, 13 >>, << 3, 4, 9, 14 >> >>)

ByteOf(w, k) == LET half == IF k < 2 THEN Low(w) ELSE High(w)
                IN  IF k % 2 = 0 THEN half % 256 ELSE half \div 256

chacha_block(key, nonce, counter, rounds) ==
  LET j == Input(key, nonce, counter)
      x[i \in 0..(rounds \div 2)] == IF i = 0 THEN j ELSE Evaluated(DoubleRound(x[i - 1]))
      out == Evaluated([k \in DOMAIN j |-> Plus(x[rounds \div 2][k], j[k])])
  IN  [k \in 1..64 |-> ByteOf(out[(k - 1) \div 4], (k - 1) % 4)]
-----------------------------------------------------------------------------
(* The cipher as its author describes it: a 4 by 4 matrix; a round adds,   *)
(* xors and rotates whole rows, and every second one works on rows turned  *)
(* by their index, which are turned back after it.                         *)
Rows(x) == Evaluated([r \in 0..3 |-> Evaluated([c \in 0..3 |-> x[4 * r + c]])])
Turned(row, by) == Evaluated([c \in 0..3 |-> row[(c + by) % 4]])
RowMix(m, a, b, d, amount) ==
  LET sum == Evaluated([c \in 0..3 |-> Plus(m[a][c], m[b][c])])
  IN  [m EXCEPT ![a] = sum,
                ![d] = Evaluated([c \in 0..3 |-> RotateLeft(Xor(@[c], sum[c]), amount)])]
RowRound(m) ==
  RowMix(RowMix(RowMix(RowMix(m, 0, 1, 3, 16), 2, 3, 1, 12), 0, 1, 3, 8), 2, 3, 1, 7)
MatrixDoubleRound(x) ==
  LET m == RowRound(Rows(x))
      diagonal == RowRound(Evaluated([r \in 0..3 |-> Turned(m[r], r)]))
  IN  Evaluated([k \in 0..15 |-> Turned(diagonal[k \div 4], 4 - (k \div 4))[k % 4]])
=============================================================================
