------------------------------- MODULE Keccak -------------------------------
(***************************************************************************)
(* keccakf and keccak of keccak.c and cn_fast_hash of hash.c, at their real*)
(* size: 25 lanes of 64 bits, a lane being the set of its one bits, a      *)
(* string of bytes a sequence of numbers below 256.                        *)
(***************************************************************************)
EXTENDS Integers, SequencesExt

LaneBits == 64
Lanes == 0..24
Bit == 0..(LaneBits - 1)
Xor(a, b) == (a \ b) \cup (b \ a)
ROTL64(x, y) == {(b + y) % LaneBits : b \in x}
Evaluated(f) == << >> @@ f      \* f, with TLC computing each value once

keccakf_rndc ==                 \* the round constants, as sets of bits
  << {0}, {1,7,15}, {1,3,7,15,63}, {15,31,63}, {0,1,3,7,15}, {0,31}, {0,7,15,31,63},
     {0,3,15,63}, {1,3,7}, {3,7}, {0,3,15,31}, {1,3,31}, {0,1,3,7,15,31},
     {0,1,3,7,63}, {0,3,7,15,63}, {0,1,15,63}, {1,15,63}, {7,63}, {1,3,15},
     {1,3,31,63}, {0,7,15,31,63}, {7,15,63}, {0,31}, {3,15,31,63} >>
keccakf_rotc == << 1, 3, 6, 10, 15, 21, 28, 36, 45, 55, 2, 14,
                   27, 41, 56, 8, 25, 43, 62, 18, 39, 61, 20, 44 >>
keccakf_piln == << 10, 7, 11, 17, 18, 3, 5, 16, 8, 21, 24, 4,
                   15, 23, 19, 13, 12, 2, 20, 14, 22, 9, 6, 1 >>

Theta(st) ==
  LET bc == Evaluated([i \in 0..4 |->
              Xor(Xor(Xor(Xor(st[i], st[i + 5]), st[i + 10]), st[i + 15]), st[i + 20])])
      t == Evaluated([i \in 0..4 |-> Xor(bc[(i + 4) % 5], ROTL64(bc[(i + 1) % 5], 1))])
  IN  Evaluated([j \in Lanes |-> Xor(st[j], t[j % 5])])

(* The loop over i: lane piln[i] gets, rotated, what the lane before it on *)
(* the cycle held; the cycle starts at lane 1 and never meets lane 0.      *)
RhoPi(st) ==
  Evaluated([j \in Lanes |->
    IF j = 0 THEN st[0]
    ELSE LET i == CHOOSE i \in 1..24 : keccakf_piln[i] = j
         IN  ROTL64(st[IF i = 1 THEN 1 ELSE keccakf_piln[i - 1]], keccakf_rotc[i])])

ChiNeighbour(st) ==   \* mutant: the complement is taken of the second neighbour
  Evaluated([j \in Lanes |->
    LET At(k) == st[(j - (j % 5)) + ((j + k) % 5)]
    IN  Xor(st[j], At(1) \cap (Bit \ At(2)))])

Chi(st) ==
  Evaluated([j \in Lanes |->
    LET At(k) == st[(j - (j % 5)) + ((j + k) % 5)]
    IN  Xor(st[j], (Bit \ At(1)) \cap At(2))])

Round(st, round) ==
  LET chi == Chi(RhoPi(Theta(st))) IN [chi EXCEPT ![0] = Xor(@, keccakf_rndc[round])]
keccakf(st) == FoldLeft(Round, st, [round \in 1..24 |-> round])
-----------------------------------------------------------------------------
(* keccak with mdlen = 200, the only length in use: blocks of rsiz = 136   *)
(* bytes; the last one is padded in temp with 1, zeros and a final 0x80.   *)
rsiz == 136

Padded(rest) ==
  LET temp == [k \in 1..rsiz |-> IF k <= Len(rest) THEN rest[k]
                                 ELSE IF k = Len(rest) + 1 THEN 1 ELSE 0]
  IN  [temp EXCEPT ![rsiz] = IF @ < 128 THEN @ + 128 ELSE @]

Blocks(in) ==
  LET full == Len(in) \div rsiz
  IN  [b \in 1..full |-> SubSeq(in, rsiz * (b - 1) + 1, rsiz * b)]
        \o << Padded(SubSeq(in, rsiz * full + 1, Len(in))) >>

LaneOf(bytes, i) ==   \* eight bytes, the first of them lowest
  {b \in Bit : (bytes[8 * i + (b \div 8) + 1] \div 2^(b % 8)) % 2 = 1}
Absorb(st, block) ==
  keccakf(Evaluated([i \in Lanes |->
            IF i < rsiz \div 8 THEN Xor(st[i], LaneOf(block, i)) ELSE st[i]]))
keccak1600(in) == FoldLeft(Absorb, [i \in Lanes |-> {}], Blocks(in))

HASH_SIZE == 32
ByteOf(st, k) ==
  LET lane == st[k \div 8]
      Weight(b) == IF 8 * (k % 8) + b \in lane THEN 2^b ELSE 0
  IN  Weight(0) + Weight(1) + Weight(2) + Weight(3)
        + Weight(4) + Weight(5) + Weight(6) + Weight(7)
cn_fast_hash(data) == LET st == keccak1600(data) IN [k \in 1..HASH_SIZE |-> ByteOf(st, k - 1)]
-----------------------------------------------------------------------------
(* The standard's definitions (FIPS 202), lane (x, y) being number x + 5 y:*)
(* offsets and positions from the walk (x, y) -> (y, 2x + 3y) that starts  *)
(* at (1, 0), constants from the LFSR x^8 + x^6 + x^5 + x^4 + 1, padding   *)
(* by 1, zeros and a last bit 1.                                           *)
Walk[t \in 0..24] ==
  IF t = 0 THEN << 1, 0 >>
  ELSE LET v == Walk[t - 1] IN << v[2], (2 * v[1] + 3 * v[2]) % 5 >>
StandardOffset(t) == (((t + 1) * (t + 2)) \div 2) % LaneBits
StandardLane(t) == Walk[t][1] + 5 * Walk[t][2]

(* Bit j + 7 round of the register's output is bit 2^j - 1 of the constant.*)
Output(t) == IF 2^(t % 7) - 1 \in keccakf_rndc[(t \div 7) + 1] THEN 1 ELSE 0
ConstantsAreStandard ==
  /\ \A round \in 1..24 : keccakf_rndc[round] \subseteq {2^j - 1 : j \in 0..6}
  /\ \A t \in 0..7 : Output(t) = (IF t = 0 THEN 1 ELSE 0)
  /\ \A t \in 8..(7 * 24 - 1) :
       Output(t) = (Output(t - 2) + Output(t - 3) + Output(t - 4) + Output(t - 8)) % 2

TablesAreStandard ==
  /\ \A t \in 0..23 : /\ keccakf_rotc[t + 1] = StandardOffset(t)
                      /\ keccakf_piln[t + 1] = StandardLane(t + 1)
  /\ ConstantsAreStandard

StandardRound(A, round) ==
  LET Lane(x, y) == (x % 5) + 5 * (y % 5)
      Sums == Evaluated([x \in 0..4 |-> {b \in Bit :
             (Cardinality({y \in 0..4 : b \in A[Lane(x, y)]})) % 2 = 1}])
      T == Evaluated([j \in Lanes |->
             Xor(A[j], Xor(Sums[(j + 4) % 5], ROTL64(Sums[(j + 1) % 5], 1)))])
      P == Evaluated([j \in Lanes |->
             IF j = 0 THEN T[0]
             ELSE LET t == CHOOSE t \in 0..23 : StandardLane(t + 1) = j
                  IN  ROTL64(T[StandardLane(t)], StandardOffset(t))])
  IN  Evaluated([j \in Lanes |->
        LET x == j % 5
            y == j \div 5
            chi == Xor(P[j], P[Lane(x + 2, y)] \ P[Lane(x + 1, y)])
        IN  IF j = 0 THEN Xor(chi, keccakf_rndc[round + 1]) ELSE chi])

Joined(blocks) == FoldLeft(LAMBDA all, block : all \o block, << >>, blocks)
IsPadded(in, padded) ==   \* padded is in, then 1 0* 1 in bits, shortest possible
  /\ Len(padded) % rsiz = 0 /\ Len(padded) > Len(in) /\ Len(padded) <= Len(in) + rsiz
  /\ SubSeq(padded, 1, Len(in)) = in
  /\ \A k \in (Len(in) + 1)..Len(padded) :
       padded[k] = (IF k = Len(in) + 1 THEN 1 ELSE 0) + (IF k = Len(padded) THEN 128 ELSE 0)
=============================================================================
