-------------------------------- MODULE Sha1 --------------------------------
(***************************************************************************)
(* Hmac::sha1 of Hmac.cpp at its real size.                                *)
(***************************************************************************)
EXTENDS Words32

leftRotate(value, amount) == RotateLeft(value, amount)

Initial == [a |-> Word(26437, 8961), b |-> Word(61389, 43913), c |-> Word(39098, 56574),
            d |-> Word(4146, 21622), e |-> Word(50130, 57840)]
k1 == Word(23170, 31129)
k2 == Word(28377, 60321)
k3 == Word(36635, 48348)
k4 == Word(51810, 49622)
-----------------------------------------------------------------------------
(* The message, 0x80, zeros up to 56 modulo 64, and the length in bits as  *)
(* eight bytes, the highest first.                                         *)
BitLength(len, i) == IF i > 3 THEN 0 ELSE ((8 * len) \div 256^i) % 256
ZerosShort(len) == 55 - (len % 64)   \* mutant: no further block when the length has no room
ZerosAfter(len) ==
  CHOOSE z \in 0..63 : (len + 1 + z) % 64 = 56
Padded(data) ==
  data \o << 128 >> \o [z \in 1..ZerosAfter(Len(data)) |-> 0]
       \o [k \in 1..8 |-> BitLength(Len(data), 8 - k)]

(* The 80 words of a chunk, the first of which is bytes[at + 1].           *)
ByteBits(byte, shift) == {b + shift : b \in {c \in 0..7 : (byte \div 2^c) % 2 = 1}}
Extended(w, i) ==
  Append(w, leftRotate(Xor(Xor(w[i - 3], w[i - 8]), Xor(w[i - 14], w[i - 16])), 1))
Schedule(bytes, at) ==
  LET Loaded(i) == UNION {ByteBits(bytes[at + 4 * (i - 1) + n], 32 - 8 * n) : n \in 1..4}
      w[i \in 16..80] == IF i = 16 THEN Evaluated([j \in 1..16 |-> Loaded(j)])
                                   ELSE Extended(w[i - 1], i)
  IN  w[80]

Choose(b, c, d) == (b \cap c) \cup ((Bit \ b) \cap d)
Parity(b, c, d) == Xor(Xor(b, c), d)
Majority(b, c, d) == (b \cap c) \cup (b \cap d) \cup (c \cap d)

(* One turn of the loop over i.                                            *)
Turn(r, i, word) ==
  LET f == IF i < 20 THEN Choose(r.b, r.c, r.d)
           ELSE IF i \in 40..59 THEN Majority(r.b, r.c, r.d)
           ELSE Parity(r.b, r.c, r.d)
      k == IF i < 20 THEN k1 ELSE IF i < 40 THEN k2 ELSE IF i < 60 THEN k3 ELSE k4
      temp == Plus(Plus(leftRotate(r.a, 5), f), Plus(Plus(r.e, k), word))
  IN  [e |-> r.d, d |-> r.c, c |-> leftRotate(r.b, 30), b |-> r.a, a |-> temp]

TwentyTurns(w, i, r) ==
  LET after[n \in 0..20] == IF n = 0 THEN r ELSE Turn(after[n - 1], i + n - 1, w[i + n])
  IN  after[20]
EightyTurns(w, r) ==
  Eager(LAMBDA r60 : TwentyTurns(w, 60, r60),
    Eager(LAMBDA r40 : TwentyTurns(w, 40, r40),
      Eager(LAMBDA r20 : TwentyTurns(w, 20, r20), TwentyTurns(w, 0, r))))

Compressed(h, bytes, at) ==
  LET r == Eager(LAMBDA w : EightyTurns(w, h), Schedule(bytes, at))
  IN  Evaluated([x \in DOMAIN h |-> Plus(h[x], r[x])])

ByteOf(h, k) ==    \* byte k of the five words, the highest byte of each first
  LET w == h[<< "a", "b", "c", "d", "e" >>[(k \div 4) + 1]]
      half == IF k % 4 < 2 THEN High(w) ELSE Low(w)
  IN  IF k % 2 = 0 THEN half \div 256 ELSE half % 256

sha1(data) ==
  LET padded == Padded(data)
      h[n \in 0..(Len(padded) \div 64)] ==
        IF n = 0 THEN Initial
        ELSE Eager(LAMBDA before : Compressed(before, padded, 64 * (n - 1)), h[n - 1])
      digest == h[Len(padded) \div 64]
  IN  [k \in 1..20 |-> ByteOf(digest, k - 1)]
-----------------------------------------------------------------------------
(* The standard's padding: the shortest multiple of 64 bytes that holds    *)
(* the message, a one bit and a 64-bit length.                             *)
IsPadded(data, padded) ==
  /\ Len(padded) % 64 = 0 /\ Len(padded) - 64 < Len(data) + 9 /\ Len(data) + 9 <= Len(padded)
  /\ SubSeq(padded, 1, Len(data) + 1) = data \o << 128 >>
  /\ \A k \in (Len(data) + 2)..(Len(padded) - 4) : padded[k] = 0
  /\ FoldLeft(LAMBDA n, byte : 256 * n + byte, 0,
              SubSeq(padded, Len(padded) - 3, Len(padded))) = 8 * Len(data)
=============================================================================
