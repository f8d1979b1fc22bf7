------------------------------- MODULE Codecs -------------------------------
(***************************************************************************)
(* Conversions at JavaScript's side of the library: the two hextobin (the  *)
(* strict one of cryptonote_utils, and that of HybridConcealCrypto, which  *)
(* takes every pair of characters to strtol), bintohex, base64 and         *)
(* secretbox.  A character is its ASCII code, a string a sequence of them, *)
(* a buffer a sequence of bytes.                                           *)
(***************************************************************************)
EXTENDS Integers, Sequences

Refused == << -1 >>             \* an exception, or false from the strict hextobin
IsDigit(ch) == ch \in 48..57
IsLetterOfHex(ch) == ch \in 97..102 \/ ch \in 65..70
IsHexChar(ch) == IsDigit(ch) \/ IsLetterOfHex(ch)
Nibble(ch) == IF IsDigit(ch) THEN ch - 48 ELSE (ch % 32) + 9

(* cryptonote_utils::hextobin.                                             *)
hextobinStrict(hex, expected_size) ==
  IF Len(hex) # expected_size * 2 \/ \E k \in 1..Len(hex) : ~IsHexChar(hex[k])
  THEN Refused
  ELSE [k \in 1..expected_size |-> Nibble(hex[2 * k - 1]) * 16 + Nibble(hex[2 * k])]

(* strtol of two characters to base 16: blanks and a sign are skipped, what*)
(* is no digit ends the number, and there may be none.  "0x" is 0.         *)
IsBlank(ch) == ch = 32 \/ ch \in 9..13
strtol(a, b) ==
  LET Single(ch) == IF IsHexChar(ch) THEN Nibble(ch) ELSE 0
  IN  CASE IsHexChar(a) -> IF IsHexChar(b) THEN Nibble(a) * 16 + Nibble(b) ELSE Nibble(a)
        [] IsBlank(a) \/ a = 43 -> Single(b)
        [] a = 45 -> -Single(b)
        [] OTHER -> 0

hextobinNibbles(hex) ==   \* mutant: the low character first
  IF Len(hex) % 2 # 0 THEN Refused
  ELSE [k \in 1..(Len(hex) \div 2) |-> strtol(hex[2 * k], hex[2 * k - 1]) % 256]
hextobin(hex) ==
  IF Len(hex) % 2 # 0 THEN Refused
  ELSE [k \in 1..(Len(hex) \div 2) |-> strtol(hex[2 * k - 1], hex[2 * k]) % 256]

HexDigit(v) == IF v < 10 THEN 48 + v ELSE 87 + v
bintohex(data) ==
  [k \in 1..(2 * Len(data)) |->
     LET byte == data[(k + 1) \div 2]
     IN  HexDigit(IF k % 2 = 1 THEN byte \div 16 ELSE byte % 16)]
-----------------------------------------------------------------------------
(* Base64.  sodium_bin2base64 and sodium_base642bin, with the original     *)
(* alphabet and padding, are external; sextet and its inverse stand for    *)
(* the alphabet, 64 for '='.                                               *)
Sextets(bits24) == [k \in 1..4 |-> (bits24 \div 2^(24 - 6 * k)) % 64]
Pad == 64
sodium_bin2base64(bin) ==
  LET At(k) == IF k <= Len(bin) THEN bin[k] ELSE 0
      groups == (Len(bin) + 2) \div 3
      Group(g) == Sextets(At(3 * g - 2) * 65536 + At(3 * g - 1) * 256 + At(3 * g))
      used == (8 * Len(bin) + 5) \div 6
  IN  [k \in 1..(4 * groups) |->
         IF k <= used THEN Group((k + 3) \div 4)[((k - 1) % 4) + 1] ELSE Pad]

IsUnpadded(base64, u) == /\ \A k \in 1..u : base64[k] # Pad
                         /\ u < Len(base64) => base64[u + 1] = Pad

(* Refused: wrong length or padding, or bits set below the last byte.      *)
sodium_base642bin(base64) ==
  LET used == CHOOSE u \in 0..Len(base64) : IsUnpadded(base64, u)
      size == (6 * used) \div 8
      Bit(n) == (base64[(n \div 6) + 1] \div 2^(5 - (n % 6))) % 2
      Byte(k) == LET At(j) == Bit(8 * (k - 1) + j) * 2^(7 - j)
                 IN  At(0) + At(1) + At(2) + At(3) + At(4) + At(5) + At(6) + At(7)
  IN  IF \/ Len(base64) % 4 # 0 \/ Len(base64) - used > 2
         \/ \E k \in 1..Len(base64) : (base64[k] = Pad) # (k > used)
         \/ \E n \in (8 * size)..(6 * used - 1) : Bit(n) = 1
      THEN Refused ELSE [k \in 1..size |-> Byte(k)]

bin2base64(buffer) == sodium_bin2base64(buffer)
base642bin(base64) == IF base64 = << >> THEN Refused ELSE sodium_base642bin(base64)
-----------------------------------------------------------------------------
(* secretbox and secretboxOpen.  The cipher is external: a ciphertext is   *)
(* its length and, if nothing was changed since it was made, what was      *)
(* sealed in it.                                                           *)
CONSTANTS MacBytes, NonceBytes, KeyBytes
Altered == << -2 >>
Null == << -3 >>
NoBox == [size |-> -1, seal |-> Refused]      \* secretbox throws

crypto_secretbox_easy(message, nonce, key) ==
  [size |-> Len(message) + MacBytes, seal |-> << message, nonce, key >>]
crypto_secretbox_open_easy(box, nonce, key) ==
  IF /\ box.seal # Altered
     /\ box.size = Len(box.seal[1]) + MacBytes
     /\ box.seal[2] = nonce /\ box.seal[3] = key
  THEN box.seal[1] ELSE Null

secretbox(message, nonce, key) ==
  IF Len(nonce) # NonceBytes \/ Len(key) # KeyBytes THEN NoBox
  ELSE crypto_secretbox_easy(message, nonce, key)

secretboxOpenStrict(box, nonce, key) ==   \* mutant: an empty message is too short
  IF box.size <= MacBytes \/ Len(nonce) # NonceBytes \/ Len(key) # KeyBytes THEN Refused
  ELSE crypto_secretbox_open_easy(box, nonce, key)
secretboxOpen(box, nonce, key) ==
  IF box.size < MacBytes \/ Len(nonce) # NonceBytes \/ Len(key) # KeyBytes THEN Refused
  ELSE crypto_secretbox_open_easy(box, nonce, key)
=============================================================================
