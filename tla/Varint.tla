------------------------------- MODULE Varint -------------------------------
(***************************************************************************)
(* Variable-length integers: write_varint and read_varint of Varint.h and  *)
(* HybridCryptonote::encodeVarint, which takes a JavaScript number.        *)
(*                                                                         *)
(* An unsigned integer has WordBits bits (64), a byte of the encoding      *)
(* carries GroupBits of them (7), and a double has MantissaBits (53).  A   *)
(* double is given in units of 2^-FractionBits, so that some are fractions.*)
(***************************************************************************)
EXTENDS Integers, SequencesExt

CONSTANTS GroupBits, WordBits, MantissaBits, FractionBits, MAX_VARINT_SIZE

ASSUME VarintAssumption ==
  /\ GroupBits \in Nat \ {0} /\ WordBits \in Nat /\ MAX_VARINT_SIZE \in Nat
  /\ MantissaBits \in 1..WordBits /\ FractionBits \in Nat
  /\ GroupBits * MAX_VARINT_SIZE >= WordBits

Continue == 2^GroupBits         \* the bit 0x80
Ends(i, n) ==                   \* the while loop leaves the last byte to group n
  i < 2^(GroupBits * n) /\ \A m \in 1..(n - 1) : i >= 2^(GroupBits * m)
Groups(i) == CHOOSE n \in 1..(WordBits + 1) : Ends(i, n)

write_varintUnmarked(i) ==      \* mutant: the last byte is marked as well
  [k \in 1..Groups(i) |-> ((i \div 2^(GroupBits * (k - 1))) % Continue) + Continue]
write_varint(i) ==
  [k \in 1..Groups(i) |->
     ((i \div 2^(GroupBits * (k - 1))) % Continue) + (IF k < Groups(i) THEN Continue ELSE 0)]

(* read_varint<WordBits>: how many bytes were read, -1 for an overflow, -2 *)
(* for a superfluous zero, and the number.                                 *)
ReadByte(st, byte) ==
  LET shift == GroupBits * st.read
  IN  IF st.done THEN st
      ELSE IF shift + GroupBits >= WordBits /\ byte >= 2^(WordBits - shift)
      THEN [i |-> st.i, read |-> -1, done |-> TRUE]
      ELSE IF byte = 0 /\ shift # 0 THEN [i |-> st.i, read |-> -2, done |-> TRUE]
      ELSE [i |-> st.i + (byte % Continue) * 2^shift, read |-> st.read + 1,
            done |-> byte < Continue]
read_varint(bytes) == FoldLeft(ReadByte, [i |-> 0, read |-> 0, done |-> FALSE], bytes)
-----------------------------------------------------------------------------
(* The doubles of a range: integers up to 2^MantissaBits times a power of  *)
(* two, the smallest of which is one unit.                                 *)
IsDouble(x) ==
  LET m == IF x < 0 THEN -x ELSE x
  IN  \E e \in 0..(WordBits + FractionBits) : m % 2^e = 0 /\ m \div 2^e <= 2^MantissaBits

Unit == 2^FractionBits
IsExponent(i, e) == i <= 2^(MantissaBits + e) /\ \A f \in 0..(e - 1) : i > 2^(MantissaBits + f)
ToDouble(i) ==   \* static_cast<double> of an integer, to the nearest, ties to even
  LET e == CHOOSE e \in 0..WordBits : IsExponent(i, e)
      low == i \div 2^e
      twice == 2 * (i % 2^e)
      up == twice > 2^e \/ (twice = 2^e /\ low % 2 = 1)
  IN  (IF up THEN low + 1 ELSE low) * 2^e * Unit

(* static_cast<uint64_t>: the integer part; out of range it is undefined,  *)
(* and the processors answer either with the largest integer or with 0     *)
(* or 2^63.                                                                *)
Casts(x) ==
  IF x < 2^WordBits * Unit THEN {x \div Unit} ELSE {2^WordBits - 1, 2^(WordBits - 1), 0}

Refused == << >>                \* std::invalid_argument
encodeVarint(x) ==
  IF x < 0 THEN {Refused}
  ELSE {IF ToDouble(i) # x THEN Refused ELSE write_varint(i) : i \in Casts(x)}
=============================================================================
