------------------------- MODULE ChaChaStreamProofs -------------------------
(***************************************************************************)
(* The block loop encrypts every byte of a message with the right byte of  *)
(* the keystream, and a second call takes it off again, for messages of    *)
(* any length and any keystream.                                           *)
(***************************************************************************)
EXTENDS ChaChaStream, TLAPS

LEMMA MaxBlocksIsNat == MaxBlocks \in Nat
BY MessagesAssumption

(* A block's worth of xor at the offset 64*c0 extends what is encrypted by  *)
(* that block.                                                              *)
LEMMA BlockExtends ==
  ASSUME NEW src, NEW old, NEW new, NEW n \in Nat, NEW c0 \in Nat,
         NEW size \in 1..64,
         64 * c0 + size <= n,
         new = [j \in 0..(n - 1) |->
                  IF j \in (64 * c0)..(64 * c0 + size - 1)
                  THEN XorByte(src[j], Keystream(rounds, key, iv, c0)[j - 64 * c0])
                  ELSE old[j]],
         EncryptionOf(old, src, 64 * c0)
  PROVE  EncryptionOf(new, src, 64 * c0 + size)
<1> SUFFICES ASSUME NEW c \in 0..MaxBlocks, NEW m \in 0..63,
                    64 * c + m < 64 * c0 + size
             PROVE  new[64 * c + m]
                      = XorByte(src[64 * c + m], Keystream(rounds, key, iv, c)[m])
  BY DEF EncryptionOf
<1> DEFINE j0 == 64 * c + m
<1>1. c \in Nat /\ m \in Nat
  BY MaxBlocksIsNat
<1>0. j0 \in 0..(n - 1)
  BY <1>1
<1>2. CASE c = c0
  <2>1. j0 \in (64 * c0)..(64 * c0 + size - 1) /\ j0 - 64 * c0 = m
    BY <1>1, <1>2
  <2> QED
    BY <1>0, <1>2, <2>1
<1>3. CASE c < c0
  <2>1. j0 < 64 * c0 /\ j0 \notin (64 * c0)..(64 * c0 + size - 1)
    BY <1>1, <1>3
  <2>2. old[j0] = XorByte(src[j0], Keystream(rounds, key, iv, c)[m])
    BY <2>1 DEF EncryptionOf
  <2> QED
    BY <1>0, <2>1, <2>2
<1>4. ~(c > c0)
  BY <1>1
<1> QED
  BY <1>1, <1>2, <1>3, <1>4

(* Encrypting twice with the same keystream gives the message back.         *)
LEMMA TwiceIsNothing ==
  ASSUME NEW n \in 0..(64 * MaxBlocks),
         rounds \in Rounds, key \in GoodKeys, iv \in GoodIVs,
         NEW a \in [0..(n - 1) -> Octet], NEW b \in [0..(n - 1) -> Octet],
         NEW d \in [0..(n - 1) -> Octet],
         EncryptionOf(b, a, n), EncryptionOf(d, b, n)
  PROVE  d = a
<1> SUFFICES ASSUME NEW j \in 0..(n - 1)
             PROVE  d[j] = a[j]
  OBVIOUS
<1> DEFINE c == j \div 64
           m == j % 64
<1>1. MaxBlocks \in Nat /\ n \in Nat /\ j \in Nat
  BY MaxBlocksIsNat
<1>2. j = 64 * c + m /\ m \in 0..63 /\ c \in Nat
  BY <1>1
<1>3. c \in 0..MaxBlocks
  BY <1>1, <1>2
<1> HIDE DEF c, m
<1>4. Keystream(rounds, key, iv, c)[m] \in Octet
  <2>1. Keystream(rounds, key, iv, c) \in [0..63 -> Octet]
    BY <1>3, KeystreamAssumption
  <2> QED
    BY <1>2, <2>1
<1>5. 64 * c + m < n
  BY <1>1, <1>2
<1>6. /\ b[64 * c + m] = XorByte(a[64 * c + m], Keystream(rounds, key, iv, c)[m])
      /\ d[64 * c + m] = XorByte(b[64 * c + m], Keystream(rounds, key, iv, c)[m])
  BY <1>2, <1>3, <1>5 DEF EncryptionOf
<1>7. a[j] \in Octet
  OBVIOUS
<1> QED
  BY <1>2, <1>4, <1>6, <1>7, XorAssumption

-----------------------------------------------------------------------------
(* The inductive invariant: what is behind the pointers is encrypted, and   *)
(* in a second call the input is the first call's answer.                   *)
Running == pc = "loop" \/ answer = "bytes"

IInv ==
  /\ TypeOK
  /\ InStep
  /\ pc = "idle" => plain = Nothing
  /\ pc = "loop" => answer = "none" /\ EncryptionOf(cipher, data, done)
  /\ answer = "bytes" => pc = "answered" /\ EncryptionOf(cipher, data, length)
  /\ plain # Nothing /\ Running =>
       plain \in [0..(length - 1) -> Octet] /\ EncryptionOf(data, plain, length)

LEMMA InitIInv == StreamInit => IInv
BY MaxBlocksIsNat DEF StreamInit, IInv, TypeOK, InStep, Running, Nothing

(* Entering the loop, for the first or the second time.                     *)
LEMMA EnterIInv ==
  ASSUME NEW n \in 0..(64 * MaxBlocks), Enter(n), length' = n,
         data' \in [0..(n - 1) -> Octet],
         rounds' \in Rounds, key' \in GoodKeys, iv' \in GoodIVs,
         plain' # Nothing =>
           plain' \in [0..(n - 1) -> Octet] /\ EncryptionOf(data, plain, n)'
  PROVE  IInv'
<1>1. MaxBlocks \in Nat /\ n \in Nat
  BY MaxBlocksIsNat
<1>2. ZeroByte \in Octet
  BY XorAssumption DEF ZeroByte
<1>3. cipher' \in [0..(n - 1) -> Octet]
  BY <1>2 DEF Enter
<1>4. EncryptionOf(cipher, data, 0)'
  BY <1>1 DEF EncryptionOf
<1>5. done' = 0 /\ counter' = 0 /\ remaining' = n
  BY DEF Enter
<1>6. CASE n = 0
  <2>1. pc' = "answered" /\ answer' = "bytes"
    BY <1>6 DEF Enter
  <2> QED
    BY <1>1, <1>3, <1>4, <1>6, <2>1 DEF IInv, TypeOK, InStep, Running
<1>7. CASE n # 0
  <2>1. pc' = "loop" /\ answer' = "none"
    BY <1>7 DEF Enter
  <2> QED
    BY <1>1, <1>3, <1>4, <1>5, <1>7, <2>1 DEF IInv, TypeOK, InStep, Running
<1> QED
  BY <1>6, <1>7

LEMMA CallIInv ==
  ASSUME IInv, NEW r \in Rounds, NEW k \in Keys, NEW v \in IVs, NEW m \in Messages,
         Call(r, k, v, m)
  PROVE  IInv'
<1>1. /\ m.length \in 0..(64 * MaxBlocks)
      /\ m.data \in [0..(m.length - 1) -> Octet]
  BY MessagesAssumption
<1>2. plain' = Nothing
  BY DEF IInv, Call
<1>3. /\ rounds' = r /\ key' = k /\ iv' = v
      /\ length' = m.length /\ data' = m.data
  BY DEF Call
<1>4. CASE Accepted(k, v)
  <2>1. Enter(m.length)
    BY <1>4 DEF Call
  <2> QED
    BY <1>1, <1>2, <1>3, <1>4, <2>1, EnterIInv DEF Accepted
<1>5. CASE ~Accepted(k, v)
  <2>1. pc' = "answered" /\ answer' = "thrown"
    BY <1>5 DEF Call, Throw
  <2> QED
    BY <1>1, <1>2, <1>3, <2>1 DEF IInv, TypeOK, InStep, Running
<1> QED
  BY <1>4, <1>5

LEMMA CallAgainIInv ==
  ASSUME IInv, CallAgain
  PROVE  IInv'
<1>1. /\ length \in 0..(64 * MaxBlocks)
      /\ rounds \in Rounds /\ key \in GoodKeys /\ iv \in GoodIVs
      /\ data \in [0..(length - 1) -> Octet]
      /\ cipher \in [0..(length - 1) -> Octet]
      /\ EncryptionOf(cipher, data, length)
  BY DEF IInv, TypeOK, CallAgain
<1>2. /\ UNCHANGED << rounds, key, iv, length >> /\ Enter(length)
      /\ plain' = data /\ data' = cipher
  BY DEF CallAgain
<1>3. EncryptionOf(data, plain, length)'
  BY <1>1, <1>2 DEF EncryptionOf
<1> QED
  BY <1>1, <1>2, <1>3, EnterIInv

(* An iteration, of either kind.                                            *)
LEMMA BlockIInv ==
  ASSUME IInv, FullBlock \/ PartialBlock
  PROVE  IInv'
<1> DEFINE size == IF remaining < 64 THEN remaining ELSE 64
<1>1. /\ pc = "loop" /\ MaxBlocks \in Nat
      /\ length \in 0..(64 * MaxBlocks)
      /\ counter \in 0..MaxBlocks /\ done = 64 * counter
      /\ remaining = length - done /\ remaining > 0
      /\ data \in [0..(length - 1) -> Octet]
      /\ cipher \in [0..(length - 1) -> Octet]
      /\ rounds \in Rounds /\ key \in GoodKeys /\ iv \in GoodIVs
      /\ EncryptionOf(cipher, data, done)
      /\ plain # Nothing =>
           plain \in [0..(length - 1) -> Octet] /\ EncryptionOf(data, plain, length)
  BY MaxBlocksIsNat DEF IInv, TypeOK, InStep, Running, FullBlock, PartialBlock
<1>2. /\ XorBlock(size) /\ Advance(size) /\ Leave
      /\ UNCHANGED << rounds, key, iv, length, data, plain >>
  BY <1>1 DEF FullBlock, PartialBlock, arguments
<1>3. /\ size \in 1..64 /\ size \in Int
      /\ 64 * counter + size <= length
      /\ length \in Nat /\ counter \in Nat
  BY <1>1
<1> HIDE DEF size
<1>4. cipher' = [j \in 0..(length - 1) |->
                   IF j \in (64 * counter)..(64 * counter + size - 1)
                   THEN XorByte(data[j], Keystream(rounds, key, iv, counter)[j - 64 * counter])
                   ELSE cipher[j]]
  BY <1>1, <1>2 DEF XorBlock
<1>5. EncryptionOf(cipher', data, 64 * counter + size)
  <2>1. EncryptionOf(cipher, data, 64 * counter)
    BY <1>1
  <2> QED
    BY <1>3, <1>4, <2>1, BlockExtends
<1>6. cipher' \in [0..(length - 1) -> Octet]
  <2>1. Keystream(rounds, key, iv, counter) \in [0..63 -> Octet]
    BY <1>1, KeystreamAssumption
  <2>2. ASSUME NEW j \in 0..(length - 1),
               j \in (64 * counter)..(64 * counter + size - 1)
        PROVE  XorByte(data[j], Keystream(rounds, key, iv, counter)[j - 64 * counter]) \in Octet
    <3>1. j - 64 * counter \in 0..63
      BY <1>3, <2>2
    <3>2. data[j] \in Octet
      BY <1>1
    <3> QED
      BY <2>1, <3>1, <3>2, XorAssumption
  <2> QED
    BY <1>1, <1>4, <2>2
<1>7. plain' # Nothing =>
        plain' \in [0..(length' - 1) -> Octet] /\ EncryptionOf(data, plain, length)'
  BY <1>1, <1>2 DEF EncryptionOf
<1>8. CASE LastBlock
  <2>1. pc' = "answered" /\ answer' = "bytes"
    BY <1>2, <1>8 DEF Leave
  <2>2. length = 64 * counter + size
    BY <1>1, <1>8 DEF LastBlock, size
  <2>3. EncryptionOf(cipher, data, length)'
    BY <1>2, <1>3, <1>5, <2>2 DEF EncryptionOf
  <2> QED
    BY <1>1, <1>2, <1>6, <1>7, <2>1, <2>3 DEF IInv, TypeOK, InStep, Running
<1>9. CASE ~LastBlock
  <2>1. pc' = "loop" /\ answer' = "none"
    BY <1>1, <1>2, <1>9 DEF Leave, IInv
  <2>2. size = 64
    BY <1>1, <1>9 DEF LastBlock, size
  <2>3. /\ counter' = counter + 1 /\ done' = 64 * counter + 64
        /\ remaining' = length - done - 64
    BY <1>1, <1>2, <2>2 DEF Advance
  <2>4. /\ counter' \in 0..MaxBlocks /\ done' = 64 * counter'
        /\ remaining' = length' - done' /\ remaining' > 0
    BY <1>1, <1>2, <1>9, <2>3 DEF LastBlock
  <2>5. EncryptionOf(cipher, data, done)'
    BY <1>2, <1>5, <2>2, <2>3 DEF EncryptionOf
  <2> QED
    BY <1>1, <1>2, <1>6, <1>7, <2>1, <2>4, <2>5 DEF IInv, TypeOK, InStep, Running
<1> QED
  BY <1>8, <1>9

LEMMA NextIInv == IInv /\ [StreamNext]_streamVars => IInv'
<1> SUFFICES ASSUME IInv, [StreamNext]_streamVars PROVE IInv'
  OBVIOUS
<1>1. CASE Return
  BY <1>1, MaxBlocksIsNat
  DEF Return, IInv, TypeOK, InStep, Running, Nothing
<1>2. CASE UNCHANGED streamVars
  BY <1>2
  DEF streamVars, arguments, IInv, TypeOK, InStep, Running, EncryptionOf
<1> QED
  BY <1>1, <1>2, CallIInv, CallAgainIInv, BlockIInv DEF StreamNext

LEMMA IInvHolds == StreamSpec => []IInv
<1> QED
  BY InitIInv, NextIInv, PTL DEF StreamSpec

-----------------------------------------------------------------------------
(* The counter, the pointers and the bytes left never disagree, and no      *)
(* block is generated with a key or an iv of a wrong length.                *)
THEOREM LoopInStep == StreamSpec => []InStep
<1>1. IInv => InStep
  BY DEF IInv
<1> QED
  BY <1>1, IInvHolds, PTL

THEOREM TypeCorrect == StreamSpec => []TypeOK
<1>1. IInv => TypeOK
  BY DEF IInv
<1> QED
  BY <1>1, IInvHolds, PTL

(* chacha8_xor and chacha12_xor encrypt every byte of every message.        *)
THEOREM EveryByteEncrypted == StreamSpec => []StreamCorrect
<1>1. IInv => StreamCorrect
  BY DEF IInv, StreamCorrect
<1> QED
  BY <1>1, IInvHolds, PTL

(* A second call with the same key and iv gives the message back.           *)
THEOREM DecryptionRestores == StreamSpec => []RoundTrip
<1>1. ASSUME IInv PROVE RoundTrip
  <2> SUFFICES ASSUME answer = "bytes", plain # Nothing
               PROVE  cipher = plain
    BY DEF RoundTrip
  <2>1. /\ length \in 0..(64 * MaxBlocks)
        /\ rounds \in Rounds /\ key \in GoodKeys /\ iv \in GoodIVs
        /\ data \in [0..(length - 1) -> Octet]
        /\ cipher \in [0..(length - 1) -> Octet]
        /\ plain \in [0..(length - 1) -> Octet]
        /\ EncryptionOf(data, plain, length) /\ EncryptionOf(cipher, data, length)
    BY <1>1 DEF IInv, TypeOK, Running
  <2> QED
    BY <2>1, TwiceIsNothing
<1> QED
  BY <1>1, IInvHolds, PTL
=============================================================================
