---------------------------- MODULE ChaChaStream ----------------------------
(***************************************************************************)
(* The stream ciphers: HybridConcealCrypto::chacha8 and chacha12 and the   *)
(* loops of chacha8_xor and chacha12_xor, which differ in the number of    *)
(* rounds alone.  chacha_block is an arbitrary function Keystream of the   *)
(* rounds, key, iv and block counter to 64 bytes; what is modelled is how  *)
(* the loop walks a message in blocks, the last of which may be partial,   *)
(* and that JavaScript decrypts by calling the same function again.        *)
(***************************************************************************)
EXTENDS Integers

CONSTANTS
  Octet,
  XorByte(_, _),
  Keystream(_, _, _, _), \* rounds, key, iv, counter -> [0..63 -> Octet]
  Keys, IVs,             \* ArrayBuffers offered as key and iv
  GoodKeys, GoodIVs,     \* those of 32 and 8 bytes
  Messages,              \* records [length, data]
  MaxBlocks              \* no message is longer than this many blocks

Rounds == {8, 12}

ASSUME XorAssumption ==
  /\ Octet # {}
  /\ \A a, b \in Octet : XorByte(a, b) \in Octet /\ XorByte(XorByte(a, b), b) = a

ASSUME MessagesAssumption ==
  /\ MaxBlocks \in Nat
  /\ \A m \in Messages :
       /\ m.length \in 0..(64 * MaxBlocks)
       /\ m.data \in [0..(m.length - 1) -> Octet]

ASSUME KeystreamAssumption ==
  \A r \in Rounds, key \in GoodKeys, iv \in GoodIVs, c \in 0..MaxBlocks :
    Keystream(r, key, iv, c) \in [0..63 -> Octet]

VARIABLES
  pc,         \* "idle", "loop", "answered"
  rounds, key, iv,
  length, data,  \* the input ArrayBuffer
  counter,    \* the 64-bit block counter
  remaining,  \* bytes still to do
  done,       \* how far the pointers data and cipher have been advanced
  cipher,     \* the output vector
  answer,     \* "none", "thrown", "bytes"
  plain       \* in a second call, the input of the first

arguments == << rounds, key, iv, length, data >>
streamVars == << pc, arguments, counter, remaining, done, cipher, answer, plain >>

Nothing == [j \in {} |-> 0]

StreamInit ==
  /\ pc = "idle"
  /\ rounds = 0 /\ key = Nothing /\ iv = Nothing
  /\ length = 0 /\ data = Nothing
  /\ counter = 0 /\ remaining = 0 /\ done = 0
  /\ cipher = Nothing
  /\ answer = "none"
  /\ plain = Nothing
-----------------------------------------------------------------------------
(* The checks of HybridConcealCrypto, then the zeroed output vector and the *)
(* prologue of the loop: an empty message returns at once.                  *)
ZeroByte == CHOOSE b \in Octet : TRUE

Enter(n) ==
  /\ cipher' = [j \in 0..(n - 1) |-> ZeroByte]
  /\ counter' = 0 /\ remaining' = n /\ done' = 0
  /\ IF n = 0 THEN pc' = "answered" /\ answer' = "bytes"
              ELSE pc' = "loop" /\ answer' = "none"

AnyIV(k, v) == k \in GoodKeys   \* mutant: the length of the iv is not checked
Accepted(k, v) == k \in GoodKeys /\ v \in GoodIVs

Throw ==
  /\ pc' = "answered" /\ answer' = "thrown"
  /\ UNCHANGED << counter, remaining, done, cipher >>

Call(r, k, v, m) ==
  /\ pc = "idle"
  /\ rounds' = r /\ key' = k /\ iv' = v
  /\ length' = m.length /\ data' = m.data
  /\ IF Accepted(k, v) THEN Enter(m.length) ELSE Throw
  /\ UNCHANGED plain

(* JavaScript hands the answer back to the same function.                   *)
CallAgain ==
  /\ pc = "answered" /\ answer = "bytes" /\ plain = Nothing
  /\ plain' = data
  /\ data' = cipher
  /\ Enter(length)
  /\ UNCHANGED << rounds, key, iv, length >>
-----------------------------------------------------------------------------
(* The bytes of the current block: block_size of them, from data on.        *)
XorBlock(size) ==
  cipher' = [j \in 0..(length - 1) |->
               IF j \in done..(done + size - 1)
               THEN XorByte(data[j], Keystream(rounds, key, iv, counter)[j - done])
               ELSE cipher[j]]

(* counter++, remaining -= block_size, and both pointers move on.           *)
StuckCounter(size) ==   \* mutant: the counter stays, the keystream repeats
  /\ counter' = counter
  /\ remaining' = remaining - size
  /\ done' = done + size

Advance(size) ==
  /\ counter' = counter + 1
  /\ remaining' = remaining - size
  /\ done' = done + size

LastBlockLost == remaining - 64 < 64  \* mutant: a partial last block is lost
LastBlockTwice == remaining < 64      \* mutant: while (remaining >= 0)
LastBlock == remaining <= 64

Leave == IF LastBlock THEN pc' = "answered" /\ answer' = "bytes"
                      ELSE pc' = pc /\ answer' = answer

(* One iteration of do ... while (remaining > 0): a whole block, or what is *)
(* left.                                                                    *)
FullBlock ==
  /\ pc = "loop"
  /\ remaining >= 64
  /\ XorBlock(64) /\ Advance(64) /\ Leave
  /\ UNCHANGED << arguments, plain >>

PartialBlock ==
  /\ pc = "loop"
  /\ remaining < 64
  /\ XorBlock(remaining) /\ Advance(remaining) /\ Leave
  /\ UNCHANGED << arguments, plain >>

(* The pair of calls is over and another begins.                            *)
Return ==
  /\ pc = "answered"
  /\ answer = "bytes" => plain # Nothing \/ length = 0
  /\ pc' = "idle" /\ answer' = "none"
  /\ rounds' = 0 /\ key' = Nothing /\ iv' = Nothing
  /\ length' = 0 /\ data' = Nothing /\ cipher' = Nothing /\ plain' = Nothing
  /\ counter' = 0 /\ remaining' = 0 /\ done' = 0

StreamNext ==
  \/ \E r \in Rounds, k \in Keys, v \in IVs, m \in Messages : Call(r, k, v, m)
  \/ CallAgain \/ FullBlock \/ PartialBlock \/ Return

StreamSpec == StreamInit /\ [][StreamNext]_streamVars
-----------------------------------------------------------------------------
(* Every variable holds what the code may put there; the loop is entered    *)
(* only with a key and an iv of the sizes chacha_block reads.               *)
TypeOK ==
  /\ pc \in {"idle", "loop", "answered"}
  /\ answer \in {"none", "thrown", "bytes"}
  /\ pc # "idle" => rounds \in Rounds
  /\ length \in 0..(64 * MaxBlocks)
  /\ data \in [0..(length - 1) -> Octet]
  /\ answer = "bytes" \/ pc = "loop" =>
       /\ key \in GoodKeys /\ iv \in GoodIVs
       /\ cipher \in [0..(length - 1) -> Octet]

(* At the head of the loop the counter, the pointers and the number of      *)
(* bytes left tell the same story: no block is generated for nothing.       *)
InStep ==
  pc = "loop" =>
    /\ counter \in 0..MaxBlocks
    /\ done = 64 * counter
    /\ remaining = length - done
    /\ remaining > 0

(* Byte 64*c + i of dst is that of src xor byte i of keystream block c, for *)
(* every byte below limit.                                                  *)
EncryptionOf(dst, src, limit) ==
  \A c \in 0..MaxBlocks, n \in 0..63 :
    64 * c + n < limit =>
      dst[64 * c + n] = XorByte(src[64 * c + n], Keystream(rounds, key, iv, c)[n])

(* Every byte of the answer, whatever the length: full blocks, a partial    *)
(* last block, an exact multiple of 64, or nothing at all.                  *)
StreamCorrect == answer = "bytes" => EncryptionOf(cipher, data, length)

(* Decrypting what was encrypted gives the message back.                    *)
RoundTrip == answer = "bytes" /\ plain # Nothing => cipher = plain
=============================================================================
