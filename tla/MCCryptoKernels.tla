-------------------------- MODULE MCCryptoKernels --------------------------
(***************************************************************************)
(* The stateless functions: CryptoKernels on arguments around every        *)
(* boundary, and ChaChaStream.  Their caller makes one call, or one field  *)
(* computation, or one pair of stream calls, at a time.                    *)
(***************************************************************************)
EXTENDS CryptoKernels, ChaChaStream, TLC, Bitwise

(* p = 2^22 - 3 in limbs of 6 and 5 bits; l = 4127 in limbs of 3 bits.     *)
MCCut == 0 :> 0 @@ 1 :> 8 @@ 2 :> 12 @@ 3 :> 20 @@ 4 :> 22
MCFold == 0 :> 1 @@ 1 :> -4
MCWordsOfL == 0 :> 15 @@ 1 :> 1 @@ 2 :> 0 @@ 3 :> 1

Order == 4127
P == 2^22 - 3
MCElementStrings == {0, 1, 2, P - 1, P, P + 2, 2^21, 2^22 + 5, 1677721, 2796202, 98765}
MCScalarStrings == {0, 1, 63, 2047, Order - 1, Order, Order + 1, 2 * Order, 9999, 16383}
MCWideStrings == MCScalarStrings \cup {2^24 - 1, Order * Order, Order * 4000 - 1, 12345678}
                   \cup {k * 99991 : k \in 0..160}
MCRecodedScalars == {k * 13 : k \in 0..5041} \cup 0..40 \cup 32740..32800 \cup 65500..65535
MCNumbers == {v \in -5..1100 : VI!IsDouble(v)}

Characters == {0, 32, 43, 45, 47, 48, 57, 58, 64, 65, 70, 71, 96, 97, 102, 103, 120}
MCHexStrings == {<< >>, << 48 >>, << 48, 49, 97, 66 >>, << 48, 49, 97, 71 >>}
                  \cup (Characters \X Characters)
MCBuffers == {<< >>} \cup {<< b >> : b \in 0..255}
               \cup {<< b, c >> : b \in {0, 1, 15, 255}, c \in {0, 16, 127, 128, 255}}
               \cup {<< 255, 0, b >> : b \in {0, 64, 255}} \cup {<< 1, 2, 3, 4 >>}

GoodNonce == << 1, 2 >>
GoodKey == << 1, 2, 3 >>
MCBoxes == [message : {<< >>, << 7 >>, << 7, 8 >>}, nonce : {GoodNonce, << 1 >>},
            key : {GoodKey, << 1 >>}, openNonce : {GoodNonce, << 2, 2 >>, << 1 >>},
            openKey : {GoodKey, << 3, 2, 1 >>, << 1 >>}, fate : {"whole", "cut", "altered"},
            cutTo : 0..4]

MCLengths == (0..140) \cup (268..276)
MCLaneStates == {[j \in 0..24 |-> {}], [j \in 0..24 |-> 0..63],
                 [j \in 0..24 |-> {j, (7 * j) % 64, (j * j) % 64}]}
MCBlockStates == {[k \in 0..15 |-> {}], [k \in 0..15 |-> 0..31],
                  [k \in 0..15 |-> {k, (3 * k) % 32, (k * k) % 32}]}

(* The example of Cryptonote.nitro.ts ("Hello World"), the empty string,   *)
(* the examples of FIPS 180 and one of three blocks; the first ChaCha8     *)
(* vector of the cipher's test set.                                        *)
Zeros(k) == [j \in 1..k |-> 0]
MCTexts ==
  {[function |-> "cn_fast_hash",
    in |-> << 72, 101, 108, 108, 111, 32, 87, 111, 114, 108, 100 >>,
    digest |-> << 89, 47, 167, 67, 136, 159, 199, 249, 42, 194, 163, 123, 177, 245, 186, 29,
                  175, 42, 92, 132, 116, 28, 160, 224, 6, 29, 36, 58, 46, 103, 7, 186 >>],
   [function |-> "cn_fast_hash", in |-> << >>,
    digest |-> << 197, 210, 70, 1, 134, 247, 35, 60, 146, 126, 125, 178, 220, 199, 3, 192,
                  229, 0, 182, 83, 202, 130, 39, 59, 123, 250, 216, 4, 93, 133, 164, 112 >>],
   [function |-> "sha1", in |-> << 97, 98, 99 >>,
    digest |-> << 169, 153, 62, 54, 71, 6, 129, 106, 186, 62, 37, 113, 120, 80, 194, 108,
                  156, 208, 216, 157 >>],
   [function |-> "sha1", in |-> << >>,
    digest |-> << 218, 57, 163, 238, 94, 107, 75, 13, 50, 85, 191, 239, 149, 96, 24, 144,
                  175, 216, 7, 9 >>],
   [function |-> "sha1", in |-> [i \in 1..70 |-> i],
    digest |-> << 11, 29, 191, 144, 57, 76, 214, 11, 24, 53, 61, 98, 238, 159, 4, 102,
                  5, 200, 163, 127 >>],
   [function |-> "chacha", in |-> [key |-> Zeros(32), iv |-> Zeros(8), rounds |-> 8],
    digest |-> << 62, 0, 239, 47, 137, 95, 64, 214, 127, 91, 184, 232, 31, 9, 165, 161 >>]}
-----------------------------------------------------------------------------
(* Half-byte bytes and a toy keystream that differs between neighbouring   *)
(* counters, positions, rounds, keys and ivs.  Messages end before, at and *)
(* after a block boundary.                                                 *)
MCOctet == 0..15
MCXor(a, b) == a ^^ b
MCKeystream(r, k, v, c) ==
  [i \in 0..63 |-> (r + 3 * k + 5 * v + 7 * c + i * (c + 1)) % 16]

MessageLengths == {0, 1, 63, 64, 65, 127, 128, 129}
MCMessages ==
  {[length |-> len, data |-> [j \in 0..(len - 1) |-> (3 * j + len) % 16]]
     : len \in MessageLengths}
-----------------------------------------------------------------------------
MCInit == Init /\ StreamInit
MCNext ==
  \/ pc = "idle" /\ Next /\ UNCHANGED streamVars
  \/ job = Idle /\ StreamNext /\ UNCHANGED vars
MCSpec == MCInit /\ [][MCNext]_<< vars, streamVars >>
=============================================================================
