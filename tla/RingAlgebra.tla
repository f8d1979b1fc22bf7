---------------------------- MODULE RingAlgebra ----------------------------
(***************************************************************************)
(* The values a ring signature is made of, and the two definitions every   *)
(* module about ring signatures shares: what a request to                  *)
(* Cryptonote.generateRingSignature is, and when a vector of signatures is *)
(* accepted by the network (the check_ring_signature kept as a comment in  *)
(* cpp/Cryptonote/crypto.cpp).                                             *)
(*                                                                         *)
(* Scalars and curve points are abstract.  The curve arithmetic of         *)
(* crypto-ops.c appears here only through the laws assumed below; a toy    *)
(* group that satisfies them is given by the MC modules.                   *)
(***************************************************************************)
EXTENDS Integers

CONSTANTS
  Hashes,           \* 32-byte prefix hashes
  Scalars,          \* integers modulo the prime group order l
  Zero,             \* sc_0
  Add(_, _),        \* sc_add
  Sub(_, _),        \* sc_sub
  Mul(_, _),        \* the product inside sc_mulsub
  Points,           \* points of the curve, torsion included
  PrimeOrder,       \* the subgroup of order l
  Base,             \* the generator of ge_scalarmult_base
  Plus(_, _),       \* point addition
  Times(_, _),      \* ge_scalarmult: scalar times point
  Encodings,        \* 32-byte strings offered as keys or key images
  CurveEncodings,   \* those ge_frombytes_vartime accepts
  Decode(_),        \* ge_frombytes_vartime
  HashToEc(_),      \* hash_to_ec, a function of the 32 bytes of a key
  HashToScalar(_, _), \* hash_to_scalar of the transcript: hash, commitments
  MaxStackRing,     \* the largest ring whose transcript fits the thread's stack
  Malformed         \* a hex string of a wrong length or with a bad digit

(* Z/lZ as far as the signer uses it: addition is commutative and          *)
(* associative and subtraction undoes it.                                  *)
ASSUME ScalarsAssumption ==
  /\ Zero \in Scalars
  /\ \A a, b \in Scalars :
       /\ Add(a, b) \in Scalars
       /\ Sub(a, b) \in Scalars
       /\ Mul(a, b) \in Scalars
       /\ Add(a, b) = Add(b, a)
       /\ Add(Sub(a, b), b) = a
  /\ \A a, b, c \in Scalars : Add(Add(a, b), c) = Add(a, Add(b, c))

(* The curve: the prime-order subgroup is a module over the scalars.       *)
(* Nothing is assumed of points with a torsion component beyond closure.   *)
ASSUME PointsAssumption ==
  /\ PrimeOrder \subseteq Points
  /\ Base \in PrimeOrder
  /\ \A P, Q \in Points : Plus(P, Q) \in Points
  /\ \A a \in Scalars, P \in Points : Times(a, P) \in Points
  /\ \A a, b \in Scalars, P \in PrimeOrder :
       /\ Times(Add(a, b), P) = Plus(Times(a, P), Times(b, P))
       /\ Times(Mul(a, b), P) = Times(a, Times(b, P))

(* Decoding is partial; hashing to the curve is total on bytes and, thanks *)
(* to the final ge_mul8, lands in the prime-order subgroup.                *)
ASSUME EncodingsAssumption ==
  /\ CurveEncodings \subseteq Encodings
  /\ \A e \in CurveEncodings : Decode(e) \in Points
  /\ \A e \in Encodings : HashToEc(e) \in PrimeOrder

(* A ring beyond MaxStackRing is never hashed: its transcript, which        *)
(* generate_ring_signature takes from the stack with alloca, does not fit.  *)
ASSUME HashAssumption ==
  /\ MaxStackRing \in Nat
  /\ \A p \in Hashes : \A n \in 0..MaxStackRing :
       \A ab \in [0..(n - 1) -> Points \X Points] : HashToScalar(p, ab) \in Scalars

ASSUME MalformedAssumption ==
  Malformed \notin Hashes \cup Scalars \cup Encodings

-----------------------------------------------------------------------------
(* What JavaScript passes.  Hex strings are classified by what hextobin    *)
(* makes of them.  A secret key is any 32 bytes: sc_mulsub, its only use,  *)
(* reduces it, so it is represented by its residue.  secretIndex is a      *)
(* double, in halves: 2 stands for 1.0 and 1 for 0.5.  Every value <= -2   *)
(* stands for a double whose conversion to size_t is undefined (-1.0 and   *)
(* below, NaN, beyond SIZE_MAX).                                           *)
Slots(r) == 0..(r.count - 1)

IsRequest(r) ==
  /\ r = [prefixHash |-> r.prefixHash, keyImage |-> r.keyImage,
          count |-> r.count, publicKeys |-> r.publicKeys,
          secretKey |-> r.secretKey, secretIndex |-> r.secretIndex]
  /\ r.prefixHash \in Hashes \cup {Malformed}
  /\ r.keyImage \in Encodings \cup {Malformed}
  /\ r.count \in Nat
  /\ r.publicKeys \in [Slots(r) -> Encodings \cup {Malformed}]
  /\ r.secretKey \in Scalars \cup {Malformed}
  /\ r.secretIndex \in Int

(* The length and hex checks of HybridCryptonote::generateRingSignature.   *)
WellFormed(r) ==
  /\ r.prefixHash # Malformed
  /\ r.keyImage # Malformed
  /\ r.secretKey # Malformed
  /\ \A j \in Slots(r) : r.publicKeys[j] # Malformed

Signature == [c : Scalars, r : Scalars]

(* The pair (a, b) a ring member contributes to the transcript, from its   *)
(* half-signature: a = r*G + c*P and b = r*H(P) + c*I.                     *)
DecoyCommitment(r, j, s) ==
  << Plus(Times(s.r, Base), Times(s.c, Decode(r.publicKeys[j]))),
     Plus(Times(s.r, HashToEc(r.publicKeys[j])), Times(s.c, Decode(r.keyImage))) >>

(* acc lists the partial sums of the c-components: the value of `sum` after *)
(* each iteration of the loop of check_ring_signature.                     *)
IsRunningSum(acc, sig, n) ==
  /\ acc[0] = Zero
  /\ \A j \in 0..(n - 1) : acc[j + 1] = Add(acc[j], sig[j].c)

(* check_ring_signature (crypto.cpp:622-660): every key decodes, and the   *)
(* c-components add up to the hash of the recomputed transcript.           *)
CheckRingSignature(r, sig) ==
  /\ r.keyImage \in CurveEncodings
  /\ \A j \in Slots(r) : r.publicKeys[j] \in CurveEncodings
  /\ \E acc \in [0..r.count -> Scalars] :
       /\ IsRunningSum(acc, sig, r.count)
       /\ acc[r.count] = HashToScalar(r.prefixHash,
                           [j \in Slots(r) |-> DecoyCommitment(r, j, sig[j])])

(* The caller really owns the ring member it names: the commented-out      *)
(* sanity checks at crypto.cpp:569-585, with the index JavaScript meant.   *)
OwnsMember(r, s) ==
  /\ s \in Slots(r)
  /\ r.secretIndex = 2 * s
  /\ r.keyImage \in CurveEncodings
  /\ \A j \in Slots(r) : r.publicKeys[j] \in CurveEncodings
  /\ Decode(r.publicKeys[s]) = Times(r.secretKey, Base)
  /\ Decode(r.keyImage) = Times(r.secretKey, HashToEc(r.publicKeys[s]))

Honest(r) == WellFormed(r) /\ \E s \in Slots(r) : OwnsMember(r, s)
=============================================================================
