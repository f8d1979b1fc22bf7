------------------------- MODULE CryptonoteBinding -------------------------
(***************************************************************************)
(* The methods of HybridCryptonote on keys, points and scalars, down to    *)
(* the curve formulas of crypto-ops.c, over the small curve of             *)
(* EdwardsCurve.  Hexadecimal arguments are numbers, Malformed when they   *)
(* are not 64 digits.  cn_fast_hash is a parameter.                        *)
(*                                                                         *)
(* A caller makes one call, or a payment: a sender publishes a transaction *)
(* key and output keys made with derivePublicKey; the receiver, with the   *)
(* same two methods, finds those that are his.  The transaction key is any *)
(* r G + T, T of low order: an honest sender has T = 0.                    *)
(***************************************************************************)
EXTENDS EdwardsCurve, Varint

CONSTANTS
  cn_fast_hash(_),          \* of a sequence of numbers, a number below 2^Bits
  PointArgs, ScalarArgs,    \* hexadecimal arguments offered to single calls
  FewPoints, FewScalars,    \* the same, for the method with four of them
  IndexArgs,                \* output indices, in units of 2^-FractionBits
  SecretKeys, OutputIndices, SuffixArgs,
  MaxOutputs                \* bound: outputs of a payment

Thrown == -10
Aborted == -11        \* an assertion failed: the process ends
Malformed == -12

VARIABLES
  build,    \* "debug" or "release": are assertions compiled in
  call,     \* a call: its method, arguments and answer
  wallet    \* a payment in progress

bindingVars == << build, call, wallet >>

None == [method |-> "none", args |-> << >>, answer |-> Thrown]
NoPayment == [a |-> 0, b |-> 0, r |-> 0, txKey |-> Thrown, outputs |-> << >>]

Init ==
  /\ build \in {"debug", "release"}
  /\ call = None
  /\ wallet = NoPayment
-----------------------------------------------------------------------------
(* crypto.cpp.                                                             *)
sc_check(s) == IF s <= Order THEN 0 ELSE -1     \* it accepts l itself
hash_to_scalar(data) == cn_fast_hash(data) % Order

derivation_to_scalar(derivation, output_index, suffix) ==
  hash_to_scalar(<< derivation >> \o write_varint(output_index) \o suffix)

Encoded8(p) == ge_tobytes(ge_p1p1_to_p2(ge_mul8(p)))

generate_key_derivation(key1, key2) ==
  LET point == ge_frombytes_vartime(key1)
  IN  IF build = "debug" /\ sc_check(key2) # 0 THEN Aborted
      ELSE IF ~IsPoint(point) THEN Thrown
      ELSE Encoded8(ge_scalarmult(key2, point))

derive_public_keyAlone(derivation, output_index, base, suffix) ==  \* mutant: base left out
  ge_p3_tobytes(ge_scalarmult_base(derivation_to_scalar(derivation, output_index, suffix)))
derive_public_key(derivation, output_index, base, suffix) ==
  LET point1 == ge_frombytes_vartime(base)
      scalar == derivation_to_scalar(derivation, output_index, suffix)
      point3 == ge_p3_to_cached(ge_scalarmult_base(scalar))
  IN  IF ~IsPoint(point1) THEN Thrown
      ELSE ge_tobytes(ge_p1p1_to_p2(ge_add(point1, point3)))

(* Both overloads: to a string, and to the point the signer needs.         *)
hash_to_ecPoint(key) ==
  ge_p1p1_to_p3(ge_mul8(ge_fromfe_frombytes_vartime(cn_fast_hash(<< key >>))))
hash_to_ec(key) == ge_p3_tobytes(hash_to_ecPoint(key))
HashAsserts(key) == ge_fromfe_frombytes_vartime(cn_fast_hash(<< key >>)).asserted
-----------------------------------------------------------------------------
(* HybridCryptonote.cpp.  A method first refuses what is no 64 digits, then*)
(* what is no point.                                                       *)
Valid(args) == \A k \in DOMAIN args : args[k] # Malformed

generateKeyDerivation(publicKey, secretKey) ==
  IF Valid(<< publicKey, secretKey >>)
  THEN generate_key_derivation(publicKey, secretKey) ELSE Thrown

(* static_cast<size_t>: rounds towards zero; of a number of -1 or less it  *)
(* is undefined, and gives 0 (ARM) or wraps around (x86-64).               *)
ToSizeT(x) ==
  IF x > -Unit THEN {IF x < 0 THEN 0 ELSE x \div Unit}
  ELSE {0, 2^WordBits - ((-x) \div Unit)}

derivePublicKey(derivation, outputIndex, publicKey) ==   \* the outcomes
  IF Valid(<< derivation, publicKey >>)
  THEN {derive_public_key(derivation, i, publicKey, << >>) : i \in ToSizeT(outputIndex)}
  ELSE {Thrown}

geScalarmult(publicKey, secretKey) ==
  LET point == ge_frombytes_vartime(publicKey)
  IN  IF Valid(<< publicKey, secretKey >>) /\ IsPoint(point)
      THEN ge_tobytes(ge_scalarmult(secretKey, point)) ELSE Thrown

geAdd(p1, p2) ==
  LET point1 == ge_frombytes_vartime(p1)
      point2 == ge_frombytes_vartime(p2)
  IN  IF Valid(<< p1, p2 >>) /\ IsPoint(point1) /\ IsPoint(point2)
      THEN ge_tobytes(ge_p1p1_to_p2(ge_add(point1, ge_p3_to_cached(point2)))) ELSE Thrown

geScalarmultBase(secretKey) ==
  IF Valid(<< secretKey >>) THEN ge_p3_tobytes(ge_scalarmult_base(secretKey)) ELSE Thrown

geDoubleScalarmultBaseVartime(c, P, r) ==
  LET point_P == ge_frombytes_vartime(P)
  IN  IF Valid(<< c, P, r >>) /\ IsPoint(point_P)
      THEN ge_tobytes(ge_double_scalarmult_base_vartime(c, point_P, r)) ELSE Thrown

geDoubleScalarmultPostcompVartime(r, P, c, I) ==
  LET point_Pb == ge_frombytes_vartime(hash_to_ec(P))
      point_I == ge_frombytes_vartime(I)
  IN  IF ~Valid(<< r, P, c, I >>) THEN Thrown
      ELSE IF build = "debug" /\ ~HashAsserts(P) THEN Aborted
      ELSE IF ~IsPoint(point_Pb) \/ ~IsPoint(point_I) THEN Thrown
      ELSE ge_tobytes(ge_double_scalarmult_precomp_vartime(
                        r, point_I, c, ge_dsm_precomp(point_Pb)))
-----------------------------------------------------------------------------
Idle == call = None /\ wallet = NoPayment
Answer(method, args, answer) ==
  /\ call' = [method |-> method, args |-> args, answer |-> answer]
  /\ UNCHANGED << build, wallet >>

CallDerivation ==
  \E P \in PointArgs, k \in ScalarArgs :
    Answer("generateKeyDerivation", << P, k >>, generateKeyDerivation(P, k))
CallDerive ==
  \E D \in FewPoints, P \in PointArgs, i \in IndexArgs : \E answer \in derivePublicKey(D, i, P) :
    Answer("derivePublicKey", << D, i, P >>, answer)
CallScalarmult ==
  \E P \in PointArgs, k \in ScalarArgs :
    Answer("geScalarmult", << P, k >>, geScalarmult(P, k))
CallAdd == \E P, R \in PointArgs : Answer("geAdd", << P, R >>, geAdd(P, R))
CallBase == \E k \in ScalarArgs : Answer("geScalarmultBase", << k >>, geScalarmultBase(k))
CallDoubleBase ==
  \E c, r \in ScalarArgs, P \in PointArgs :
    Answer("geDoubleScalarmultBaseVartime", << c, P, r >>,
           geDoubleScalarmultBaseVartime(c, P, r))
CallPostcomp ==
  \E r, c \in FewScalars, P \in PointArgs, I \in FewPoints :
    Answer("geDoubleScalarmultPostcompVartime", << r, P, c, I >>,
           geDoubleScalarmultPostcompVartime(r, P, c, I))

Finish == call # None /\ call' = None /\ UNCHANGED << build, wallet >>
-----------------------------------------------------------------------------
(* A payment.  The receiver's public keys are a G and b G; b + 1 is the    *)
(* spend key of another address with the same view key.                    *)
EncodingOf(P) == P[2] + 2^YBits * (P[1] % 2)
LowOrder == {EncodingOf(P) : P \in {R \in Group : Times(8, R) = Zero}}
ViewKey == geScalarmultBase(wallet.a)
SpendKey(b) == geScalarmultBase(b)
SenderDerivation == generateKeyDerivation(ViewKey, wallet.r)
ReceiverDerivation == generateKeyDerivation(wallet.txKey, wallet.a)

Publish ==
  /\ Idle
  /\ \E a, b, r \in SecretKeys, T \in LowOrder :
       wallet' = [NoPayment EXCEPT !.a = a, !.b = b, !.r = r,
                                   !.txKey = geAdd(geScalarmultBase(r), T)]
  /\ UNCHANGED << build, call >>

PayTo(b, output) ==
  /\ wallet # NoPayment /\ output \notin DOMAIN wallet.outputs
  /\ Cardinality(DOMAIN wallet.outputs) < MaxOutputs
  /\ \E derivation \in {SenderDerivation}, spendKey \in {SpendKey(b)} :
     \E key \in {derive_public_key(derivation, output.index, spendKey, output.suffix)} :
       wallet' = [wallet EXCEPT
                    !.outputs = (output :> [key |-> key, b |-> b]) @@ wallet.outputs]
  /\ UNCHANGED << build, call >>

(* The receiver takes an output for his if he derives the same key.        *)
IsMine(output, derivation, spendKey) ==
  wallet.outputs[output].key
    = derive_public_key(derivation, output.index, spendKey, output.suffix)

EndPayment == wallet # NoPayment /\ wallet' = NoPayment /\ UNCHANGED << build, call >>

Payment ==
  \/ Publish
  \/ EndPayment
  \/ \E output \in [index : OutputIndices, suffix : SuffixArgs] :
       \/ PayTo(wallet.b, output)
       \/ PayTo(wallet.b + 1, output)

Next ==
  \/ /\ Idle
     /\ \/ CallDerivation \/ CallDerive \/ CallScalarmult \/ CallAdd \/ CallBase
        \/ CallDoubleBase \/ CallPostcomp
  \/ Finish
  \/ Payment

Spec == Init /\ [][Next]_bindingVars
-----------------------------------------------------------------------------
(* What the answers should be, in the group.                               *)
Encodings == {EncodingOf(P) : P \in Group}
PointOf(encoding) == CHOOSE P \in Group : EncodingOf(P) = encoding
Called(method) == call.method = method
Arg(k) == call.args[k]
Answered == call.answer \notin {Thrown, Aborted}

(* The arguments of a call that are decoded to points, and its scalars.    *)
PointsOf(method, args) ==
  CASE method = "generateKeyDerivation" \/ method = "geScalarmult" -> {args[1]}
    [] method = "derivePublicKey" -> {args[3]}
    [] method = "geAdd" -> {args[1], args[2]}
    [] method = "geScalarmultBase" -> {}
    [] method = "geDoubleScalarmultBaseVartime" -> {args[2]}
    [] method = "geDoubleScalarmultPostcompVartime" -> {args[4]}
ScalarsOf(method, args) ==
  CASE method = "geScalarmultBase" -> {args[1]}
    [] method = "generateKeyDerivation" \/ method = "geScalarmult" -> {args[2]}
    [] method = "geDoubleScalarmultBaseVartime"
         \/ method = "geDoubleScalarmultPostcompVartime" -> {args[1], args[3]}
    [] OTHER -> {}

(* Every method throws for exactly what is no 64 digits or no canonical    *)
(* encoding of a curve point, before anything is computed with it, and     *)
(* answers with such an encoding, whatever the scalars; a debug build ends *)
(* in generateKeyDerivation when the secret key is above l.                *)
AnswersOnCurve ==
  call # None =>
    LET good == Valid(call.args) /\ PointsOf(call.method, call.args) \subseteq Encodings
        asserts == /\ build = "debug" /\ Called("generateKeyDerivation")
                   /\ Valid(call.args) /\ Arg(2) > Order
    IN  IF asserts THEN call.answer = Aborted
        ELSE IF good THEN call.answer \in Encodings
        ELSE call.answer = Thrown

(* With scalars below 2^255, which is all the recodings ask for, the       *)
(* answers are the sums and multiples the methods are named for, and the   *)
(* output index is the number without its fraction.                        *)
ScalarsInRange == \A k \in ScalarsOf(call.method, call.args) : InRange(k)
Exact(P) == call.answer = EncodingOf(P)
AnswersExact ==
  Answered /\ ScalarsInRange =>
    /\ Called("generateKeyDerivation") => Exact(Times(8 * Arg(2), PointOf(Arg(1))))
    /\ Called("geScalarmult") => Exact(Times(Arg(2), PointOf(Arg(1))))
    /\ Called("geAdd") => Exact(Plus(PointOf(Arg(1)), PointOf(Arg(2))))
    /\ Called("geScalarmultBase") => Exact(Times(Arg(1), Base))
    /\ Called("derivePublicKey") /\ Arg(2) >= 0 =>
         Exact(Plus(PointOf(Arg(3)),
                    Times(derivation_to_scalar(Arg(1), Arg(2) \div Unit, << >>), Base)))

(* The double multiplications, with their sliding windows and tables, give *)
(* what the single ones, with another recoding, give when added up.        *)
MethodsAgree ==
  Answered /\ ScalarsInRange =>
    /\ Called("geDoubleScalarmultBaseVartime") =>
         \E P \in {geScalarmult(Arg(2), Arg(1))}, R \in {geScalarmultBase(Arg(3))} :
           call.answer = geAdd(P, R)
    /\ Called("geDoubleScalarmultPostcompVartime") =>
         \E P \in {geScalarmult(Arg(4), Arg(1))}, H \in {hash_to_ec(Arg(2))} :
         \E R \in {geScalarmult(H, Arg(3))} : call.answer = geAdd(P, R)

(* What Cryptonote.nitro.ts and the comment above the function promise:    *)
(* r Pb + c I.                                                             *)
DocumentedOrder ==
  Called("geDoubleScalarmultPostcompVartime") /\ Answered /\ ScalarsInRange =>
    \E P \in {geScalarmult(Arg(4), Arg(3))}, H \in {hash_to_ec(Arg(2))} :
    \E R \in {geScalarmult(H, Arg(1))} : call.answer = geAdd(R, P)

(* Whatever bytes are hashed, hash_to_ec answers with a point of the       *)
(* subgroup of order l, both overloads with the same, and no assertion on  *)
(* its way fails.                                                          *)
HashIntoSubgroup ==
  Called("geDoubleScalarmultPostcompVartime") /\ Valid(call.args) =>
    /\ hash_to_ec(Arg(2)) \in {EncodingOf(P) : P \in PrimeSubgroup}
    /\ hash_to_ec(Arg(2)) = ge_p3_tobytes(hash_to_ecPoint(Arg(2)))
    /\ HashAsserts(Arg(2))

(* The sender's a (r G) and the receiver's r (a G) are the same derivation,*)
(* even if a point of low order was added to the transaction key.          *)
DerivationShared == wallet # NoPayment => SenderDerivation = ReceiverDerivation

(* The receiver recognises exactly the outputs paid to his address, and the*)
(* scalar he derives, added to his spend secret, is the output's secret    *)
(* key.                                                                    *)
PaymentFound ==
  wallet # NoPayment =>
    \A derivation \in {ReceiverDerivation}, spendKey \in {SpendKey(wallet.b)},
       output \in DOMAIN wallet.outputs :
    \A scalar \in {derivation_to_scalar(derivation, output.index, output.suffix)} :
      LET paid == wallet.outputs[output]
      IN  /\ IsMine(output, derivation, spendKey) <=> paid.b = wallet.b
          /\ paid.key = geScalarmultBase(scalar + paid.b)
=============================================================================
