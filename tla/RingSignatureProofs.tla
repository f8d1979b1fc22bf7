------------------------ MODULE RingSignatureProofs ------------------------
(***************************************************************************)
(* Proofs about RingSignature, for every group that satisfies the laws of  *)
(* RingAlgebra, every ring size, every set of threads and of requests.     *)
(***************************************************************************)
EXTENDS RingSignature, TLAPS

-----------------------------------------------------------------------------
(* Algebra of the closing half-signature: r*B + c*(x*B) is the nonce's      *)
(* commitment when r = k - c*x, for every B of the prime-order subgroup.    *)
LEMMA ClosingCommits ==
  ASSUME NEW B \in PrimeOrder, NEW nonce \in Scalars, NEW c \in Scalars,
         NEW x \in Scalars
  PROVE  Plus(Times(Sub(nonce, Mul(c, x)), B), Times(c, Times(x, B)))
           = Times(nonce, B)
<1> DEFINE cx == Mul(c, x)
<1>1. cx \in Scalars /\ Sub(nonce, cx) \in Scalars
  BY ScalarsAssumption
<1>2. Times(c, Times(x, B)) = Times(cx, B)
  BY PointsAssumption
<1>3. Plus(Times(Sub(nonce, cx), B), Times(cx, B)) = Times(Add(Sub(nonce, cx), cx), B)
  BY <1>1, PointsAssumption
<1>4. Add(Sub(nonce, cx), cx) = nonce
  BY <1>1, ScalarsAssumption
<1> QED
  BY <1>2, <1>3, <1>4

(* Every request the threads are given is a request.                        *)
LEMMA RequestShape ==
  ASSUME NEW r \in Requests
  PROVE  /\ r.prefixHash \in Hashes \cup {Malformed}
         /\ r.keyImage \in Encodings \cup {Malformed}
         /\ r.count \in Nat
         /\ r.publicKeys \in [Slots(r) -> Encodings \cup {Malformed}]
         /\ r.secretKey \in Scalars \cup {Malformed}
         /\ r.secretIndex \in Int
BY RequestsAssumption DEF IsRequest

(* The commitments of a half-signature are points.                          *)
LEMMA CommitmentTypes ==
  ASSUME NEW r \in Requests, WellFormed(r), NEW j \in Slots(r),
         r.keyImage \in CurveEncodings, r.publicKeys[j] \in CurveEncodings,
         NEW s \in Signature
  PROVE  DecoyCommitment(r, j, s) \in Points \X Points
<1>1. Base \in Points /\ HashToEc(r.publicKeys[j]) \in Points
  BY PointsAssumption, EncodingsAssumption
<1>2. Decode(r.publicKeys[j]) \in Points /\ Decode(r.keyImage) \in Points
  BY EncodingsAssumption
<1>3. s.c \in Scalars /\ s.r \in Scalars
  BY DEF Signature
<1> QED
  BY <1>1, <1>2, <1>3, PointsAssumption DEF DecoyCommitment

(* The commitment to a nonce is a pair of points.                          *)
LEMMA NonceTypes ==
  ASSUME NEW r \in Requests, WellFormed(r), NEW j \in Slots(r), NEW nonce \in Scalars
  PROVE  NonceCommitment(r, j, nonce) \in Points \X Points
<1>1. r.publicKeys[j] \in Encodings
  BY RequestShape DEF WellFormed
<1>2. Base \in Points /\ HashToEc(r.publicKeys[j]) \in Points
  BY <1>1, PointsAssumption, EncodingsAssumption
<1> QED
  BY <1>2, PointsAssumption DEF NonceCommitment

-----------------------------------------------------------------------------
(* At the end of the loop the index the signer used is the one the caller   *)
(* meant, if the caller is honest.                                          *)
LEMMA HonestIndex ==
  ASSUME NEW r \in Requests, NEW s \in ToSizeT(r), NEW m \in Slots(r),
         r.secretIndex = 2 * m
  PROVE  s = m
<1>1. m \in Int /\ 0 <= m
  BY RequestShape DEF Slots
<1>2. (2 * m) \div 2 = m /\ 2 * m > -2 /\ ~(2 * m < 0)
  BY <1>1
<1> QED
  BY <1>2 DEF ToSizeT

(* Two summands change places.                                              *)
LEMMA AddSwaps ==
  ASSUME NEW a \in Scalars, NEW b \in Scalars, NEW c \in Scalars
  PROVE  Add(Add(a, b), c) = Add(Add(a, c), b)
<1>1. Add(Add(a, b), c) = Add(a, Add(b, c))
  BY ScalarsAssumption
<1>2. Add(Add(a, c), b) = Add(a, Add(c, b))
  BY ScalarsAssumption
<1>3. Add(b, c) = Add(c, b)
  BY ScalarsAssumption
<1> QED
  BY <1>1, <1>2, <1>3

(* The signer's sum skips its own slot; adding what closes the ring there   *)
(* gives the verifier's running sum, and that ends at the hash.             *)
LEMMA ClosingSum ==
  ASSUME NEW n \in Nat, NEW s \in 0..(n - 1),
         NEW half \in [0..(n - 1) -> Signature],
         NEW full \in [0..(n - 1) -> Signature],
         \A j \in 0..(n - 1) : j # s => full[j] = half[j],
         NEW acc \in [0..n -> Scalars],
         IsDecoySum(acc, half, n, s),
         NEW h \in Scalars, full[s].c = Sub(h, acc[n])
  PROVE  \E sums \in [0..n -> Scalars] :
           /\ IsRunningSum(sums, full, n)
           /\ sums[n] = h
<1> DEFINE own == full[s]
           sums == [j \in 0..n |-> IF j <= s THEN acc[j] ELSE Add(acc[j], own.c)]
<1> USE DEF IsDecoySum
<1>1. own.c \in Scalars /\ \A j \in 0..(n - 1) : half[j].c \in Scalars
  BY DEF Signature
<1>2. sums \in [0..n -> Scalars]
  BY <1>1, ScalarsAssumption
<1>3. sums[0] = Zero
  OBVIOUS
<1>4. ASSUME NEW j \in 0..(n - 1)
      PROVE  sums[j + 1] = Add(sums[j], full[j].c)
  <2>1. acc[j] \in Scalars /\ acc[j + 1] \in Scalars /\ j + 1 \in 0..n /\ j \in 0..n
    OBVIOUS
  <2>2. CASE j = s
    BY <2>1, <2>2
  <2>3. CASE j < s
    BY <2>1, <2>3
  <2>4. CASE j > s
    <3>1. sums[j + 1] = Add(Add(acc[j], half[j].c), own.c) /\ sums[j] = Add(acc[j], own.c)
      BY <2>1, <2>4
    <3>2. half[j].c \in Scalars
      BY <1>1
    <3>3. Add(Add(acc[j], half[j].c), own.c) = Add(Add(acc[j], own.c), half[j].c)
      BY <1>1, <2>1, <3>2, AddSwaps
    <3>4. full[j] = half[j]
      BY <2>4
    <3> QED
      BY <3>1, <3>3, <3>4
  <2> QED
    BY <2>2, <2>3, <2>4
<1>5. sums[n] = h
  <2>1. n > s /\ n \in 0..n /\ acc[n] \in Scalars
    OBVIOUS
  <2>2. sums[n] = Add(acc[n], Sub(h, acc[n]))
    BY <2>1
  <2>3. Add(acc[n], Sub(h, acc[n])) = Add(Sub(h, acc[n]), acc[n])
    BY <2>1, ScalarsAssumption
  <2> QED
    BY <2>1, <2>2, <2>3, ScalarsAssumption
<1> HIDE DEF sums
<1> QED
  BY <1>2, <1>3, <1>4, <1>5 DEF IsRunningSum

(* The half-signature that closes the ring has the type of the others.      *)
LEMMA ClosingTypes ==
  ASSUME NEW r \in Requests, WellFormed(r), r.count <= MaxStackRing,
         NEW nonce \in Scalars, NEW total \in Scalars,
         NEW pairs \in [Slots(r) -> Points \X Points]
  PROVE  /\ HashToScalar(r.prefixHash, pairs) \in Scalars
         /\ Closing(r, nonce, total, pairs) \in Signature
         /\ Closing(r, nonce, total, pairs).c = Sub(HashToScalar(r.prefixHash, pairs), total)
<1>1. r.prefixHash \in Hashes /\ r.secretKey \in Scalars /\ r.count \in 0..MaxStackRing
  BY RequestShape, HashAssumption DEF WellFormed
<1>2. HashToScalar(r.prefixHash, pairs) \in Scalars
  BY <1>1, HashAssumption DEF Slots
<1> QED
  BY <1>1, <1>2, ScalarsAssumption DEF Closing, Signature

(* What the signer returns at the end of its loop verifies.                 *)
LEMMA ClosingVerifies ==
  ASSUME NEW t \in Threads, call[t] \in Requests, Accepted(t), LoopInvariantOf(t),
         i[t] = call[t].count, Honest(call[t])
  PROVE  CheckRingSignature(call[t],
           [sig[t] EXCEPT ![secIndex[t]] = Closing(call[t], k[t], sum[t], ab[t])])
<1> DEFINE r == call[t]
           n == call[t].count
           s == secIndex[t]
           own == Closing(call[t], k[t], sum[t], ab[t])
           full == [sig[t] EXCEPT ![secIndex[t]] = Closing(call[t], k[t], sum[t], ab[t])]
           h == HashToScalar(r.prefixHash, ab[t])
           x == r.secretKey
<1>1. PICK m \in Slots(r) : OwnsMember(r, m)
  BY DEF Honest
<1>2. s = m
  BY <1>1, HonestIndex DEF OwnsMember, Accepted
<1>3. /\ n \in Nat /\ s \in 0..(n - 1) /\ WellFormed(r) /\ n <= MaxStackRing
      /\ sig[t] \in [0..(n - 1) -> Signature]
      /\ ab[t] \in [0..(n - 1) -> Points \X Points]
      /\ k[t] \in Scalars /\ sum[t] \in Scalars
      /\ ab[t][s] = NonceCommitment(r, s, k[t])
      /\ \A j \in 0..(n - 1) : j # s => ab[t][j] = DecoyCommitment(r, j, sig[t][j])
  BY <1>1, <1>2, RequestShape DEF LoopInvariantOf, LoopInvariant, Accepted, Slots
<1>4. x \in Scalars
  BY <1>3, RequestShape DEF WellFormed
<1>5. h \in Scalars /\ own \in Signature /\ own.c = Sub(h, sum[t])
  BY <1>3, ClosingTypes DEF Slots
<1>6. own.r = Sub(k[t], Mul(own.c, x)) /\ own.c \in Scalars
  BY <1>5 DEF Closing, Signature
<1>7. DecoyCommitment(r, s, own) = NonceCommitment(r, s, k[t])
  <2>1. /\ Decode(r.publicKeys[s]) = Times(x, Base)
        /\ Decode(r.keyImage) = Times(x, HashToEc(r.publicKeys[s]))
    BY <1>1, <1>2 DEF OwnsMember
  <2>2. HashToEc(r.publicKeys[s]) \in PrimeOrder
    BY <1>1, <1>2, EncodingsAssumption DEF OwnsMember
  <2>3. Plus(Times(own.r, Base), Times(own.c, Times(x, Base))) = Times(k[t], Base)
    BY <1>3, <1>4, <1>6, ClosingCommits, PointsAssumption
  <2>4. Plus(Times(own.r, HashToEc(r.publicKeys[s])),
             Times(own.c, Times(x, HashToEc(r.publicKeys[s]))))
          = Times(k[t], HashToEc(r.publicKeys[s]))
    BY <1>3, <1>4, <1>6, <2>2, ClosingCommits
  <2> QED
    BY <2>1, <2>3, <2>4 DEF DecoyCommitment, NonceCommitment
<1>8. [j \in Slots(r) |-> DecoyCommitment(r, j, full[j])] = ab[t]
  <2>1. ASSUME NEW j \in 0..(n - 1)
        PROVE  DecoyCommitment(r, j, full[j]) = ab[t][j]
    <3>1. CASE j = s
      BY <1>3, <1>7, <3>1
    <3>2. CASE j # s
      BY <1>3, <3>2
    <3> QED
      BY <3>1, <3>2
  <2> QED
    BY <1>3, <2>1 DEF Slots
<1>9. PICK acc \in [0..n -> Scalars] :
        IsDecoySum(acc, sig[t], n, s) /\ acc[n] = sum[t]
  BY DEF LoopInvariantOf, LoopInvariant
<1>10. \E sums \in [0..n -> Scalars] : IsRunningSum(sums, full, n) /\ sums[n] = h
  <2>3. n \in Nat /\ s \in 0..(n - 1) /\ sig[t] \in [0..(n - 1) -> Signature]
    BY <1>3
  <2>4. /\ full \in [0..(n - 1) -> Signature]
        /\ full[s] = own
        /\ \A j \in 0..(n - 1) : j # s => full[j] = sig[t][j]
    BY <1>3, <1>5
  <2>5. full[s].c = Sub(h, acc[n])
    BY <1>5, <1>9, <2>4
  <2> HIDE DEF n, s, own, h, full
  <2> QED
    BY <1>5, <1>9, <2>3, <2>4, <2>5, ClosingSum
<1>11. r.keyImage \in CurveEncodings /\ \A j \in Slots(r) : r.publicKeys[j] \in CurveEncodings
  BY <1>1 DEF OwnsMember
<1>12. r.count = n /\ h = HashToScalar(r.prefixHash,
                            [j \in Slots(r) |-> DecoyCommitment(r, j, full[j])])
  BY <1>8
<1> HIDE DEF r, full, h, n
<1>13. CheckRingSignature(r, full)
  BY <1>10, <1>11, <1>12 DEF CheckRingSignature
<1> QED
  BY <1>13 DEF r, full

-----------------------------------------------------------------------------
(* The inductive invariant: types, the lock, the loop, and the property.    *)
IInv == TypeOK /\ LockDiscipline /\ SignerInvariant /\ SignedVerifies

(* The invariant at the start.                                             *)
LEMMA InitIInv == Init => IInv
<1> SUFFICES ASSUME Init PROVE IInv
  OBVIOUS
<1>1. TypeOK
  BY DEF Init, TypeOK
<1>2. LockDiscipline
  BY ThreadsAssumption DEF Init, LockDiscipline, Signing
<1>3. SignerInvariant /\ SignedVerifies
  BY DEF Init, SignerInvariant, SignerInvariantOf, SignedVerifies, SignedVerifiesOf
<1> QED
  BY <1>1, <1>2, <1>3 DEF IInv

(* The index conversion yields a natural number.                            *)
LEMMA IndexType ==
  ASSUME NEW r \in Requests
  PROVE  ToSizeT(r) \subseteq Nat
<1>1. r.count \in Nat /\ r.secretIndex \in Int
  BY RequestShape
<1>2. r.secretIndex >= 0 => r.secretIndex \div 2 \in Nat
  BY <1>1
<1> QED
  BY <1>1, <1>2 DEF ToSizeT

(* A step of one thread leaves the frames of the others alone.              *)
LEMMA OthersUntouched ==
  ASSUME TypeOK, NEW t \in Threads, Step(t), NEW u \in Threads, u # t
  PROVE  /\ pc'[u] = pc[u] /\ call'[u] = call[u] /\ secIndex'[u] = secIndex[u]
         /\ i'[u] = i[u] /\ sum'[u] = sum[u] /\ k'[u] = k[u]
         /\ ab'[u] = ab[u] /\ sig'[u] = sig[u] /\ outcome'[u] = outcome[u]
<1> USE DEF TypeOK, Goto, locals, Unlock
<1>1. CASE \E r \in Requests : Call(t, r)
  BY <1>1 DEF Call
<1>2. CASE Reject(t)
  BY <1>2 DEF Reject
<1>3. CASE Accept(t)
  BY <1>3 DEF Accept
<1>4. CASE Lock(t)
  BY <1>4 DEF Lock
<1>5. CASE Overflow(t) \/ AbortOnImage(t) \/ AbortOnKey(t)
  BY <1>5 DEF Overflow, AbortOnImage, AbortOnKey
<1>6. CASE DecodeImage(t)
  BY <1>6 DEF DecodeImage
<1>7. CASE SignerSlot(t)
  BY <1>7 DEF SignerSlot, Write
<1>8. CASE DecoySlot(t)
  BY <1>8 DEF DecoySlot, Write
<1>9. CASE Close(t)
  BY <1>9 DEF Close
<1>10. CASE Return(t)
  BY <1>10 DEF Return
<1> QED
  BY <1>1, <1>2, <1>3, <1>4, <1>5, <1>6, <1>7, <1>8, <1>9, <1>10 DEF Step, Work

(* A thread's step leaves what is said of the others.                      *)
LEMMA OthersKeepInvariant ==
  ASSUME IInv, NEW t \in Threads, Step(t), NEW u \in Threads, u # t
  PROVE  SignerInvariantOf(u)' /\ SignedVerifiesOf(u)'
<1>1. /\ pc'[u] = pc[u] /\ call'[u] = call[u] /\ secIndex'[u] = secIndex[u]
      /\ i'[u] = i[u] /\ sum'[u] = sum[u] /\ k'[u] = k[u]
      /\ ab'[u] = ab[u] /\ sig'[u] = sig[u] /\ outcome'[u] = outcome[u]
  BY OthersUntouched DEF IInv
<1>2. SignerInvariantOf(u) /\ SignedVerifiesOf(u)
  BY DEF IInv, SignerInvariant, SignedVerifies
<1>3. Accepted(u) => Accepted(u)'
  BY <1>1 DEF Accepted
<1>4. LoopInvariantOf(u) => LoopInvariantOf(u)'
  BY <1>1 DEF LoopInvariantOf
<1>5. SignerInvariantOf(u)'
  BY <1>1, <1>2, <1>3, <1>4 DEF SignerInvariantOf
<1>6. SignedVerifiesOf(u)'
  BY <1>1, <1>2 DEF SignedVerifiesOf
<1> QED
  BY <1>5, <1>6

(* Every step keeps the types.                                              *)
LEMMA StepKeepsTypes ==
  ASSUME IInv, NEW t \in Threads, Step(t)
  PROVE  TypeOK'
<1> USE DEF Goto, locals, Unlock, Summed
<1>0. TypeOK /\ SignerInvariantOf(t)
  BY DEF IInv, SignerInvariant
<1>00. pc[t] # "idle" => call[t] \in Requests /\ call[t].count \in Nat
  BY <1>0, RequestShape DEF TypeOK
<1>1. CASE \E r \in Requests : Call(t, r)
  BY <1>0, <1>1 DEF Call, TypeOK, At
<1>2. CASE Reject(t)
  BY <1>0, <1>2 DEF Reject, TypeOK, At
<1>3. CASE Accept(t)
  BY <1>0, <1>00, <1>3, IndexType DEF Accept, TypeOK, At
<1>4. CASE Lock(t)
  BY <1>0, <1>4 DEF Lock, TypeOK, At
<1>5. CASE Overflow(t) \/ AbortOnImage(t) \/ AbortOnKey(t)
  BY <1>0, <1>5 DEF Overflow, AbortOnImage, AbortOnKey, TypeOK, At
<1>6. CASE DecodeImage(t)
  BY <1>0, <1>6, ScalarsAssumption DEF DecodeImage, TypeOK, At
<1>7. CASE SignerSlot(t)
  BY <1>0, <1>7 DEF SignerSlot, Write, InLoop, TypeOK, At
<1>8. CASE DecoySlot(t)
  <2>1. PICK s \in Signature :
          /\ sig' = [sig EXCEPT ![t][i[t]] = s]
          /\ sum' = [sum EXCEPT ![t] = Add(sum[t], s.c)]
    BY <1>8 DEF DecoySlot
  <2>2. sum[t] \in Scalars
    BY <1>0, <1>8 DEF DecoySlot, InLoop, At, SignerInvariantOf, LoopInvariantOf, LoopInvariant
  <2>3. Add(sum[t], s.c) \in Scalars
    BY <2>2, ScalarsAssumption DEF Signature
  <2> QED
    BY <1>0, <1>8, <2>1, <2>3 DEF DecoySlot, Write, InLoop, TypeOK, At
<1>9. CASE Close(t)
  BY <1>0, <1>9 DEF Close, TypeOK, At
<1>10. CASE Return(t)
  BY <1>0, <1>10 DEF Return, TypeOK, At
<1> QED
  BY <1>1, <1>2, <1>3, <1>4, <1>5, <1>6, <1>7, <1>8, <1>9, <1>10 DEF Step, Work

(* The lock changes hands only through Lock and Close.                      *)
LEMMA StepKeepsLock ==
  ASSUME IInv, NEW t \in Threads, Step(t)
  PROVE  LockDiscipline'
<1> USE DEF Goto, locals, LockIsFree, Unlock, Summed, Signing
<1>0. TypeOK /\ LockDiscipline
  BY DEF IInv
<1>1. \A u \in Threads : u # t => pc'[u] = pc[u]
  BY <1>0, OthersUntouched
<1>2. CASE (\E r \in Requests : Call(t, r)) \/ Reject(t) \/ Accept(t) \/ Return(t)
  <2>1. lock' = lock /\ pc[t] \notin Signing /\ pc'[t] \notin Signing
    BY <1>0, <1>2 DEF Call, Reject, Accept, Return, At, TypeOK
  <2> QED
    BY <1>0, <1>1, <2>1 DEF LockDiscipline
<1>3. CASE Lock(t)
  <2>1. lock = NoThread /\ lock' = t /\ pc'[t] \in Signing
    BY <1>0, <1>3 DEF Lock, TypeOK
  <2> QED
    BY <1>0, <1>1, <2>1, ThreadsAssumption DEF LockDiscipline
<1>4. CASE \/ Overflow(t) \/ AbortOnImage(t) \/ AbortOnKey(t) \/ DecodeImage(t)
           \/ SignerSlot(t) \/ DecoySlot(t)
  <2>1. lock' = lock /\ pc[t] \in Signing /\ pc'[t] \in Signing
    BY <1>0, <1>4 DEF Overflow, AbortOnImage, AbortOnKey, DecodeImage, SignerSlot,
                      DecoySlot, InLoop, At, TypeOK
  <2> QED
    BY <1>0, <1>1, <2>1 DEF LockDiscipline
<1>5. CASE Close(t)
  <2>1. lock' = NoThread /\ pc[t] \in Signing /\ pc'[t] \notin Signing
    BY <1>0, <1>5 DEF Close, At, TypeOK
  <2> QED
    BY <1>0, <1>1, <2>1, ThreadsAssumption DEF LockDiscipline
<1> QED
  BY <1>2, <1>3, <1>4, <1>5 DEF Step, Work

-----------------------------------------------------------------------------
(* The loop is entered with its invariant established by an empty sum.      *)
LEMMA DecodeImageKeeps ==
  ASSUME IInv, NEW t \in Threads, DecodeImage(t)
  PROVE  SignerInvariantOf(t)'
<1>0. /\ TypeOK /\ SignerInvariantOf(t) /\ pc[t] = "image"
      /\ call[t] \in Requests /\ call[t].count \in Nat
  BY RequestShape DEF IInv, SignerInvariant, DecodeImage, At, TypeOK
<1>1. /\ pc'[t] = "ring" /\ i'[t] = 0 /\ sum'[t] = Zero /\ ab'[t] = NoSlots
      /\ call' = call /\ secIndex' = secIndex /\ sig' = sig /\ k' = k
      /\ call[t].keyImage \in CurveEncodings /\ call[t].count <= MaxStackRing
  BY <1>0 DEF DecodeImage, SignerInvariantOf, TypeOK, Goto
<1>2. Accepted(t)'
  BY <1>0, <1>1 DEF SignerInvariantOf, Accepted
<1>3. \E acc \in [0..0 -> Scalars] :
         IsDecoySum(acc, sig[t], 0, secIndex[t]) /\ acc[0] = Zero
  <2> DEFINE acc == [j \in 0..0 |-> Zero]
  <2>1. acc \in [0..0 -> Scalars] /\ acc[0] = Zero
    BY ScalarsAssumption
  <2>2. IsDecoySum(acc, sig[t], 0, secIndex[t])
    BY <2>1 DEF IsDecoySum
  <2> QED
    BY <2>1, <2>2
<1>4. ab'[t] \in [0..(0 - 1) -> Points \X Points]
  BY <1>1 DEF NoSlots
<1>5. secIndex[t] \in Nat
  BY <1>0 DEF TypeOK
<1>6. LoopInvariant(call[t], secIndex[t], 0, Zero, k[t], NoSlots, sig[t])
  <2>1. NoSlots \in [0..(0 - 1) -> Points \X Points]
    BY <1>1, <1>4
  <2>2. ~(secIndex[t] < 0) /\ \A j \in 0..(0 - 1) : FALSE
    BY <1>5
  <2>3. Zero \in Scalars
    BY ScalarsAssumption
  <2> QED
    BY <1>0, <1>1, <1>3, <2>1, <2>2, <2>3 DEF LoopInvariant
<1>7. LoopInvariantOf(t)'
  BY <1>1, <1>6 DEF LoopInvariantOf
<1> QED
  BY <1>1, <1>2, <1>7 DEF SignerInvariantOf

(* The signer's own slot leaves the sum alone and records the nonce.        *)
LEMMA SignerSlotKeeps ==
  ASSUME IInv, NEW t \in Threads, SignerSlot(t)
  PROVE  SignerInvariantOf(t)'
<1> DEFINE n == i[t]
<1>0. /\ TypeOK /\ SignerInvariantOf(t) /\ pc[t] = "ring"
      /\ call[t] \in Requests /\ call[t].count \in Nat
      /\ n \in Nat /\ n < call[t].count /\ n = secIndex[t]
  BY RequestShape DEF IInv, SignerInvariant, SignerSlot, InLoop, At, TypeOK
<1>1. PICK nonce \in Scalars :
        /\ k' = [k EXCEPT ![t] = nonce]
        /\ Write(t, NonceCommitment(call[t], i[t], nonce))
  BY DEF SignerSlot
<1> DEFINE pair == NonceCommitment(call[t], n, nonce)
<1>2. /\ i'[t] = n + 1 /\ k'[t] = nonce
      /\ ab'[t] = [j \in 0..n |-> IF j = n THEN pair ELSE ab[t][j]]
      /\ pc' = pc /\ call' = call /\ secIndex' = secIndex /\ sum' = sum /\ sig' = sig
  BY <1>0, <1>1 DEF SignerSlot, Write, TypeOK
<1>3. Accepted(t) /\ LoopInvariantOf(t)
  BY <1>0 DEF SignerInvariantOf
<1>4. pair \in Points \X Points
  BY <1>0, <1>3, NonceTypes DEF Accepted, Slots
<1>5. ab'[t] \in [0..((n + 1) - 1) -> Points \X Points]
  BY <1>0, <1>2, <1>3, <1>4 DEF LoopInvariantOf, LoopInvariant
<1>6. PICK acc \in [0..n -> Scalars] :
        IsDecoySum(acc, sig[t], n, secIndex[t]) /\ acc[n] = sum[t]
  BY <1>3 DEF LoopInvariantOf, LoopInvariant
<1>7. \E more \in [0..(n + 1) -> Scalars] :
        IsDecoySum(more, sig[t], n + 1, secIndex[t]) /\ more[n + 1] = sum[t]
  <2> DEFINE more == [j \in 0..(n + 1) |-> IF j <= n THEN acc[j] ELSE acc[n]]
  <2>1. more \in [0..(n + 1) -> Scalars] /\ more[n + 1] = sum[t]
    BY <1>0, <1>6
  <2>2. ASSUME NEW j \in 0..((n + 1) - 1)
        PROVE  more[j + 1] = IF j = secIndex[t] THEN more[j] ELSE Add(more[j], sig[t][j].c)
    <3>1. CASE j = n
      BY <1>0, <3>1
    <3>2. CASE j # n
      <4>1. j \in 0..(n - 1) /\ j + 1 <= n
        BY <1>0, <3>2
      <4> QED
        BY <1>0, <1>6, <4>1 DEF IsDecoySum
    <3> QED
      BY <3>1, <3>2
  <2>3. more[0] = Zero
    BY <1>0, <1>6 DEF IsDecoySum
  <2> HIDE DEF more
  <2>4. IsDecoySum(more, sig[t], n + 1, secIndex[t])
    BY <2>2, <2>3 DEF IsDecoySum
  <2> QED
    BY <2>1, <2>4
<1>8. \A j \in 0..((n + 1) - 1) : j # secIndex[t] =>
        /\ call[t].publicKeys[j] \in CurveEncodings
        /\ ab'[t][j] = DecoyCommitment(call[t], j, sig[t][j])
  BY <1>0, <1>2, <1>3 DEF LoopInvariantOf, LoopInvariant
<1>9. k'[t] \in Scalars /\ ab'[t][secIndex[t]] = NonceCommitment(call[t], secIndex[t], k'[t])
  BY <1>0, <1>2
<1>10. /\ n + 1 <= call[t].count /\ call[t].count <= MaxStackRing
       /\ call[t].keyImage \in CurveEncodings /\ sum[t] \in Scalars
  BY <1>0, <1>3 DEF LoopInvariantOf, LoopInvariant
<1>11. LoopInvariant(call[t], secIndex[t], n + 1, sum[t], k'[t], ab'[t], sig[t])
  <2> HIDE DEF n
  <2> QED
    BY <1>5, <1>7, <1>8, <1>9, <1>10 DEF LoopInvariant
<1>12. LoopInvariantOf(t)'
  BY <1>2, <1>11 DEF LoopInvariantOf
<1>13. Accepted(t)'
  BY <1>2, <1>3 DEF Accepted
<1> QED
  BY <1>0, <1>2, <1>12, <1>13 DEF SignerInvariantOf

(* A decoy's slot adds its c-component and records its commitments.         *)
LEMMA DecoySlotKeeps ==
  ASSUME IInv, NEW t \in Threads, DecoySlot(t)
  PROVE  SignerInvariantOf(t)'
<1> DEFINE n == i[t]
<1>0. /\ TypeOK /\ SignerInvariantOf(t) /\ pc[t] = "ring"
      /\ call[t] \in Requests /\ call[t].count \in Nat /\ secIndex[t] \in Nat
      /\ n \in Nat /\ n < call[t].count /\ n # secIndex[t]
      /\ call[t].publicKeys[n] \in CurveEncodings
  BY RequestShape DEF IInv, SignerInvariant, DecoySlot, InLoop, At, TypeOK
<1>1. PICK s \in Signature :
        /\ sig' = [sig EXCEPT ![t][i[t]] = s]
        /\ Write(t, DecoyCommitment(call[t], i[t], s))
        /\ sum' = [sum EXCEPT ![t] = Add(sum[t], s.c)]
  BY DEF DecoySlot, Summed
<1> DEFINE pair == DecoyCommitment(call[t], n, s)
<1>2. /\ i'[t] = n + 1 /\ sum'[t] = Add(sum[t], s.c)
      /\ sig'[t] = [sig[t] EXCEPT ![n] = s]
      /\ ab'[t] = [j \in 0..n |-> IF j = n THEN pair ELSE ab[t][j]]
      /\ pc' = pc /\ call' = call /\ secIndex' = secIndex /\ k' = k
  BY <1>0, <1>1 DEF DecoySlot, Write, TypeOK
<1>3. Accepted(t) /\ LoopInvariantOf(t)
  BY <1>0 DEF SignerInvariantOf
<1>4. s.c \in Scalars /\ sum[t] \in Scalars /\ Add(sum[t], s.c) \in Scalars
  BY <1>3, ScalarsAssumption DEF LoopInvariantOf, LoopInvariant, Signature
<1>5. pair \in Points \X Points
  BY <1>0, <1>3, CommitmentTypes DEF Accepted, LoopInvariantOf, LoopInvariant, Slots
<1>6. ab'[t] \in [0..((n + 1) - 1) -> Points \X Points]
  BY <1>0, <1>2, <1>3, <1>5 DEF LoopInvariantOf, LoopInvariant
<1>7. /\ sig'[t] \in [Slots(call[t]) -> Signature] /\ sig'[t][n] = s
      /\ \A j \in Slots(call[t]) : j # n => sig'[t][j] = sig[t][j]
  BY <1>0, <1>2, <1>3 DEF Accepted, Slots
<1>8. PICK acc \in [0..n -> Scalars] :
        IsDecoySum(acc, sig[t], n, secIndex[t]) /\ acc[n] = sum[t]
  BY <1>3 DEF LoopInvariantOf, LoopInvariant
<1>9. \E more \in [0..(n + 1) -> Scalars] :
        IsDecoySum(more, sig'[t], n + 1, secIndex[t]) /\ more[n + 1] = sum'[t]
  <2> DEFINE more == [j \in 0..(n + 1) |-> IF j <= n THEN acc[j] ELSE Add(acc[n], s.c)]
  <2>1. more \in [0..(n + 1) -> Scalars] /\ more[n + 1] = sum'[t]
    BY <1>0, <1>2, <1>4, <1>8
  <2>2. more[0] = Zero
    BY <1>0, <1>8 DEF IsDecoySum
  <2>3. ASSUME NEW j \in 0..((n + 1) - 1)
        PROVE  more[j + 1] = IF j = secIndex[t] THEN more[j] ELSE Add(more[j], sig'[t][j].c)
    <3>1. CASE j = n
      BY <1>0, <1>7, <1>8, <3>1
    <3>2. CASE j # n
      <4>1. j \in 0..(n - 1) /\ j + 1 <= n /\ sig'[t][j] = sig[t][j]
        BY <1>0, <1>7, <3>2 DEF Slots
      <4>2. acc[j + 1] = IF j = secIndex[t] THEN acc[j] ELSE Add(acc[j], sig[t][j].c)
        BY <1>8, <4>1 DEF IsDecoySum
      <4> QED
        BY <1>0, <4>1, <4>2
    <3> QED
      BY <3>1, <3>2
  <2> HIDE DEF more
  <2>4. IsDecoySum(more, sig'[t], n + 1, secIndex[t])
    BY <2>2, <2>3 DEF IsDecoySum
  <2> QED
    BY <2>1, <2>4
<1>10. ASSUME NEW j \in 0..((n + 1) - 1), j # secIndex[t]
       PROVE  /\ call[t].publicKeys[j] \in CurveEncodings
              /\ ab'[t][j] = DecoyCommitment(call[t], j, sig'[t][j])
  <2>1. CASE j = n
    BY <1>0, <1>2, <1>7, <2>1
  <2>2. CASE j # n
    <3>1. j \in 0..(n - 1) /\ j \in Slots(call[t]) /\ j \in 0..n
      BY <1>0, <2>2 DEF Slots
    <3>2. ab'[t][j] = ab[t][j] /\ sig'[t][j] = sig[t][j]
      BY <1>2, <1>7, <2>2, <3>1
    <3> QED
      BY <1>3, <1>10, <3>1, <3>2 DEF LoopInvariantOf, LoopInvariant
  <2> QED
    BY <2>1, <2>2
<1>11. secIndex[t] < n + 1 =>
         k[t] \in Scalars /\ ab'[t][secIndex[t]] = NonceCommitment(call[t], secIndex[t], k[t])
  BY <1>0, <1>2, <1>3 DEF LoopInvariantOf, LoopInvariant
<1>12. /\ n + 1 <= call[t].count /\ call[t].count <= MaxStackRing
       /\ call[t].keyImage \in CurveEncodings /\ sum'[t] \in Scalars
  BY <1>0, <1>2, <1>3, <1>4 DEF LoopInvariantOf, LoopInvariant
<1>13. LoopInvariant(call[t], secIndex[t], n + 1, sum'[t], k[t], ab'[t], sig'[t])
  <2> HIDE DEF n
  <2> QED
    BY <1>6, <1>9, <1>10, <1>11, <1>12 DEF LoopInvariant
<1>14. LoopInvariantOf(t)'
  BY <1>2, <1>13 DEF LoopInvariantOf
<1>15. Accepted(t)'
  BY <1>2, <1>3, <1>7 DEF Accepted
<1> QED
  BY <1>0, <1>2, <1>14, <1>15 DEF SignerInvariantOf

(* The thread that steps keeps its part of the invariant.                   *)
LEMMA StepKeepsSigner ==
  ASSUME IInv, NEW t \in Threads, Step(t)
  PROVE  SignerInvariantOf(t)'
<1> USE DEF Goto, locals, LockIsFree, Unlock, Summed
<1>0. TypeOK /\ SignerInvariantOf(t)
  BY DEF IInv, SignerInvariant
<1>1. CASE \E r \in Requests : Call(t, r)
  <2>1. pc'[t] = "validate" /\ pc[t] = "idle" /\ ab' = ab
    BY <1>0, <1>1 DEF Call, At, TypeOK
  <2> QED
    BY <1>0, <2>1 DEF SignerInvariantOf
<1>2. CASE Reject(t) \/ Close(t)
  <2>1. pc'[t] = "answered"
    BY <1>0, <1>2 DEF Reject, Close, TypeOK
  <2> QED
    BY <2>1 DEF SignerInvariantOf
<1>3. CASE Accept(t)
  <2>1. PICK s \in ToSizeT(call[t]) :
          ~Invalid(call[t], s) /\ secIndex' = [secIndex EXCEPT ![t] = s]
    BY <1>3 DEF Accept
  <2>2. /\ pc'[t] = "lock" /\ pc[t] = "validate" /\ ab' = ab /\ call' = call
        /\ secIndex'[t] = s /\ sig'[t] = [j \in Slots(call[t]) |-> Blank]
        /\ call[t] \in Requests
    BY <1>0, <1>3, <2>1 DEF Accept, At, TypeOK
  <2>3. s \in Nat /\ call[t].count \in Nat
    BY <2>2, RequestShape, IndexType
  <2>4. WellFormed(call[t]) /\ s < call[t].count
    BY <2>1, <2>3 DEF Invalid
  <2>5. Blank \in Signature
    BY ScalarsAssumption DEF Blank, Signature
  <2>6. Accepted(t)'
    BY <2>1, <2>2, <2>4, <2>5 DEF Accepted
  <2> QED
    BY <1>0, <2>2, <2>6 DEF SignerInvariantOf
<1>4. CASE Lock(t)
  <2>1. /\ pc'[t] = "image" /\ pc[t] = "lock"
        /\ ab' = ab /\ call' = call /\ secIndex' = secIndex /\ sig' = sig
    BY <1>0, <1>4 DEF Lock, At, TypeOK
  <2>2. Accepted(t)'
    BY <1>0, <2>1 DEF SignerInvariantOf, Accepted
  <2> QED
    BY <1>0, <2>1, <2>2 DEF SignerInvariantOf
<1>5. CASE Overflow(t) \/ AbortOnImage(t) \/ AbortOnKey(t)
  <2>1. UNCHANGED << pc, call, secIndex, locals, sig >>
    BY <1>5 DEF Overflow, AbortOnImage, AbortOnKey
  <2>2. (Accepted(t) => Accepted(t)') /\ (LoopInvariantOf(t) => LoopInvariantOf(t)')
    BY <2>1 DEF Accepted, LoopInvariantOf
  <2> QED
    BY <1>0, <2>1, <2>2 DEF SignerInvariantOf
<1>6. CASE DecodeImage(t)
  BY <1>6, DecodeImageKeeps
<1>7. CASE SignerSlot(t)
  BY <1>7, SignerSlotKeeps
<1>8. CASE DecoySlot(t)
  BY <1>8, DecoySlotKeeps
<1>9. CASE Return(t)
  <2>1. pc'[t] = "idle" /\ ab'[t] = NoSlots
    BY <1>0, <1>9 DEF Return, TypeOK
  <2> QED
    BY <2>1 DEF SignerInvariantOf
<1> QED
  BY <1>1, <1>2, <1>3, <1>4, <1>5, <1>6, <1>7, <1>8, <1>9 DEF Step, Work

(* Signatures are handed over by Close alone, and those verify.             *)
LEMMA StepKeepsVerified ==
  ASSUME IInv, NEW t \in Threads, Step(t)
  PROVE  SignedVerifiesOf(t)'
<1> USE DEF Goto, locals, LockIsFree, Unlock, Summed
<1>0. TypeOK /\ SignerInvariantOf(t) /\ SignedVerifiesOf(t)
  BY DEF IInv, SignerInvariant, SignedVerifies
<1>1. CASE Reject(t)
  <2>1. outcome'[t] = "threw"
    BY <1>0, <1>1 DEF Reject, TypeOK
  <2> QED
    BY <2>1 DEF SignedVerifiesOf
<1>2. CASE Close(t)
  <2>1. /\ pc[t] = "ring" /\ i[t] = call[t].count /\ call' = call
        /\ sig'[t] = [sig[t] EXCEPT ![secIndex[t]] = Closing(call[t], k[t], sum[t], ab[t])]
    BY <1>0, <1>2 DEF Close, At, TypeOK
  <2>2. call[t] \in Requests /\ Accepted(t) /\ LoopInvariantOf(t)
    BY <1>0, <2>1 DEF TypeOK, SignerInvariantOf
  <2>3. Honest(call[t]) => CheckRingSignature(call[t], sig'[t])
    BY <2>1, <2>2, ClosingVerifies
  <2> QED
    BY <2>1, <2>3 DEF SignedVerifiesOf
<1>3. CASE \/ \E r \in Requests : Call(t, r)
           \/ Accept(t) \/ Lock(t) \/ DecodeImage(t) \/ Return(t)
  <2>1. pc'[t] # "answered"
    BY <1>0, <1>3 DEF Call, Accept, Lock, DecodeImage, Return, TypeOK
  <2> QED
    BY <2>1 DEF SignedVerifiesOf
<1>4. CASE Overflow(t) \/ AbortOnImage(t) \/ AbortOnKey(t) \/ SignerSlot(t) \/ DecoySlot(t)
  <2>1. pc' = pc /\ pc[t] # "answered"
    BY <1>4 DEF Overflow, AbortOnImage, AbortOnKey, SignerSlot, DecoySlot, InLoop, At
  <2> QED
    BY <2>1 DEF SignedVerifiesOf
<1> QED
  BY <1>1, <1>2, <1>3, <1>4 DEF Step, Work

(* Every step of the specification keeps the invariant.                     *)
LEMMA NextKeepsIInv == IInv /\ [Next]_vars => IInv'
<1> SUFFICES ASSUME IInv, [Next]_vars PROVE IInv'
  OBVIOUS
<1>1. CASE \E t \in Threads : Step(t)
  <2>1. PICK t \in Threads : Step(t)
    BY <1>1
  <2>2. TypeOK' /\ LockDiscipline'
    BY <2>1, StepKeepsTypes, StepKeepsLock
  <2>3. \A u \in Threads : SignerInvariantOf(u)' /\ SignedVerifiesOf(u)'
    BY <2>1, OthersKeepInvariant, StepKeepsSigner, StepKeepsVerified
  <2> QED
    BY <2>2, <2>3 DEF IInv, SignerInvariant, SignedVerifies
<1>2. CASE UNCHANGED vars
  <2> USE <1>2 DEF vars, locals
  <2>1. TypeOK' /\ LockDiscipline'
    BY DEF IInv, TypeOK, LockDiscipline
  <2>2. ASSUME NEW u \in Threads
        PROVE  SignerInvariantOf(u)' /\ SignedVerifiesOf(u)'
    BY DEF IInv, SignerInvariant, SignedVerifies, SignerInvariantOf, SignedVerifiesOf,
           Accepted, LoopInvariantOf
  <2> QED
    BY <2>1, <2>2 DEF IInv, SignerInvariant, SignedVerifies
<1> QED
  BY <1>1, <1>2 DEF Next, Dead

(* The invariant holds throughout.                                          *)
THEOREM InvariantHolds == Spec => []IInv
<1> QED
  BY InitIInv, NextKeepsIInv, PTL DEF Spec

(* Types: every variable holds what the code may put there.                 *)
THEOREM TypeCorrect == Spec => []TypeOK
<1>1. IInv => TypeOK
  BY DEF IInv
<1> QED
  BY <1>1, InvariantHolds, PTL

(* random_lock is held exactly inside generate_ring_signature.              *)
THEOREM LockIsHeldInTheSigner == Spec => []LockDiscipline
<1>1. IInv => LockDiscipline
  BY DEF IInv
<1> QED
  BY <1>1, InvariantHolds, PTL

(* For every group with the laws of RingAlgebra, any ring up to the stack's *)
(* limit, any number of threads and any random scalars: what an honest      *)
(* caller of generateRingSignature gets is accepted by check_ring_signature. *)
THEOREM SignaturesVerify == Spec => []SignedVerifies
<1>1. IInv => SignedVerifies
  BY DEF IInv
<1> QED
  BY <1>1, InvariantHolds, PTL

(* Inside the signer, what the loop has summed and where it stands agree.   *)
THEOREM SignerIsConsistent == Spec => []SignerInvariant
<1>1. IInv => SignerInvariant
  BY DEF IInv
<1> QED
  BY <1>1, InvariantHolds, PTL
-----------------------------------------------------------------------------
(* No outcome is left in a frame before the call is answered.               *)
Fresh == \A t \in Threads : pc[t] # "answered" => outcome[t] = "none"

(* An honest request passes every check of the validation, and everything   *)
(* the signer decodes is a curve point.                                     *)
LEMMA HonestIsValid ==
  ASSUME NEW r \in Requests, Honest(r)
  PROVE  /\ \A s \in ToSizeT(r) : ~Invalid(r, s)
         /\ r.keyImage \in CurveEncodings
         /\ \A j \in Slots(r) : r.publicKeys[j] \in CurveEncodings
<1>1. PICK m \in Slots(r) : OwnsMember(r, m)
  BY DEF Honest
<1>2. \A s \in ToSizeT(r) : s = m
  BY <1>1, HonestIndex DEF OwnsMember
<1>3. m < r.count /\ r.count # 0 /\ ~(m >= r.count)
  BY RequestShape DEF Slots
<1> QED
  BY <1>1, <1>2, <1>3 DEF Honest, Invalid, OwnsMember

(* An honest call stays one that cannot fail, whichever thread steps.      *)
LEMMA StepKeepsHonest ==
  ASSUME IInv, Fresh, HonestNeverFails, NEW t \in Threads, Step(t)
  PROVE  Fresh' /\ HonestNeverFails'
<1> USE DEF Goto, locals, Unlock, Signing
<1>0. TypeOK /\ LockDiscipline
  BY DEF IInv
<1>1. \A u \in Threads : u # t =>
        pc'[u] = pc[u] /\ call'[u] = call[u] /\ outcome'[u] = outcome[u]
  BY <1>0, OthersUntouched
<1>2. process = "running"
  BY DEF Step, Work, Call, Reject, Accept, Lock, Overflow, AbortOnImage, DecodeImage,
         SignerSlot, AbortOnKey, DecoySlot, Close, Return, InLoop, At
<1>3. CASE \E r \in Requests : Call(t, r)
  <2>1. process' = "running" /\ outcome'[t] = "none"
    BY <1>2, <1>3 DEF Call, At, Fresh
  <2> QED
    BY <1>1, <2>1 DEF Fresh, HonestNeverFails
<1>4. CASE Reject(t)
  <2>1. /\ process' = "running" /\ pc'[t] = "answered"
        /\ call[t] \in Requests /\ call'[t] = call[t]
    BY <1>0, <1>2, <1>4 DEF Reject, At, TypeOK
  <2>2. ~Honest(call[t])
    BY <1>4, <2>1, HonestIsValid DEF Reject
  <2> QED
    BY <1>1, <2>1, <2>2 DEF Fresh, HonestNeverFails
<1>5. CASE \/ Accept(t) \/ Lock(t) \/ DecodeImage(t) \/ SignerSlot(t) \/ DecoySlot(t)
  <2>1. process' = "running" /\ outcome'[t] = "none"
    BY <1>2, <1>5 DEF Accept, Lock, DecodeImage, SignerSlot, DecoySlot, InLoop, At, Fresh
  <2> QED
    BY <1>1, <2>1 DEF Fresh, HonestNeverFails
<1>6. CASE Overflow(t) \/ AbortOnImage(t) \/ AbortOnKey(t)
  <2>1. /\ UNCHANGED << pc, call, lock, outcome >>
        /\ pc[t] \in Signing /\ call[t] \in Requests
    BY <1>0, <1>6 DEF Overflow, AbortOnImage, AbortOnKey, InLoop, At, TypeOK
  <2>2. lock = t
    BY <1>0, <2>1 DEF LockDiscipline
  <2>3. ~(Honest(call[t]) /\ call[t].count <= MaxStackRing)
    <3>1. CASE Overflow(t)
      BY <2>1, <3>1, RequestShape, HashAssumption DEF Overflow
    <3>2. CASE AbortOnImage(t)
      BY <2>1, <3>2, HonestIsValid DEF AbortOnImage
    <3>3. CASE AbortOnKey(t)
      <4>1. i[t] \in Slots(call[t])
        BY <1>0, <2>1, <3>3, RequestShape DEF AbortOnKey, InLoop, TypeOK, Slots
      <4> QED
        BY <2>1, <3>3, <4>1, HonestIsValid DEF AbortOnKey
    <3> QED
      BY <1>6, <3>1, <3>2, <3>3
  <2> QED
    BY <2>1, <2>2, <2>3 DEF Fresh, HonestNeverFails
<1>7. CASE Close(t) \/ Return(t)
  <2>1. /\ process' = "running"
        /\ \/ pc'[t] = "answered" /\ outcome'[t] = "signed"
           \/ outcome'[t] = "none"
    BY <1>0, <1>2, <1>7 DEF Close, Return, TypeOK
  <2> QED
    BY <1>1, <2>1 DEF Fresh, HonestNeverFails
<1> QED
  BY <1>3, <1>4, <1>5, <1>6, <1>7 DEF Step, Work

(* An honest request is never refused and never kills the process, whatever *)
(* the other threads ask for.                                               *)
THEOREM HonestRequestsNeverFail == Spec => []HonestNeverFails
<1>1. Init => Fresh /\ HonestNeverFails
  BY DEF Init, Fresh, HonestNeverFails
<1>2. IInv /\ Fresh /\ HonestNeverFails /\ [Next]_vars => Fresh' /\ HonestNeverFails'
  <2>1. ASSUME IInv, Fresh, HonestNeverFails, UNCHANGED vars
        PROVE  Fresh' /\ HonestNeverFails'
    BY <2>1 DEF vars, Fresh, HonestNeverFails
  <2> QED
    BY <2>1, StepKeepsHonest DEF Next, Dead
<1> QED
  BY <1>1, <1>2, InvariantHolds, PTL DEF Spec
-----------------------------------------------------------------------------
(* RingSignature implements SigningService, for every group, ring size,    *)
(* set of threads and of requests: a step of the signer is a step of the   *)
(* service or cannot be seen from JavaScript.                              *)

(* There is an outcome exactly when the call has been answered.             *)
Answered == \A t \in Threads : pc[t] = "answered" <=> outcome[t] # "none"

(* A step gives an outcome exactly when it answers.                        *)
LEMMA StepKeepsAnswered ==
  ASSUME TypeOK, Answered, NEW t \in Threads, Step(t)
  PROVE  Answered'
<1> SUFFICES ASSUME NEW u \in Threads
             PROVE  pc'[u] = "answered" <=> outcome'[u] # "none"
  BY DEF Answered
<1>1. CASE u # t
  BY <1>1, OthersUntouched DEF Answered
<1>2. CASE u = t
  <2> USE <1>2 DEF TypeOK, Answered, At, Goto, locals
  <2>1. CASE \E r \in Requests : Call(t, r)
    BY <2>1 DEF Call
  <2>2. CASE Reject(t)
    BY <2>2 DEF Reject
  <2>3. CASE Accept(t) \/ Lock(t) \/ DecodeImage(t)
    BY <2>3 DEF Accept, Lock, DecodeImage
  <2>4. CASE Overflow(t) \/ AbortOnImage(t) \/ AbortOnKey(t) \/ SignerSlot(t) \/ DecoySlot(t)
    BY <2>4 DEF Overflow, AbortOnImage, AbortOnKey, SignerSlot, DecoySlot
  <2>5. CASE Close(t)
    BY <2>5 DEF Close
  <2>6. CASE Return(t)
    BY <2>6 DEF Return
  <2> QED
    BY <2>1, <2>2, <2>3, <2>4, <2>5, <2>6 DEF Step, Work
<1> QED
  BY <1>1, <1>2

RInv == IInv /\ Answered

(* The invariant the refinement rests on.                                  *)
LEMMA RInvHolds == Spec => []RInv
<1>1. Init => RInv
  BY InitIInv DEF RInv, Answered, Init
<1>2. RInv /\ [Next]_vars => RInv'
  <2> SUFFICES ASSUME RInv, [Next]_vars PROVE Answered'
    BY NextKeepsIInv DEF RInv
  <2>1. CASE \E t \in Threads : Step(t)
    BY <2>1, StepKeepsAnswered DEF RInv, IInv
  <2>2. CASE UNCHANGED vars
    BY <2>2 DEF vars, RInv, Answered
  <2> QED
    BY <2>1, <2>2 DEF Next, Dead
<1> QED
  BY <1>1, <1>2, PTL DEF Spec

-----------------------------------------------------------------------------
(* What the service sees of a thread.                                       *)
LEMMA Visible ==
  ASSUME TypeOK, NEW t \in Threads
  PROVE  /\ ServiceState[t] = "idle" <=> pc[t] = "idle"
         /\ ServiceState[t] = "answered" <=> pc[t] = "answered"
         /\ ServiceState[t] = "pending" <=> pc[t] \notin {"idle", "answered"}
BY DEF ServiceState, TypeOK

(* A step of t is seen, if at all, at t.                                    *)
LEMMA SeenAtOne ==
  ASSUME TypeOK, NEW t \in Threads, Step(t)
  PROVE  /\ ServiceState' = [ServiceState EXCEPT ![t] = ServiceState'[t]]
         /\ ServiceReply' = [ServiceReply EXCEPT ![t] = ServiceReply'[t]]
<1>1. \A u \in Threads : u # t =>
        pc'[u] = pc[u] /\ outcome'[u] = outcome[u] /\ sig'[u] = sig[u]
  BY OthersUntouched
<1>2. \A u \in Threads : u # t => ServiceState'[u] = ServiceState[u]
  BY <1>1 DEF ServiceState
<1>3. \A u \in Threads : u # t => ServiceReply'[u] = ServiceReply[u]
  BY <1>1 DEF ServiceReply
<1>4. /\ ServiceState = [u \in Threads |-> ServiceState[u]]
      /\ ServiceState' = [u \in Threads |-> ServiceState'[u]]
  BY DEF ServiceState
<1>5. /\ ServiceReply = [u \in Threads |-> ServiceReply[u]]
      /\ ServiceReply' = [u \in Threads |-> ServiceReply'[u]]
  BY DEF ServiceReply
<1>6. ServiceState' = [ServiceState EXCEPT ![t] = ServiceState'[t]]
  BY <1>2, <1>4
<1>7. ServiceReply' = [ServiceReply EXCEPT ![t] = ServiceReply'[t]]
  BY <1>3, <1>5
<1> QED
  BY <1>6, <1>7

(* A thread whose place among idle, pending and answered is the same, and   *)
(* whose answer is, has not moved as far as JavaScript can tell.            *)
LEMMA NotSeen ==
  ASSUME RInv, NEW t \in Threads, Step(t),
         pc[t] \notin {"idle", "answered"}, pc'[t] \notin {"idle", "answered"},
         outcome'[t] = outcome[t], call' = call, process' = process
  PROVE  UNCHANGED Service!vars
<1>1. ServiceState'[t] = ServiceState[t]
  BY DEF ServiceState
<1>2. outcome[t] = "none" /\ outcome'[t] = "none"
  BY DEF RInv, Answered
<1>3. ServiceReply'[t] = ServiceReply[t]
  BY <1>2 DEF ServiceReply
<1>4. ServiceState' = ServiceState /\ ServiceReply' = ServiceReply
  BY <1>1, <1>3, SeenAtOne, ZenonT(60) DEF RInv, IInv, ServiceState, ServiceReply
<1> QED
  BY <1>4 DEF Service!vars

(* The definitions of RingAlgebra mean the same to both specifications.     *)
LEMMA SameRequests ==
  ASSUME NEW r
  PROVE  /\ Service!WellFormed(r) <=> WellFormed(r)
         /\ Service!MeantIndex(r) = ToSizeT(r)
         /\ Service!Slots(r) = Slots(r)
         /\ Service!Signature = Signature
         /\ Service!Honest(r) <=> Honest(r)
         /\ \A s : Service!CheckRingSignature(r, s) <=> CheckRingSignature(r, s)
<1>1. Service!Slots(r) = Slots(r)
  BY DEF Service!Slots, Slots
<1>2. Service!WellFormed(r) <=> WellFormed(r)
  BY <1>1 DEF Service!WellFormed, WellFormed
<1>3. Service!MeantIndex(r) = ToSizeT(r)
  BY DEF Service!MeantIndex, ToSizeT
<1>4. Service!Signature = Signature
  BY DEF Service!Signature, Signature
<1>5. Service!Honest(r) <=> Honest(r)
  BY <1>1, <1>2 DEF Service!Honest, Honest, Service!OwnsMember, OwnsMember
<1>6. ASSUME NEW s
      PROVE  Service!CheckRingSignature(r, s) <=> CheckRingSignature(r, s)
  BY <1>1 DEF Service!CheckRingSignature, CheckRingSignature, Service!IsRunningSum,
              IsRunningSum, Service!DecoyCommitment, DecoyCommitment
<1> QED
  BY <1>1, <1>2, <1>3, <1>4, <1>5, <1>6

-----------------------------------------------------------------------------
(* One lemma for each step that JavaScript can see.                         *)
LEMMA CallIsSubmit ==
  ASSUME RInv, NEW t \in Threads, NEW r \in Requests, Call(t, r)
  PROVE  Service!Submit(t)
<1>0. TypeOK /\ Step(t) /\ pc[t] = "idle" /\ process = "running"
  BY DEF RInv, IInv, Step, Call, At
<1>1. pc'[t] = "validate" /\ outcome' = outcome /\ process' = process
  BY <1>0 DEF Call, Goto, TypeOK
<1>2. outcome[t] = "none"
  BY <1>0 DEF RInv, Answered, TypeOK
<1>3. ServiceState[t] = "idle" /\ ServiceState'[t] = "pending"
  BY <1>0, <1>1 DEF ServiceState
<1>4. ServiceReply'[t] = ServiceReply[t]
  BY <1>1, <1>2 DEF ServiceReply
<1>5. ServiceReply' = ServiceReply
  BY <1>0, <1>4, SeenAtOne DEF ServiceReply
<1>6. ServiceState' = [ServiceState EXCEPT ![t] = "pending"]
  BY <1>0, <1>3, SeenAtOne
<1>7. call' = [call EXCEPT ![t] = r]
  BY DEF Call
<1> QED
  BY <1>0, <1>1, <1>3, <1>5, <1>6, <1>7 DEF Service!Submit

(* The requests of threads inside a call, and the index taken from them.    *)
LEMMA PendingRequest ==
  ASSUME RInv, NEW t \in Threads, pc[t] # "idle"
  PROVE  /\ call[t] \in Requests /\ call[t].count \in Nat
         /\ ToSizeT(call[t]) \subseteq Nat
<1>1. call[t] \in Requests
  BY DEF RInv, IInv, TypeOK
<1> QED
  BY <1>1, RequestShape, IndexType

(* A request that validation refuses is answered with an exception.        *)
LEMMA RejectIsThrow ==
  ASSUME RInv, NEW t \in Threads, Reject(t)
  PROVE  Service!Throw(t)
<1>0. TypeOK /\ Step(t) /\ pc[t] = "validate" /\ process = "running"
  BY DEF RInv, IInv, Step, Work, Reject, At
<1>1. pc'[t] = "answered" /\ outcome'[t] = "threw" /\ call' = call /\ process' = process
  BY <1>0 DEF Reject, Goto, TypeOK
<1>2. call[t].count \in Nat /\ ToSizeT(call[t]) \subseteq Nat
  BY <1>0, PendingRequest
<1>3. PICK s \in ToSizeT(call[t]) : Invalid(call[t], s)
  BY DEF Reject
<1>4. ~WellFormed(call[t]) \/ s >= call[t].count
  BY <1>2, <1>3 DEF Invalid
<1>5. Service!MayThrow(call[t])
  BY <1>3, <1>4, SameRequests DEF Service!MayThrow
<1>6. ServiceState[t] = "pending" /\ ServiceState'[t] = "answered"
  BY <1>0, <1>1 DEF ServiceState
<1>7. ServiceReply'[t] = [outcome |-> "threw", sig |-> << >>]
  BY <1>1 DEF ServiceReply
<1>8. /\ ServiceState' = [ServiceState EXCEPT ![t] = "answered"]
      /\ ServiceReply' = [ServiceReply EXCEPT ![t] = [outcome |-> "threw", sig |-> << >>]]
  BY <1>0, <1>6, <1>7, SeenAtOne
<1> QED
  BY <1>0, <1>1, <1>5, <1>6, <1>8 DEF Service!Throw

(* Closing the ring is the service's one step that signs: its signature    *)
(* verifies.                                                               *)
LEMMA CloseIsSign ==
  ASSUME RInv, RInv', NEW t \in Threads, Close(t)
  PROVE  Service!Sign(t)
<1>0. /\ TypeOK /\ Step(t) /\ pc[t] = "ring" /\ process = "running"
      /\ i[t] = call[t].count
  BY DEF RInv, IInv, Step, Work, Close, At
<1>1. /\ pc'[t] = "answered" /\ outcome'[t] = "signed" /\ call' = call
      /\ process' = process
      /\ sig'[t] = [sig[t] EXCEPT ![secIndex[t]] = Closing(call[t], k[t], sum[t], ab[t])]
  BY <1>0 DEF Close, Goto, TypeOK
<1>2. /\ call[t] \in Requests /\ call[t].count \in Nat
      /\ ToSizeT(call[t]) \subseteq Nat
  BY <1>0, PendingRequest
<1>3. Accepted(t) /\ LoopInvariantOf(t)
  BY <1>0 DEF RInv, IInv, SignerInvariant, SignerInvariantOf
<1>4. Service!MayAccept(call[t])
  BY <1>3, SameRequests DEF Accepted, Service!MayAccept
<1>5. sig'[t] \in [Slots(call[t]) -> Signature]
  <2>1. /\ WellFormed(call[t]) /\ call[t].count <= MaxStackRing
        /\ k[t] \in Scalars /\ sum[t] \in Scalars
        /\ ab[t] \in [Slots(call[t]) -> Points \X Points]
        /\ sig[t] \in [Slots(call[t]) -> Signature]
    BY <1>0, <1>2, <1>3 DEF Accepted, LoopInvariantOf, LoopInvariant, Slots
  <2>2. Closing(call[t], k[t], sum[t], ab[t]) \in Signature
    BY <1>2, <2>1, ClosingTypes
  <2> QED
    BY <1>1, <2>1, <2>2
<1>6. Honest(call[t]) => CheckRingSignature(call[t], sig'[t])
  BY <1>1 DEF RInv, IInv, SignedVerifies, SignedVerifiesOf
<1>7. ServiceState[t] = "pending" /\ ServiceState'[t] = "answered"
  BY <1>0, <1>1 DEF ServiceState
<1>8. ServiceReply'[t] = [outcome |-> "signed", sig |-> sig'[t]]
  BY <1>1 DEF ServiceReply
<1>9. /\ ServiceState' = [ServiceState EXCEPT ![t] = "answered"]
      /\ ServiceReply' = [ServiceReply EXCEPT ![t] = [outcome |-> "signed", sig |-> sig'[t]]]
  BY <1>0, <1>7, <1>8, SeenAtOne
<1>10. /\ sig'[t] \in [Service!Slots(call[t]) -> Service!Signature]
       /\ Service!Honest(call[t]) => Service!CheckRingSignature(call[t], sig'[t])
  BY <1>5, <1>6, SameRequests
<1> QED
  BY <1>0, <1>1, <1>4, <1>7, <1>9, <1>10 DEF Service!Sign

(* JavaScript takes the answer.                                            *)
LEMMA ReturnIsCollect ==
  ASSUME RInv, NEW t \in Threads, Return(t)
  PROVE  Service!Collect(t)
<1>0. TypeOK /\ Step(t) /\ pc[t] = "answered" /\ process = "running"
  BY DEF RInv, IInv, Step, Return, At
<1>1. /\ pc'[t] = "idle" /\ outcome'[t] = "none" /\ process' = process
      /\ call' = [call EXCEPT ![t] = NoCall]
  BY <1>0 DEF Return, Goto, TypeOK
<1>2. ServiceState[t] = "answered" /\ ServiceState'[t] = "idle"
  BY <1>0, <1>1 DEF ServiceState
<1>3. ServiceReply'[t] = Service!NoReply
  BY <1>1 DEF ServiceReply, Service!NoReply
<1>4. /\ ServiceState' = [ServiceState EXCEPT ![t] = "idle"]
      /\ ServiceReply' = [ServiceReply EXCEPT ![t] = Service!NoReply]
  BY <1>0, <1>2, <1>3, SeenAtOne
<1>5. NoCall = Service!NoRequest
  BY DEF NoCall, Service!NoRequest
<1> QED
  BY <1>0, <1>1, <1>2, <1>4, <1>5 DEF Service!Collect

(* The process dies only by a request that may kill it.                     *)
LEMMA DeathIsDie ==
  ASSUME RInv, NEW t \in Threads, Overflow(t) \/ AbortOnImage(t) \/ AbortOnKey(t)
  PROVE  Service!Die
<1>0. /\ TypeOK /\ pc[t] \in {"image", "ring"} /\ process = "running"
      /\ process' # "running" /\ UNCHANGED << pc, call, outcome, sig >>
  BY DEF RInv, IInv, Overflow, AbortOnImage, AbortOnKey, InLoop, At
<1>1. call[t].count \in Nat /\ ToSizeT(call[t]) \subseteq Nat /\ i[t] \in Nat
  BY <1>0, PendingRequest DEF TypeOK
<1>2. Accepted(t)
  BY <1>0 DEF RInv, IInv, SignerInvariant, SignerInvariantOf
<1>3. Service!MayAccept(call[t])
  BY <1>2, SameRequests DEF Accepted, Service!MayAccept
<1>4. \/ call[t].count > MaxStackRing
      \/ call[t].keyImage \notin CurveEncodings
      \/ \E j \in Slots(call[t]) : call[t].publicKeys[j] \notin CurveEncodings
  <2>1. CASE Overflow(t) \/ AbortOnImage(t)
    BY <2>1 DEF Overflow, AbortOnImage
  <2>2. CASE AbortOnKey(t)
    <3>1. i[t] \in Slots(call[t])
      BY <1>1, <2>2 DEF AbortOnKey, InLoop, Slots
    <3> QED
      BY <2>2, <3>1 DEF AbortOnKey
  <2> QED
    BY <2>1, <2>2
<1>5. Service!Fatal(call[t])
  BY <1>3, <1>4, SameRequests DEF Service!Fatal
<1>6. ServiceState[t] = "pending"
  BY <1>0 DEF ServiceState
<1>7. UNCHANGED << ServiceState, call, ServiceReply >>
  BY <1>0 DEF ServiceState, ServiceReply
<1> QED
  BY <1>0, <1>5, <1>6, <1>7 DEF Service!Die

(* Every step is one of the service's, or is not seen.                      *)
LEMMA StepSimulated ==
  ASSUME RInv, RInv', [Next]_vars
  PROVE  [Service!Next]_(Service!vars)
<1>1. CASE UNCHANGED vars
  BY <1>1 DEF vars, Service!vars, ServiceState, ServiceReply
<1>2. ASSUME NEW t \in Threads, Step(t)
      PROVE  Service!Next \/ UNCHANGED Service!vars
  <2>1. CASE \E r \in Requests : Call(t, r)
    BY <2>1, CallIsSubmit DEF Service!Next
  <2>2. CASE Reject(t)
    BY <2>2, RejectIsThrow DEF Service!Next
  <2>3. CASE Close(t)
    BY <2>3, CloseIsSign DEF Service!Next
  <2>4. CASE Return(t)
    BY <2>4, ReturnIsCollect DEF Service!Next
  <2>5. CASE Overflow(t) \/ AbortOnImage(t) \/ AbortOnKey(t)
    BY <2>5, DeathIsDie DEF Service!Next
  <2>6. CASE Accept(t) \/ Lock(t) \/ DecodeImage(t) \/ SignerSlot(t) \/ DecoySlot(t)
    <3>1. /\ pc[t] \notin {"idle", "answered"} /\ pc'[t] \notin {"idle", "answered"}
          /\ outcome' = outcome /\ call' = call /\ process' = process
      BY <2>6 DEF RInv, IInv, TypeOK, Accept, Lock, DecodeImage, SignerSlot, DecoySlot,
                  InLoop, At, Goto
    <3> QED
      BY <1>2, <3>1, NotSeen
  <2> QED
    BY <1>2, <2>1, <2>2, <2>3, <2>4, <2>5, <2>6 DEF Step, Work
<1> QED
  BY <1>1, <1>2 DEF Next, Dead

(* The service starts where the signer does.                               *)
LEMMA InitSimulated == Init => Service!Init
BY DEF Init, Service!Init, ServiceState, ServiceReply, NoCall, Service!NoRequest,
       Service!NoReply

(* Whatever JavaScript sees of the signer, the service could have shown it. *)
THEOREM SignerImplementsService == Spec => ImplementsService
<1> QED
  BY InitSimulated, StepSimulated, RInvHolds, PTL DEF Spec, ImplementsService, Service!Spec
=============================================================================
