--------------------------- MODULE RingSignature ---------------------------
(***************************************************************************)
(* HybridCryptonote::generateRingSignature and the signer it calls,        *)
(* crypto_ops::generate_ring_signature.  Each thread is a JavaScript       *)
(* runtime making one synchronous call at a time; the threads share one    *)
(* mutex, random_lock.  One action is one iteration of the signer's loop,  *)
(* or the stretch of code between two of its exits.                        *)
(***************************************************************************)
EXTENDS RingAlgebra

CONSTANTS
  Threads,      \* the threads that run JavaScript
  NoThread,     \* random_lock is free
  Requests,     \* the arguments JavaScript may pass
  Uninit        \* a stack variable nobody assigned yet

ASSUME ThreadsAssumption == NoThread \notin Threads
ASSUME RequestsAssumption == \A r \in Requests : IsRequest(r)
ASSUME UninitAssumption == Uninit \notin Scalars

VARIABLES
  process,  \* "running", or how it died: "aborted", "overflowed"
  pc,       \* where each thread is
  call,     \* the arguments of its call
  secIndex, \* sec_idx, the index after conversion
  lock,     \* the owner of random_lock
  i,        \* the loop counter of generate_ring_signature
  sum,      \* the sum of the decoys' c-components so far
  k,        \* the signer's nonce
  ab,       \* buf->ab, the commitments written so far
  sig,      \* the vector `signatures`
  outcome   \* what the call returned to JavaScript

locals == << i, sum, k, ab >>
vars == << process, pc, call, secIndex, lock, i, sum, k, ab, sig, outcome >>

NoCall == [count |-> 0]
NoSlots == [j \in {} |-> Zero]
Blank == [c |-> Zero, r |-> Zero]

Init ==
  /\ process = "running"
  /\ pc = [t \in Threads |-> "idle"]
  /\ call = [t \in Threads |-> NoCall]
  /\ secIndex = [t \in Threads |-> 0]
  /\ lock = NoThread
  /\ i = [t \in Threads |-> 0]
  /\ sum = [t \in Threads |-> Uninit]
  /\ k = [t \in Threads |-> Uninit]
  /\ ab = [t \in Threads |-> NoSlots]
  /\ sig = [t \in Threads |-> NoSlots]
  /\ outcome = [t \in Threads |-> "none"]

At(t, label) == process = "running" /\ pc[t] = label
Goto(t, label) == pc' = [pc EXCEPT ![t] = label]
-----------------------------------------------------------------------------
(* JavaScript enters the hybrid object.                                    *)
Call(t, r) ==
  /\ At(t, "idle")
  /\ call' = [call EXCEPT ![t] = r]
  /\ Goto(t, "validate")
  /\ UNCHANGED << process, secIndex, lock, locals, sig, outcome >>

(* static_cast<size_t>(secretIndex): truncation towards zero where that is *)
(* defined; elsewhere the ARM build saturates to 0 and the x86 build gets  *)
(* a number beyond every ring.                                             *)
ToSizeTSigned(r) == {r.secretIndex \div 2}  \* mutant: a signed index, floored

ToSizeT(r) ==
  IF r.secretIndex > -2
  THEN {IF r.secretIndex < 0 THEN 0 ELSE r.secretIndex \div 2}
  ELSE {0, r.count}

InvalidLastSlot(r, s) ==  \* mutant: the last slot counts as out of range
  ~WellFormed(r) \/ r.count = 0 \/ s >= r.count - 1

Invalid(r, s) == ~WellFormed(r) \/ r.count = 0 \/ s >= r.count

Reject(t) ==
  /\ At(t, "validate")
  /\ \E s \in ToSizeT(call[t]) : Invalid(call[t], s)
  /\ outcome' = [outcome EXCEPT ![t] = "threw"]
  /\ Goto(t, "answered")
  /\ UNCHANGED << process, call, secIndex, lock, locals, sig >>

(* The arguments are parsed and the vector of signatures, all zero, made.  *)
Accept(t) ==
  /\ At(t, "validate")
  /\ \E s \in ToSizeT(call[t]) :
       /\ ~Invalid(call[t], s)
       /\ secIndex' = [secIndex EXCEPT ![t] = s]
  /\ sig' = [sig EXCEPT ![t] = [j \in Slots(call[t]) |-> Blank]]
  /\ Goto(t, "lock")
  /\ UNCHANGED << process, call, lock, locals, outcome >>
-----------------------------------------------------------------------------
(* lock_guard<mutex> lock(random_lock): taken on entry when nobody has it,  *)
(* given back wherever the function is left.                               *)
Unguarded == TRUE         \* mutant: random_lock is not waited for
LockIsFree == lock = NoThread

NeverUnlock == lock' = lock  \* mutant: lock() with no unlock()
Unlock == lock' = NoThread

Lock(t) ==
  /\ At(t, "lock")
  /\ LockIsFree
  /\ lock' = t
  /\ Goto(t, "image")
  /\ UNCHANGED << process, call, secIndex, locals, sig, outcome >>

(* alloca of a transcript larger than what is left of the stack.           *)
Overflow(t) ==
  /\ At(t, "image")
  /\ call[t].count > MaxStackRing
  /\ process' = "overflowed"
  /\ UNCHANGED << pc, call, secIndex, lock, locals, sig, outcome >>

AbortOnImage(t) ==
  /\ At(t, "image")
  /\ call[t].count <= MaxStackRing
  /\ call[t].keyImage \notin CurveEncodings
  /\ process' = "aborted"
  /\ UNCHANGED << pc, call, secIndex, lock, locals, sig, outcome >>

(* The image decodes; sum is cleared and the prefix hash heads the buffer. *)
DecodeImage(t) ==
  /\ At(t, "image")
  /\ call[t].count <= MaxStackRing
  /\ call[t].keyImage \in CurveEncodings
  /\ sum' = [sum EXCEPT ![t] = Zero]
  /\ i' = [i EXCEPT ![t] = 0]
  /\ Goto(t, "ring")
  /\ UNCHANGED << process, call, secIndex, lock, k, ab, sig, outcome >>

InLoop(t) == At(t, "ring") /\ i[t] < call[t].count

(* What this iteration writes at buf->ab[i].                               *)
Write(t, pair) ==
  /\ ab' = [ab EXCEPT ![t] =
              [j \in 0..i[t] |-> IF j = i[t] THEN pair ELSE ab[t][j]]]
  /\ i' = [i EXCEPT ![t] = i[t] + 1]

NonceCommitment(r, s, nonce) ==
  << Times(nonce, Base), Times(nonce, HashToEc(r.publicKeys[s])) >>

(* The signer's own slot: a nonce, and nothing of the signature yet.  Its  *)
(* public key is hashed, never decoded.                                    *)
SignerSlot(t) ==
  /\ InLoop(t)
  /\ i[t] = secIndex[t]
  /\ \E nonce \in Scalars :
       /\ k' = [k EXCEPT ![t] = nonce]
       /\ Write(t, NonceCommitment(call[t], i[t], nonce))
  /\ UNCHANGED << process, pc, call, secIndex, lock, sum, sig, outcome >>

(* A decoy that is no curve point; what was drawn for it dies as well.     *)
AbortOnKey(t) ==
  /\ InLoop(t)
  /\ i[t] # secIndex[t]
  /\ call[t].publicKeys[i[t]] \notin CurveEncodings
  /\ process' = "aborted"
  /\ UNCHANGED << pc, call, secIndex, lock, locals, sig, outcome >>

(* sc_add(sum, sum, sig[i]): the c-component, the first half, is added.     *)
SummedOtherHalf(t, s) == Add(sum[t], s.r)  \* mutant: &sig[i] + 32 is added
Summed(t, s) == Add(sum[t], s.c)

(* Any other slot: a random half-signature and the commitments it implies. *)
DecoySlot(t) ==
  /\ InLoop(t)
  /\ i[t] # secIndex[t]
  /\ call[t].publicKeys[i[t]] \in CurveEncodings
  /\ \E s \in Signature :
       /\ sig' = [sig EXCEPT ![t][i[t]] = s]
       /\ Write(t, DecoyCommitment(call[t], i[t], s))
       /\ sum' = [sum EXCEPT ![t] = Summed(t, s)]
  /\ UNCHANGED << process, pc, call, secIndex, lock, k, outcome >>

(* The signer's half-signature closes the ring.                            *)
ClosingSwapped(r, nonce, total, commitments) ==  \* mutant: c*x - k
  LET c == Sub(HashToScalar(r.prefixHash, commitments), total)
  IN  [c |-> c, r |-> Sub(Mul(c, r.secretKey), nonce)]

ClosingNoSum(r, nonce, total, commitments) ==  \* mutant: the sum is not taken off
  LET c == HashToScalar(r.prefixHash, commitments)
  IN  [c |-> c, r |-> Sub(nonce, Mul(c, r.secretKey))]

Closing(r, nonce, total, commitments) ==
  LET h == HashToScalar(r.prefixHash, commitments)
      c == Sub(h, total)
  IN  [c |-> c, r |-> Sub(nonce, Mul(c, r.secretKey))]

(* The loop is done: close the ring, release the lock, return the hex.     *)
Close(t) ==
  /\ At(t, "ring")
  /\ i[t] = call[t].count
  /\ sig' = [sig EXCEPT ![t][secIndex[t]] = Closing(call[t], k[t], sum[t], ab[t])]
  /\ Unlock
  /\ outcome' = [outcome EXCEPT ![t] = "signed"]
  /\ Goto(t, "answered")
  /\ UNCHANGED << process, call, secIndex, locals >>

(* JavaScript takes the answer; the frames of the call are gone.           *)
Return(t) ==
  /\ At(t, "answered")
  /\ Goto(t, "idle")
  /\ call' = [call EXCEPT ![t] = NoCall]
  /\ secIndex' = [secIndex EXCEPT ![t] = 0]
  /\ i' = [i EXCEPT ![t] = 0]
  /\ sum' = [sum EXCEPT ![t] = Uninit]
  /\ k' = [k EXCEPT ![t] = Uninit]
  /\ ab' = [ab EXCEPT ![t] = NoSlots]
  /\ sig' = [sig EXCEPT ![t] = NoSlots]
  /\ outcome' = [outcome EXCEPT ![t] = "none"]
  /\ UNCHANGED << process, lock >>

(* A dead process takes no further step.                                   *)
Dead == process # "running" /\ UNCHANGED vars

(* What the thread does by itself once called.                             *)
Work(t) ==
  \/ Reject(t) \/ Accept(t)
  \/ Lock(t)
  \/ Overflow(t) \/ AbortOnImage(t) \/ DecodeImage(t)
  \/ SignerSlot(t) \/ AbortOnKey(t) \/ DecoySlot(t)
  \/ Close(t)

Step(t) == (\E r \in Requests : Call(t, r)) \/ Work(t) \/ Return(t)

Next == (\E t \in Threads : Step(t)) \/ Dead

Spec == Init /\ [][Next]_vars

(* A runnable thread is scheduled eventually.  std::mutex promises no      *)
(* order among waiters, so Lock gets no more than that.                    *)
FairSpec == Spec /\ \A t \in Threads : WF_vars(Work(t))
-----------------------------------------------------------------------------
(* Every variable holds what the code may put there; a thread has a request *)
(* exactly while it is inside the call.                                     *)
TypeOK ==
  /\ process \in {"running", "aborted", "overflowed"}
  /\ pc \in [Threads -> {"idle", "validate", "lock", "image", "ring", "answered"}]
  /\ lock \in Threads \cup {NoThread}
  /\ i \in [Threads -> Nat]
  /\ secIndex \in [Threads -> Nat]
  /\ sum \in [Threads -> Scalars \cup {Uninit}]
  /\ k \in [Threads -> Scalars \cup {Uninit}]
  /\ outcome \in [Threads -> {"none", "threw", "signed"}]
  /\ DOMAIN call = Threads /\ DOMAIN ab = Threads /\ DOMAIN sig = Threads
  /\ \A t \in Threads :
       IF pc[t] = "idle" THEN call[t] = NoCall ELSE call[t] \in Requests

Signing == {"image", "ring"}

(* random_lock is held by a thread exactly while it is inside the signer,   *)
(* so two threads never draw random scalars or write commitments at once,   *)
(* and no way out of the signer but the death of the process keeps it.      *)
LockDiscipline == \A t \in Threads : lock = t <=> pc[t] \in Signing

(* A request that reached the signer: it parsed, and the index is a member  *)
(* of the ring.                                                             *)
Accepted(t) ==
  /\ WellFormed(call[t])
  /\ secIndex[t] \in ToSizeT(call[t])
  /\ secIndex[t] < call[t].count
  /\ sig[t] \in [Slots(call[t]) -> Signature]

(* acc lists the values `sum` took: the decoys' c-components and no other.  *)
IsDecoySum(acc, half, n, s) ==
  /\ acc[0] = Zero
  /\ \A j \in 0..(n - 1) :
       acc[j + 1] = IF j = s THEN acc[j] ELSE Add(acc[j], half[j].c)

(* The invariant of the signer's loop after n iterations: each decoy passed *)
(* has the commitments its half-signature implies, the nonce is drawn once  *)
(* the signer's slot is passed, and `sum` adds up the decoys passed.        *)
LoopInvariant(r, own, n, total, nonce, pairs, half) ==
  /\ n <= r.count
  /\ r.count <= MaxStackRing
  /\ r.keyImage \in CurveEncodings
  /\ pairs \in [0..(n - 1) -> Points \X Points]
  /\ total \in Scalars
  /\ \A j \in 0..(n - 1) : j # own =>
       /\ r.publicKeys[j] \in CurveEncodings
       /\ pairs[j] = DecoyCommitment(r, j, half[j])
  /\ own < n => nonce \in Scalars /\ pairs[own] = NonceCommitment(r, own, nonce)
  /\ \E acc \in [0..n -> Scalars] : IsDecoySum(acc, half, n, own) /\ acc[n] = total

LoopInvariantOf(t) ==
  LoopInvariant(call[t], secIndex[t], i[t], sum[t], k[t], ab[t], sig[t])

SignerInvariantOf(t) ==
  /\ pc[t] \in {"lock", "image", "ring"} => Accepted(t)
  /\ pc[t] \in {"idle", "validate", "lock", "image"} => ab[t] = NoSlots
  /\ pc[t] = "ring" => LoopInvariantOf(t)

(* What holds in each thread while it is inside the signer; it is what the  *)
(* verification of the result rests on.                                     *)
SignerInvariant == \A t \in Threads : SignerInvariantOf(t)

(* An honest request, once answered with signatures, is answered with a     *)
(* ring signature that check_ring_signature accepts, whatever random        *)
(* scalars were drawn and whatever the other threads did meanwhile.         *)
SignedVerifiesOf(t) ==
  pc[t] = "answered" /\ outcome[t] = "signed" /\ Honest(call[t])
    => CheckRingSignature(call[t], sig[t])

SignedVerifies == \A t \in Threads : SignedVerifiesOf(t)

(* An honest request within the stack's limit is not refused and does not   *)
(* kill the process: the only thread that can be inside the signer when the *)
(* process dies is one whose own arguments were at fault.                   *)
HonestNeverFails ==
  \A t \in Threads :
    pc[t] # "idle" /\ Honest(call[t]) /\ call[t].count <= MaxStackRing
      => /\ outcome[t] # "threw"
         /\ process # "running" => lock # t

(* The thread in the signer leaves it, or the process dies.                 *)
LockReleased ==
  \A t \in Threads : (lock = t) ~> (lock # t \/ process # "running")

(* A call is answered unless the process dies, provided the other threads   *)
(* stop calling some day: the mutex is not fair, and a thread may be        *)
(* overtaken for as long as others keep coming.                             *)
CallAnswered ==
  \A t \in Threads :
    (\A u \in Threads \ {t} : <>[](pc[u] \in {"idle", "answered"}))
      => ((pc[t] = "validate") ~> (pc[t] = "answered" \/ process # "running"))

(* What JavaScript can see of a thread.                                     *)
ServiceState ==
  [t \in Threads |->
     CASE pc[t] = "idle" -> "idle"
       [] pc[t] = "answered" -> "answered"
       [] OTHER -> "pending"]

ServiceReply ==
  [t \in Threads |->
     [outcome |-> outcome[t],
      sig |-> IF outcome[t] = "signed" THEN sig[t] ELSE << >>]]

Service == INSTANCE SigningService WITH
  state <- ServiceState,
  request <- call,
  reply <- ServiceReply,
  alive <- process = "running"

(* Every behaviour of the signer is one of the service JavaScript is        *)
(* promised: the lock, the loop and the partial signatures cannot be seen.  *)
ImplementsService == Service!Spec

-----------------------------------------------------------------------------
(* Cryptonote.nitro.ts:121, "@throws Error if inputs are invalid or         *)
(* secretIndex is out of range": bad inputs raise an error that JavaScript  *)
(* can catch; they do not end the process.                                  *)
ErrorsAreThrown == process # "aborted"

(* The same line, of the index: no signatures for an index outside 0 to     *)
(* publicKeysHex.length - 1.                                                *)
OutOfRangeThrows ==
  \A t \in Threads :
    outcome[t] = "signed" =>
      call[t].secretIndex >= 0 /\ call[t].secretIndex < 2 * call[t].count
=============================================================================
