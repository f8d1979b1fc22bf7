# TLA+ models of react-native-conceal-crypto

Specifications, model-checking configurations and machine-checked proofs kept
beside the native code of the library. Paths are relative to the repository.

## 1. Inventory

The library is a React Native (Nitro) module in C and C++. JavaScript calls it
synchronously; each JavaScript runtime has its own thread, so several threads
can be inside the C++ code at once. There is no persistence and no network.

| Component | Source | State it keeps | Operations | What makes it correct |
|---|---|---|---|---|
| Ring signatures | `cpp/HybridCryptonote.cpp:390-474`, `cpp/Cryptonote/crypto.cpp:546-619` | the mutex `random_lock`; per call: index, loop counter, sum, nonce, commitments, signatures | `generateRingSignature` | the result verifies; one thread at a time; bad input is refused, not fatal |
| Random numbers | `cpp/mn_random.cpp`, `crypto.cpp:58-65` | libsodium's initialisation, `g_random_device` per thread | `random`, `randomBytes`, the signer's draws | libsodium initialised once, before use; no bytes from a device without entropy |
| HMAC-SHA1 | `cpp/Hmac.cpp`, `Hmac.hpp` | four thread-local vectors kept from call to call | `hmacSha1` | the answer depends on the call's own arguments only |
| ChaCha8/12 | `cpp/chacha8.c`, `chacha12.c`, `HybridConcealCrypto.cpp:131-186` | none between calls; counter and pointers in the loop | `chacha8`, `chacha12` | every byte meets its keystream byte; decrypting restores |
| Cryptonote binding | `HybridCryptonote.cpp:57-387`, `crypto.cpp:134-242` | none (declared thread-local buffers are unused) | key derivation, derived keys, five point methods, hash to curve | refuses what is no point, answers what the method is named for, sender and receiver agree |
| Curve arithmetic | `cpp/Cryptonote/crypto-ops.c` | none | `fe_*`, `sc_*`, `ge_*` functions | exact in the field, canonical bytes, group laws, recoding of scalars |
| Keccak | `keccak.c`, `hash.c` | none | `cn_fast_hash` | the permutation, the sponge and its padding are the standard's |
| Varint | `Varint.h`, `HybridCryptonote.cpp:363-388` | none | `write_varint`, `read_varint`, `encodeVarint` | decodable, minimal, bounded length |
| Conversions | `HybridConcealCrypto.cpp:36-126, 216-278`, `HybridCryptonote.hpp:42-74` | none | hex, base64, secretbox | round trips; refusals where they belong |
| Loading | `nitrogen/generated/android/**` | `didLoad`, the loaded library, the registry | `initializeNative`, `JNI_OnLoad` | registered once by the time a caller returns, retried after a failure |
| Patch scripts | `scripts/*.js` | generated C++ and Kotlin files, autolinking and CMake files | edits after a code generation | one entry point, a build file CMake accepts |
| Curve constants | `crypto-ops-data.c` | tables | - | they are the values their comments give |
| Specs, iOS template, packaging | `src/specs`, `ios`, build files | - | - | - |

Interaction. `ConcealCrypto` (`HybridConcealCrypto`) and its `cryptonote`
sub-object are stateless wrappers. At run time state is shared in four places
only: the process-wide mutex `random_lock`, libsodium's globals, thread-local
variables that outlive a call, and what loading leaves behind. All four are
modelled. The rest are pure functions stacked on each other: the binding on the
curve formulas, these on the field, the scalars and their recodings.

Hard behaviours: interleaved signers; `abort()` and stack exhaustion in the
middle of the loop; conversions of doubles; libsodium initialising itself
lazily in one of the two builds; a pointer that survives the exception thrown
about it; buffers that survive a failed call; partial blocks; limbs that stay
unreduced through several operations; carries that run to the top of a scalar;
points of low order and encodings that are not canonical; scripts that are run
twice or interrupted; a load that fails and is retried. `PROJECT.json`
lists them under `hazards`, each at its line.

## 2. Modules

| Module | Models | Checked by | Proofs |
|---|---|---|---|
| `RingAlgebra` | requests, and the acceptance test of `check_ring_signature`; scalars and points are abstract, with the laws they obey as assumptions | all ring runs | used by the proofs |
| `SigningService` | the abstract promise: a call is answered in one step, by an error or by signatures, or the process dies | `ring` | `RingSignatureProofs` |
| `RingSignature` | binding and signer, one action per loop iteration and per exit | `ring`, `ring_aborts`, `ring_bad_index` | `RingSignatureProofs` |
| `NativeRandom` | the random sources in both builds | `native_random`, `random_no_entropy` | `NativeRandomProofs` |
| `HmacSha1` | HMAC over thread-local buffers, any hash | `hmac` | `HmacSha1Proofs` |
| `ChaChaStream` | the block loops of both ciphers, any block function | `kernels` | `ChaChaStreamProofs` |
| `FieldLimbs` | `fe_*` on limb vectors | `kernels` | `KernelLemmas`, `CryptoKernelsProofs` |
| `ScalarLimbs` | `sc_*` on limb vectors | `kernels` | `ScalarLimbProofs` |
| `ScalarRecoding` | `slide` and the two radix-16 recodings | `kernels`, `binding` | `CryptoKernelsProofs` |
| `PowerChains` | the addition chains of `fe_invert` and `fe_divpowm1` | `kernels` | `CryptoKernelsProofs` |
| `EdwardsCurve` | `ge_*` over a small field; extends `ScalarRecoding` | `binding`, `postcomp` | - |
| `Varint` | `write_varint`, `read_varint`, `encodeVarint` | `kernels`, `varint_unsafe`, `binding` | `CryptoKernelsProofs` |
| `Keccak` | `keccakf`, `keccak`, `cn_fast_hash` | `kernels` | - |
| `Words32`, `Sha1`, `ChaChaBlock` | 32-bit words; SHA-1; the ChaCha block | `kernels` | - |
| `Codecs` | both hex decoders, hex, base64, secretbox | `kernels` | `CryptoKernelsProofs` |
| `CryptoKernels` | a caller of the pure functions above; instantiates them | `kernels`, `varint_unsafe` | `CryptoKernelsProofs`, `ScalarLimbProofs` |
| `CryptonoteBinding` | the methods on keys and points, and a payment from sender to receiver; extends `EdwardsCurve` and `Varint` | `binding`, `postcomp` | - |
| `LibraryLoad` | patch scripts, build, and loading in process after process | `library`, `library_prefab_twice` | `LibraryLoadProofs` |
| `KernelLemmas` | nothing of the code: induction over data, sums, folds, powers of two, congruences; then what the operators of `FieldLimbs` mean and how large they leave the limbs | - | its own lemmas, on which `CryptoKernelsProofs` and `ScalarLimbProofs` rest |

`MC*` modules give the constants values for TLC; `MCCryptoKernels` also puts
`CryptoKernels` and `ChaChaStream` side by side, as the functions one caller of
the stateless code calls one at a time. Operators marked `mutant`
in a module are plausible bugs; each property is known to fail under one.

### RingSignature

`pc[t]` follows a thread: `idle`, `validate` (the binding's checks), `lock`
(waiting for `random_lock`), `image` (key image not yet decoded), `ring` (in the
loop), `answered`. `Reject` is the `throw`s of the binding and `Accept` the
rest of it; `Lock` is the `lock_guard`; `Overflow`, `AbortOnImage`
and `AbortOnKey` end the process; `SignerSlot` and `DecoySlot` are the two arms
of the loop's body; `Close` is lines 616-618 with the unlock and the conversion
to hex that follow. The decoy's two random draws come before its key is
decoded in the code; since an `abort()` discards them, `AbortOnKey` does not
draw.

Strings are classified by what `hextobin` makes of them (`Malformed` or a
value). An encoding is a string of 32 bytes that may or may not be a curve
point. `secretIndex` counts in halves, so that fractions exist; a value of -2
or less stands for every double whose conversion to `size_t` is undefined, and
the conversion then yields 0 (ARM saturates) or an index beyond the ring (x86).
A ring longer than `MaxStackRing` does not fit the stack. The hash of the
transcript is any function of prefix and commitments. Allocation failures of the
binding's vectors are left out: they throw before the lock is taken or after
it is released.

Which commented-out code is used: `check_ring_signature` (crypto.cpp:622-660)
as the reference for what a valid signature is, and the sanity checks at
569-585 as the definition of an honest caller (`OwnsMember`).

### NativeRandom

`build` is `sodium` (Android: `HAVE_SODIUM_H`, `android/CMakeLists.txt`) or
`fallback` (iOS: the podspec does not define it). libsodium is external: `Stir`
and `Stirred` bracket its lazy initialisation, which is not thread-safe.
`device[t]` is `unchecked` when the pointer was set and the entropy test then
threw. A signer is reduced to its lock and its first draw: only the first
can find libsodium uninitialised. Arguments count in halves and `NaN` stands
for a double no `int` can hold.

### HmacSha1

One action per statement that allocates or writes a buffer; `BadAlloc` may
strike at each, leaving the buffers as they are. `SHA-1` is any function of the
bytes; TLC uses symbolic digests, so distinct inputs have distinct outputs.

### ChaChaStream

Blocks have their real size, 64 bytes. The block function is an arbitrary
function of rounds, key, iv and counter. `CallAgain` hands the answer back to
the same method, which is how JavaScript decrypts. The 64-bit counter does not
wrap for any message that fits in memory and is an unbounded natural. A call
brings its rounds, key, iv and message, and `Return` forgets them.

### FieldLimbs and ScalarLimbs

The limb functions with their number and width as parameters: every carry, its
place in the order, its rounding and the wrap-around factor are those of the
code, which has ten limbs of 26 and 25 bits for 2^255 - 19 and twelve of 21 bits
for l. TLC's integers have 32 bits, so the runs use four limbs of 6 and 5 bits
for the prime 2^22 - 3, and four of 3 bits for the prime 4127, whose
signed fold (1, -4) makes both signs occur as in the code. Products are written as sums
over pairs of limbs; the doubled odd products and precomputed multiples of the
code are kept as what they are worth.

What the small limbs do not show is whether the program's own products fit
`int32` and `int64`. The code's comments bound the operands instead
(1.65*2^26 and the like). `CryptoKernels` and `EdwardsCurve` track these bounds,
in hundredths of half a limb's width (330 before a product, 220 before
`fe_tobytes`, 101 after a product), so that a formula whose operands leave them
is found. `ge_p2_dbl` does pass `fe_sub` an operand beyond the bound its comment
states, and stays within what a product may take.

### ScalarRecoding, PowerChains

Recodings are modelled digit by digit, for scalars of `Bytes` bytes. The
recodings need `a[31] <= 127`, which no caller checks: `InRange` is that
condition, and what is exact is claimed under it. An addition chain is at its
real size, because a power of the argument is represented by its exponent's
set of bits: squaring shifts it.

### EdwardsCurve

Every `ge_*` formula on -x^2 + y^2 = 1 + d x^2 y^2 over GF(q), q = 61, where
the curve has 8 * 7 points, as the program's has 8 l. A field element carries
its value and its bound. Constants of `crypto-ops-data.c` (d, the square roots,
the base, the tables of its multiples) are defined by the formulas their
comments give. Decoding a string, with its square root by exponentiation, its
refusals and its sign; hashing to the curve with all four branches and the
assertion at their end; double multiplications with sliding windows and tables.

### CryptonoteBinding

One action per method; arguments are every string of the small curve's length,
`Malformed` for what is no hexadecimal of the right length. An answer is an
encoding, `Thrown`, or `Aborted` where a debug build's assertion fails (`build`).
Beside single calls there is a payment: a sender derives output keys for an
address, of his payee or of another with the same view key, with and without the suffix; the
receiver looks for his own. The transaction key is r G + T for any T of low
order. `crypto.cpp`'s suffix overload is reached by no JavaScript method, only by
these payments. Functions that are commented out are not modelled.

### Varint, Keccak, Words32, Sha1, ChaChaBlock, Codecs

`Varint` has the word size, group size and mantissa of a double as parameters,
so that every number of groups and the first doubles that are not exact occur.
`encodeVarint` refuses negative, fractional and non-finite numbers. It accepts
integers beyond 2^53 - 1, for which the spec promises an error (the run
`varint_unsafe`; `VarintRoundTrip` leaves open whether they are refused, and says
what is encoded if not), and casts 2^64 and more, which is undefined: the model
then has the outcomes of the processors (the largest integer, 2^63 or 0), of
which one may pass the comparison that follows.

Hashes and the cipher's block are at their real size; a word or lane is the set
of its one bits. They are compared with definitions written from the standards
(offsets and positions of Keccak by its walk, round constants by their LFSR,
ChaCha on its matrix), and with published digests.

In `Codecs` the two hex decoders are both modelled: `hextobin` of
`HybridConcealCrypto` hands each pair to `strtol`, which accepts blanks, signs
and `x`, where the other throws. libsodium's base64 and secretbox are external. `secretboxOpen`
throws for a ciphertext shorter than its authenticator and answers null for a
forged one, where `README.md:22` only has null: `SecretboxOpens` leaves open which
of the two it is for a short one (section 3). `base642bin` of the empty string
throws.

### CryptoKernels

From idle one function is called, or two field elements are loaded and up to
`MaxSteps` operations done on them without reducing in between, as long as the
bounds allow the next.

### LibraryLoad

`tree` is what the scripts read and write: each generated file may be missing, the
C++ file may lack the comment at the end of its namespace, and `CMakeLists.txt` its
`find_package` line (the repository's own `android/CMakeLists.txt` has none) or the
name the link rule replaces. A script warns and goes on, or ends, as it does in
the code. `FixVisibility` takes one step per file and can be interrupted between
two; a write is taken to be whole. It adds `JNI_OnLoad` only to a file that is there,
has none and is marked (`WithOnLoad`); otherwise it leaves the file as it is.
`FixPrefabBug` looks for words that its own text does not contain (`fixedByHand`:
someone else's may), so a second effective run defines the CMake target again.
`didLoad` is a field that is not volatile: `setBy` are the threads that wrote it,
and another may or may not see that. The registry, the Java runtime and the build tools are external.

## 3. Runs

| Run | States | Question | Bounds and why they are enough |
|---|---|---|---|
| `ring` | 179,508 | does every honest answer verify, does the loop invariant hold, also while another thread signs; mutual exclusion, refusal, liveness, refinement | scalars mod 3, six points (torsion included). One thread, the other idle: rings of 1-3 keys in every arrangement, own and other images, secrets and indices, all nonces and decoys, so that first, middle and last signer slots with decoys on either side occur. Two threads at once: 2 honest requests and 10 others, one per exit and one whose fractional index signs with another's key; rings beyond 3 overflow the stack |
| `native_random` | 2,862 | who initialises libsodium, and is anyone served meanwhile? | 2 threads, both builds, with and without entropy, one size of each kind |
| `hmac` | 485,000 | do left-over buffers or other threads leak into a digest? | 2 threads, keys of exactly one block and longer, messages of 0 and 2 bytes, blocks of 2, unboundedly many calls: buffers grow and shrink in every order |
| `kernels` | 147,869 | are the pure functions what their standards or names say? | per function, arguments on both sides of each boundary (below): field computations of up to five operations from ten values including 0, p - 1, p and p + 2; scalars around 0, l, 2 l and the top; 5,200 scalars for the recodings; all lengths 0-140 and 268-276 for both paddings; stream messages of 0, 1, 63-65 and 127-129 bytes |
| `binding` | 125,920 | are the methods right in the group, do they refuse what is no point, and do payments arrive? | all 128 strings and a malformed one as points; scalars 0, 1, l, l + 1, one in between, the largest in range and one beyond; both builds; up to two outputs, indices of one and two varint groups, with and without suffix, all eight points of low order |
| `library` | 24,963 | is there one entry point, and one registration? | 945 initial source trees: every file present or missing, marked or not; 3 threads, 2 effective runs of the prefab script, 2 failed loads in a process, unboundedly many processes |
| `ring_aborts` | - | violation: `abort()` instead of the documented error | 1 request |
| `ring_bad_index` | - | violation: a negative index is accepted | 1 request |
| `random_no_entropy` | - | violation: bytes from a device found without entropy | 1 thread |
| `library_prefab_twice` | - | violation: a second run of `fix-prefab-bug.js` does not see the first | as `library` |
| `varint_unsafe` | - | violation: an integer beyond the safe range is encoded | as `kernels` |
| `postcomp` | - | violation: r*I + c*Pb instead of the documented r*Pb + c*I | few points and scalars |

The six violations are disagreements with what the repository says of itself
(`findings` in `PROJECT.json`). Two more were met and have no run of their own,
since no property depends on them:

- `secretboxOpen` throws `Ciphertext too short` (`HybridConcealCrypto.cpp:256`), where
  `README.md:22` says "returns null on failure" and the comment at line 247 nullopt
  if decryption fails. `SecretboxOpens` asks for no message and allows both.
- `fix-visibility.js:62` prints "JNI_OnLoad already present" for a file that has none
  and lacks the comment at the end of its namespace. The model keeps what the script
  does to the file; `OneEntryPoint` promises `JNI_OnLoad` only for a marked file.

What the properties of the passing runs say, where their names do not:

- `SignerInvariant`: what each slot passed has left in the commitments, the sum
  and the signatures, in every thread. `HonestNeverFails`: no honest request whose
  ring fits the stack is refused or kills the process. `ImplementsService`: see section 4.
- `DataMatchesPads`: from the step that fills a buffer to the end of the call, both
  pads and both data buffers of a thread belong to the call it is in, with no byte
  of an earlier one behind them.
- `FieldExact`, `CanonicalBytes`: limbs that went through any permitted sequence
  of operations stand for the value the operations have in the field, and are
  written as the number below p. `ScalarsCanonical`: every `sc_` function
  answers the number below l, for arguments reduced or not; `sc_check` accepts
  l itself.
- `RecodingExact`, `ChainExponents`: for scalars in range, digits are ones
  the tables have (those of `slide` odd and below 16, the others at most 8), and
  their sum is the scalar; the chains
  raise to q - 2 and (q - 5)/8.
- `VarintRoundTrip`: negative numbers and fractions are refused, safe integers are
  encoded, and what is encoded is read back, minimal and within the buffer.
  `CodecsInvert`: decoders invert encoders and refuse what they should.
  `SecretboxOpens`: a box gives its message only whole and with its own nonce and
  key, null if it was forged, and no message if it is too short.
- `InStep`, `StreamCorrect`, `RoundTrip`: counter, pointers and bytes left agree at
  the head of the block loop, each byte meets its keystream byte, and a second
  call restores the message.
- `KeccakIsStandard`, `Sha1IsStandard`, `ChaChaIsStandard`: see above.
- `AnswersOnCurve`: a method throws exactly for what is no canonical encoding
  of a point and otherwise answers with one, whatever the scalar. `AnswersExact`
  and `MethodsAgree`: for scalars in range the answer is the sum or multiple
  meant; methods that recode differently agree.
- `HashIntoSubgroup`: every hash ends in the subgroup of order l and no
  assertion fails. `DerivationShared`, `PaymentFound`: a point of low order in
  the transaction key changes nothing; the receiver finds his outputs, only
  those, and can compute their secret keys.
- `OneEntryPoint`: at most one `JNI_OnLoad`, whatever is missing and however the
  scripts are repeated and interrupted; past a marked C++ file exactly one, and no
  internal class. `ReturnedMeansRegistered`: who returns from `initializeNative`
  finds the object registered, once, if the library has the entry point.

Symmetry of threads is used in `hmac` and `library` only, which check no
liveness property and name no thread. No run turns deadlock checking off: a dead process
stutters explicitly (`Dead`, `Terminated`).

### Fairness

`RingSignature!FairSpec`, `MCRingSignature!MCSpec` (the same with fewer calls) and
`NativeRandom!Spec` assume weak fairness of a thread's own steps
inside a call: the operating system runs a runnable thread some day. `Call` and
`Return` have none, since JavaScript may never call. `Lock` has no strong
fairness, because `std::mutex` does not promise an order among waiters;
`CallAnswered` is therefore conditional on the other threads pausing some day.
`LockReleased` needs no such condition. The other modules state safety only and
assume no fairness.

## 4. Proofs

All theorems are checked by TLAPS for every value of the constants that meets
the named assumptions.

*RingSignatureProofs.* `IInv` strengthens the type invariant and
the lock discipline by `SignerInvariant`. That is needed because
`SignedVerifies` speaks only of the final state: to be inductive it must say what
each loop iteration has built so far - each decoy's commitments come from its
half-signature, the signer's commitments from the nonce, and `sum` is the sum
of the decoys passed (a witness sequence of partial sums, since no recursive
operator may be used). `Close` is then algebra: `ClosingCommits` shows
(k - c*x)*B + c*(x*B) = k*B for B = G and B = H(P), and the c-components add
up to the hash. Assumed: the scalars are a commutative group with a
product, the prime-order subgroup is a module over them, hashing to the curve
lands in it. Nothing is assumed of torsion points.
`HonestNeverFails` is not part of `IInv`; with `Fresh` (no outcome before the
answer) it is inductive beside it: an honest request passes validation and all it
names decodes (`HonestIsValid`), and a thread that kills the process holds the lock,
so no other is in the signer.
Theorems: `InvariantHolds`, `TypeCorrect`, `LockIsHeldInTheSigner`,
`SignaturesVerify`, `SignerIsConsistent`, `HonestRequestsNeverFail`.

The same module shows the refinement. The signer implements `SigningService` under the
mapping `ServiceState`, `ServiceReply` of `RingSignature`. One lemma per action:
`Call` is `Submit`, `Reject` is `Throw`, `Close` is `Sign`, `Return` is
`Collect`, the two aborts and `Overflow` are `Die`, and all other steps
stutter. `IInv` alone does not give it: the mapping shows a reply only of a
thread that has answered, so `RInv` adds `Answered`, that a thread has an
outcome exactly when it has answered. Theorem: `SignerImplementsService`.

*NativeRandomProofs.* `Initialising` says that whoever finds libsodium
raw holds `random_lock`: in the Android build it is never raw once threads run,
in the iOS build only signers ask. `TypeOK` is inductive given that, because
what a double is converted to is an `int` and only one that is not negative
becomes a size. Theorems: `InitialisationIsSerial`,
`ServiceWaitsForInitialisation`, `TypeCorrect`.

*ChaChaStreamProofs.* `IInv` adds to the types that everything behind the
pointers is encrypted and that the input of a second call is the encryption of
the first's. Theorems: `LoopInStep`, `TypeCorrect`, `EveryByteEncrypted`, `DecryptionRestores`.

*HmacSha1Proofs.* `IInv` has a conjunct `Progress` for each thread that says, by
program counter, which buffers hold which part of the computation and nothing of
buffers not yet written: that is why left-over bytes cannot matter. Its lemmas
show that a resize and two overwrites make a concatenation whatever was there
before. Assumed: keys, messages and digests are byte strings
(`StringsAssumption`), digests of `DigestSize` bytes, no longer than a block.
Theorems: `AnswersAreHmacs`, `DataStartsWithPad`.

*LibraryLoadProofs.* Two invariants, of the tree and of the process, and for each
a lemma that the other's steps leave it alone. `TreeInvariant` is the types of the tree and
`OneEntryPoint`: each write of `fix-visibility.js` establishes the next conjunct.
`ProcessInvariant` says that a thread past loading finds the library loaded, and
that the library has been registered exactly when loaded. Theorems:
`EntryPointIsUnique`, `ReturnMeansRegistration`.

*KernelLemmas.* What the kernels compute for every input is induction over
data: sums over limbs, folds over digits and carries. The library's induction
theorems take a predicate, which no installed prover can instantiate. Here the
predicate is a set, and induction is the minimal element (`WFMin`) of what is
not in it: `NaturalInduction`, `SubsetInduction`. From these, `RecursionOnSubsets` gives
the `CHOOSE` of `MapThenFoldSet` its one solution, so that `SumFunction` and
`FoldLeft` can be unfolded: a sum splits, telescopes and is linear, and a left
fold ends where a run of its step ends (`FoldRuns`). A proof about a loop of the
code is then an invariant of that run, as it is for a machine. The second part
says what the operators of `FieldLimbs` mean: `Means(f, v)` is that the integer
of the limbs is v modulo p. A carry keeps it, the one that wraps around
because 2^K is C modulo p (`CarryExact`), so the order of carries does not
matter; `ProductMeans`, `SquareMeans` and `SquareTwiceMeans` exchange the
double sum over pairs of limbs with the sums by position, doubled odd
products and factors C included; `LoadMeans` telescopes the cuts of a string.
Assumed is `LimbsAssumption`, which the program's ten limbs meet.

The third part is about the size of the limbs, in the terms of the library's
comments: `Fits(f, bound)` is that every limb is within `bound` hundredths of half
its width. `ProductsFit` is what stands above `fe_mul`: from arguments within
1.65*2^26, 1.65*2^25, ... to a result within 1.01*2^25, 1.01*2^24, ... A limb of the
products is at most half of `Mass` = 22NC squares of the radix (`ProductsSize`); `Stage`
says how large every limb is after m carries of both interleaved chains, and
`FirstOfPair` and `SecondOfPair` take it one pair further; the last two carries
bring at most `Extra` = C(`Mass` + 1) + 2 into the first limbs, which must be under a
two-hundredth of a limb (`LastCarries`). `LoadFits` does the same for the other
order, the odd limbs and then the even ones. This room is `RoomyElements`; the
program has it, 79,441 against 2^25 / 200 = 167,772. `BytesExact` is what stands
above `fe_tobytes` and needs no room beyond 4C < 2^(W-1), which the code's own
comment asks for: the loop that carries q through all limbs divides the whole
number (`NestedQuotient`, `QuotientExact`); the quotient by p
is one of -2..1 (`SmallQuotient`), and q, as estimated from the last limb, is so near
to it that the number with q added, divided by 2^K, is the number divided by p
(`EstimateExact`); and the last chain of carries
leaves the digits of the remainder (`CarryDownExact`, `BytesBelow`).
Limbs are unbounded integers here: no theorem says that the C types hold them,
though `ProductsSize` and `Stage` give the sizes (2090 * 2^50 before the carries,
4180 * 2^50 + 4181 * 2^25 during them, below 2^63).

*CryptoKernelsProofs.* `FieldIsExact`: with the means above, the invariant that
both operands mean a number below p is inductive, through every operation and
in any order. `BytesAreCanonical` adds to that invariant that the limbs fit the
bound the caller counts (`BoundInvariant`): sums add bounds and stop at the one
`fe_mul` asks for, by the guard of `Compute`, products and loads return to 1.01. An
element whose bound is one that `fe_tobytes` takes is then written as its value.
It asks for `RoomyElements`; `ProgramBytesAreCanonical` is the case of the library
as it is built. The four limbs of the `kernels` run are too few and too narrow for
`RoomyElements`; there TLC finds the property to hold all the same.
`ChainsAreExact`: the exponent of each addition chain as a set
of bits; runs of ones join, and the two final sets are those of p - 2 and
(p - 5)/8. `CodecsAreInverse`: pairs of hexadecimal digits and groups of three bytes and
their four sextets, then every position of a string of any length;
`VarintsRoundTrip`: reading what was written is a run whose k-th state holds the
number's lowest k groups, and the conversion from a double is exact where the
double has no fraction; `SecretboxOpensOnlyItsOwn` by cases. Assumed: `KernelsAssumption` and
`ArgumentsAssumption` give the constants their types, that a double has a
mantissa no wider than the integers (`VarintAssumption`; 53 and 64), that
buffers hold bytes and that a recoded scalar is a string of `Bytes` bytes.

The same module ends with `RecodingsAreExact`, for scalars of any length whose top
bit is clear. In `ge_scalarmult_base` each carry keeps the weighted sum and
leaves a digit of -8..7 behind (`Carried`); the last digit stays at most 8
because of `a[31] <= 127`. In `ge_scalarmult` the digits written and the carry
weigh what the bytes read so far do (`Digits`). In `slide` the value of the whole
array is the scalar all along (`Slid`), but a carry that finds no clear bit would lose
2^256. That no carry does is not visible from any bounded number of digits: the
invariant needs that the digits below position i weigh more than -2^(i + m) where the
next m bits, m at most 3, are zeros. A lost carry would leave nothing above i and
a value below -2^255, which the digits up to i cannot weigh (`FourthTurn`).

*ScalarLimbProofs.* `ScalarsAreCanonical`: whatever strings of 32 or 64 bytes the
`sc_` functions are given, what they answer is the one number below l that the
arithmetic means, and `sc_check` accepts exactly what is at most l. Three lines of
argument meet. The amount of a row of limbs is kept by each carry (`CarryRound`,
`CarryFloor`) and kept modulo l by each fold (`FoldDown`), so the answer is right
modulo l whatever the order; the products of `sc_mulsub` exchange a double sum as
those of `fe_mul` do. That the answer is below l, with limbs that fit its bytes,
is a matter of the fixed chains being long enough: a bound on every limb goes
through both passes of carries and each fold (`Crowd`, `FoldedCrowd`,
`HalvedCrowd`), until the first fold of s12 leaves an amount within 2^(nB) of
zero, the second one in 0..l-1, and the last chain its digits, which `Pack` and
`Load` take apart and join (`StringsFit`). `sc_check` is a sum of signs, one word
at a time: above the highest word in which the string and l differ both sums are
zero, and below it neither the signs nor the gaps can outweigh that word
(`AgreementGrows`). The bounds ask for limbs with room, `RoomyLimbs`: at least
four limbs, and 6 * (`HalvedCrowd` + 2) at most 2^B. The program's limbs (12 of 21
bits, 4 bits over) have it, 1,014,468 of 2,097,152 (`ProgramIsRoomy`), whence
`ProgramScalarsAreCanonical`. The limbs of the `kernels` run are too narrow for
these bounds, which are not the sharpest; there TLC finds the property to hold all the
same. `ScalarsAssumption` gives the constants their types, l its shape and the
words of l their value.

Every leaf passes with a fifth of the prover's usual time, so that a slow or busy
machine proves them too; the few that need longer say so (`SMTT`, `ZenonT`).

Only model-checked: liveness (`LockReleased`, `CallAnswered`: the prover has no
fairness or ENABLED reasoning); `KeccakIsStandard`, `Sha1IsStandard` and `ChaChaIsStandard`, which compare with published digests; and
the properties of `binding` (`AnswersOnCurve`, `AnswersExact`, `MethodsAgree`,
`HashIntoSubgroup`, `DerivationShared`, `PaymentFound`), which need the group law of
the curve, identities of polynomials of high degree that the provers do not find.

## 5. Plan

Done: all components with control or arithmetic of their own, and the theorems
above. What could still be added, in order:

1. That 32 and 64 bits hold every limb and every partial sum at the program's size:
   the bounds of limbs are proved, those inside a product, of the factors 19 f_i and
   2 f_i and of the sums on the way, are not stated.
2. Padding of both hashes at every length, and the ChaCha round against its matrix.

## 6. Not modelled

- `int32` and `int64` overflow at the program's limb width, and the digits of
  the tables in `crypto-ops-data.c`: 255-bit numbers exceed TLC's integers. The laws
  the field satisfies are what `RingAlgebra` assumes.
- Code that is commented out or never called: `check_ring_signature` (used as a
  reference only), `get_varint_data`, `hash_permutation`, `install.cpp`.
- libsodium, `std::random_device`, the Nitro runtime, Java's class loading: external,
  modelled by what the code relies on.
- The iOS template and the single `+load` call before `main`, the TypeScript
  declarations (their comments are the promises the violations quote),
  packaging and CI.
- A file half written by a script: the scripts write each file in one call.
- Timing and memory disclosure are not state and are not expressed.
