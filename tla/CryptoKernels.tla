--------------------------- MODULE CryptoKernels ---------------------------
(***************************************************************************)
(* A caller of the pure functions of the library.  From idle it makes one  *)
(* call, or starts a computation in the field: two elements are loaded and *)
(* then added, subtracted, negated, multiplied and squared without being   *)
(* reduced in between, as the curve formulas do, as long as the bounds of  *)
(* the limbs allow the next operation.                                     *)
(***************************************************************************)
EXTENDS FieldLimbs, Sequences, FiniteSets

CONSTANTS n, B, Fold, ExtraBits, WordBits, Words, WordsOfL \* ScalarLimbs
CONSTANT Bytes                                             \* ScalarRecoding
CONSTANTS GroupBits, IntegerBits, MantissaBits, FractionBits, MAX_VARINT_SIZE
CONSTANTS MacBytes, NonceBytes, KeyBytes                   \* Codecs

CONSTANTS       \* the arguments offered
  ElementStrings, MaxSteps, ScalarStrings, WideStrings, RecodedScalars,
  Numbers, HexStrings, Buffers, Boxes, Lengths, LaneStates, BlockStates, Texts

SL == INSTANCE ScalarLimbs
SR == INSTANCE ScalarRecoding
PC == INSTANCE PowerChains
KC == INSTANCE Keccak
SH == INSTANCE Sha1
CB == INSTANCE ChaChaBlock
CD == INSTANCE Codecs
VI == INSTANCE Varint WITH WordBits <- IntegerBits

ASSUME KernelsAssumption ==
  /\ SL!ScalarsAssumption /\ SR!BytesAssumption /\ VI!VarintAssumption
  /\ MacBytes \in Nat /\ NonceBytes \in Nat /\ KeyBytes \in Nat

Strings == Seq(0..255)          \* ArrayBuffers, and the bytes of strings
BoxCases ==
  [message : Strings, nonce : Strings, key : Strings, openNonce : Strings,
   openKey : Strings, fate : {"whole", "cut", "altered"}, cutTo : Nat]

ASSUME ArgumentsAssumption ==
  /\ ElementStrings \subseteq Nat
  /\ ScalarStrings \subseteq SL!Strings /\ WideStrings \subseteq SL!Doubles
  /\ RecodedScalars \subseteq 0..(2^(8 * Bytes) - 1)
  /\ Numbers \subseteq {x \in Int : VI!IsDouble(x)}
  /\ HexStrings \subseteq Strings /\ Buffers \subseteq Strings
  /\ Boxes \subseteq BoxCases
  /\ Lengths \subseteq Nat
  /\ \A text \in Texts : text.function \in {"cn_fast_hash", "sha1", "chacha"}

VARIABLES
  job,          \* the call: its function, arguments and answer
  left, right,  \* field elements: limbs, their bound, the value meant
  steps         \* operations done since they were loaded

vars == << job, left, right, steps >>

Idle == << "idle", << >>, << >> >>
Operand(limbs, bound, value) == [limbs |-> limbs, bound |-> bound, value |-> value]
Zero == Operand(fe_0, 0, 0)

Init == job = Idle /\ left = Zero /\ right = Zero /\ steps = 0

Called(call) == job[1] = call
In(k) == job[2][k]
Out == job[3]
-----------------------------------------------------------------------------
(* Field computations.  Bounds are in hundredths of half a limb's width:   *)
(* 101 after a product, whose operands must be within 330.                 *)
MulLimit == 330
BytesLimit == 220
ProductBound == 101

Times(a, b) ==   \* a b mod p, without leaving TLC's integers
  LET High == (a * (b \div 65536)) % p
      Middle == (High * 256 + a * ((b \div 256) % 256)) % p
  IN  (Middle * 256 + a * (b % 256)) % p

LoadElements ==   \* the load ignores the bit above the K of an element
  /\ \E s, t \in ElementStrings :
       /\ left' = Operand(fe_frombytes(s), ProductBound, (s % 2^K) % p)
       /\ right' = Operand(fe_frombytes(t), ProductBound, (t % 2^K) % p)
  /\ job' = << "field", << >>, << >> >>
  /\ UNCHANGED steps

Compute(limbs, bound, value) ==
  /\ Called("field") /\ steps < MaxSteps
  /\ bound <= MulLimit
  /\ left' = Operand(limbs, bound, value)
  /\ steps' = steps + 1
  /\ UNCHANGED << job, right >>

Add == Compute(fe_add(left.limbs, right.limbs), left.bound + right.bound,
               (left.value + right.value) % p)
Subtract == Compute(fe_sub(left.limbs, right.limbs), left.bound + right.bound,
                    (left.value - right.value) % p)
Negate == Compute(fe_neg(left.limbs), left.bound, (-left.value) % p)
Multiply == Compute(fe_mul(left.limbs, right.limbs), ProductBound,
                    Times(left.value, right.value))
Square == Compute(fe_sq(left.limbs), ProductBound, Times(left.value, left.value))
SquareTwice == Compute(fe_sq2(left.limbs), ProductBound,
                       (2 * Times(left.value, left.value)) % p)
Move ==         \* fe_cmov with either bit, fe_copy
  \E b \in {0, 1} :
    LET from == IF b = 1 THEN right ELSE left
    IN  Compute(fe_cmov(fe_copy(left.limbs), right.limbs, b), from.bound, from.value)
-----------------------------------------------------------------------------
(* One call.                                                               *)
Run(call, in, out) ==
  /\ job' = << call, in, out >>
  /\ UNCHANGED << left, right, steps >>

RunScalar ==
  \/ \E s \in WideStrings : Run("sc_reduce", << s >>, SL!sc_reduce(s))
  \/ \E s \in ScalarStrings : Run("sc_reduce32", << s >>, SL!sc_reduce32(s))
  \/ \E s \in ScalarStrings : Run("sc_check", << s >>, SL!sc_check(s))
  \/ \E a, b \in ScalarStrings : Run("sc_add", << a, b >>, SL!sc_add(a, b))
  \/ \E a, b \in ScalarStrings : Run("sc_sub", << a, b >>, SL!sc_sub(a, b))
  \/ \E a, b, c \in ScalarStrings : Run("sc_mulsub", << a, b, c >>, SL!sc_mulsub(a, b, c))

RunRecoding ==
  \E a \in RecodedScalars :
    Run("recoding", << a >>,
        [slide |-> SR!slide(a), radix |-> SR!Radix16(a), base |-> SR!Radix16Base(a)])

RunPower == Run("power", << >>, << PC!fe_invert, PC!fe_pow22523 >>)

RunVarint == \E x \in Numbers : \E out \in VI!encodeVarint(x) : Run("varint", << x >>, out)

RunCodec ==
  \/ \E hex \in HexStrings : Run("hextobin", << hex >>, CD!hextobin(hex))
  \/ \E hex \in HexStrings : \E size \in 0..2 :
       Run("hextobinStrict", << hex, size >>, CD!hextobinStrict(hex, size))
  \/ \E data \in Buffers : Run("bintohex", << data >>, CD!bintohex(data))
  \/ \E data \in Buffers : Run("bin2base64", << data >>, CD!bin2base64(data))

(* A box is sealed, may be cut or altered on its way, and is opened with   *)
(* some nonce and key.                                                     *)
RunSecretbox ==
  \E b \in Boxes :
    LET sealed == CD!secretbox(b.message, b.nonce, b.key)
        box == CASE b.fate = "cut" -> [sealed EXCEPT !.size = b.cutTo]
                 [] b.fate = "altered" -> [sealed EXCEPT !.seal = CD!Altered]
                 [] OTHER -> sealed
    IN  Run("secretboxOpen", << b >>,
            IF sealed = CD!NoBox THEN CD!Refused
            ELSE CD!secretboxOpen(box, b.openNonce, b.openKey))

RunHash ==
  \/ \E st \in LaneStates : \E round \in 1..24 :
       Run("round", << st, round >>, KC!Round(st, round))
  \/ \E len \in Lengths :
       LET in == [k \in 1..len |-> k % 256] IN Run("blocks", << in >>, KC!Blocks(in))
  \/ \E len \in Lengths :
       LET in == [k \in 1..len |-> k % 256] IN Run("sha1 padding", << in >>, SH!Padded(in))
  \/ \E st \in BlockStates : Run("double round", << st >>, CB!DoubleRound(st))
  \/ \E text \in Texts : Run(text.function, << text >>,
       CASE text.function = "cn_fast_hash" -> KC!cn_fast_hash(text.in)
         [] text.function = "sha1" -> SH!sha1(text.in)
         [] text.function = "chacha" ->
              CB!chacha_block(text.in.key, text.in.iv, << {}, {} >>, text.in.rounds))

Done ==
  /\ ~Called("idle")
  /\ job' = Idle /\ left' = Zero /\ right' = Zero /\ steps' = 0

Next ==
  \/ /\ job = Idle
     /\ \/ LoadElements \/ RunScalar \/ RunRecoding \/ RunPower \/ RunVarint
        \/ RunCodec \/ RunSecretbox \/ RunHash
  \/ Add \/ Subtract \/ Negate \/ Multiply \/ Square \/ SquareTwice \/ Move
  \/ Done

Spec == Init /\ [][Next]_vars
-----------------------------------------------------------------------------
(* fe_add ... fe_sq2: whatever sequence of operations the bounds allow, the*)
(* limbs stand for the value the operations have in the field.             *)
FieldExact == Element(left.limbs) = left.value /\ Element(right.limbs) = right.value

(* fe_tobytes, on limbs that were never reduced in between: the bytes are  *)
(* those of the value below p, and its parity and nonzeroness are as       *)
(* fe_isnegative and fe_isnonzero say.                                     *)
CanonicalBytes ==
  \A e \in {left, right} :
    e.bound <= BytesLimit =>
      /\ fe_tobytes(e.limbs) = e.value
      /\ fe_isnegative(e.limbs) = e.value % 2
      /\ fe_isnonzero(e.limbs) <=> e.value # 0

(* sc_reduce ... sc_mulsub: for arguments that are reduced or not, the     *)
(* answer is the one number below l; sc_check accepts what is below l, and *)
(* l itself.                                                               *)
ScalarsCanonical ==
  /\ Called("sc_reduce") \/ Called("sc_reduce32") => Out = In(1) % SL!l
  /\ Called("sc_add") => Out = (In(1) + In(2)) % SL!l
  /\ Called("sc_sub") => Out = (In(1) - In(2)) % SL!l
  /\ Called("sc_mulsub") => Out = (In(3) - In(1) * In(2)) % SL!l
  /\ Called("sc_check") => (Out = 0 <=> In(1) <= SL!l)

(* The three recodings of a scalar that meets a[31] <= 127: the digits     *)
(* weigh as much as the scalar, and each has an entry in its table (odd    *)
(* multiples to 15, all multiples to 8).                                   *)
RecodingExact ==
  Called("recoding") /\ SR!InRange(In(1)) =>
    /\ SR!SlideValue(Out.slide) = In(1)
    /\ \A i \in DOMAIN Out.slide :
         Out.slide[i] = 0 \/ (Out.slide[i] \in -15..15 /\ Out.slide[i] % 2 = 1)
    /\ \A e \in {Out.radix, Out.base} :
         SR!RadixValue(e) = In(1) /\ \A k \in DOMAIN e : e[k] \in -8..8

(* fe_invert raises to 2^255 - 21 and fe_divpowm1 to 2^252 - 3: every bit  *)
(* but 2 and 4, every bit but 1.                                           *)
ChainExponents ==
  Called("power") => Out = << (0..254) \ {2, 4}, (0..251) \ {1} >>

(* encodeVarint, below the range of an unsigned integer: negative numbers  *)
(* and fractions are refused, the safe integers of JavaScript are encoded, *)
(* and what is encoded, which is left open for the larger integers, is read*)
(* back whole, is as short as possible and fits the buffer.                *)
IsSafe(x) == x \in 0..(2^MantissaBits * VI!Unit - 1) /\ x % VI!Unit = 0
VarintRoundTrip ==
  Called("varint") /\ In(1) < 2^IntegerBits * VI!Unit =>
    /\ In(1) < 0 \/ In(1) % VI!Unit # 0 => Out = VI!Refused
    /\ IsSafe(In(1)) => Out # VI!Refused
    /\ Out # VI!Refused =>
         /\ VI!read_varint(Out) =
              [i |-> In(1) \div VI!Unit, read |-> Len(Out), done |-> TRUE]
         /\ Len(Out) <= MAX_VARINT_SIZE

(* The two hextobin agree wherever the strict one answers, both invert     *)
(* bintohex, the strict one refuses exactly what is no hexadecimal of the  *)
(* expected size; base64 of anything but nothing is decoded to what it was.*)
CodecsInvert ==
  /\ Called("hextobinStrict") =>
       IF Out = CD!Refused
       THEN Len(In(1)) # 2 * In(2) \/ \E k \in DOMAIN In(1) : ~CD!IsHexChar(In(1)[k])
       ELSE CD!hextobin(In(1)) = Out
  /\ Called("hextobin") => (Out = CD!Refused <=> Len(In(1)) % 2 = 1)
  /\ Called("bintohex") =>
       CD!hextobin(Out) = In(1) /\ CD!hextobinStrict(Out, Len(In(1))) = In(1)
  /\ Called("bin2base64") /\ In(1) # << >> => CD!base642bin(Out) = In(1)

(* secretboxOpen: a box that arrives whole, with its nonce and key, gives  *)
(* the message, an empty one too; one that was cut or altered, or comes    *)
(* with another nonce or key, gives null.  Without an authenticator, or    *)
(* with a nonce or key of a wrong size, there is no message; whether that  *)
(* is an exception or null is left open.                                   *)
SizesGood(b) ==
  /\ Len(b.nonce) = NonceBytes /\ Len(b.key) = KeyBytes
  /\ Len(b.openNonce) = NonceBytes /\ Len(b.openKey) = KeyBytes
HasAuthenticator(b) == b.fate = "cut" => b.cutTo >= MacBytes
IsOwnBox(b) ==
  /\ b.fate = "whole" \/ (b.fate = "cut" /\ b.cutTo = Len(b.message) + MacBytes)
  /\ b.nonce = b.openNonce /\ b.key = b.openKey

SecretboxOpens ==
  Called("secretboxOpen") =>
    IF SizesGood(In(1)) /\ HasAuthenticator(In(1))
    THEN Out = IF IsOwnBox(In(1)) THEN In(1).message ELSE CD!Null
    ELSE Out \in {CD!Null, CD!Refused}

(* keccakf is the permutation of FIPS 202, tables included, and the last   *)
(* block is padded at every length, a full one too.                        *)
KeccakIsStandard ==
  /\ Called("round") => /\ Out = KC!StandardRound(In(1), In(2) - 1)
                        /\ KC!TablesAreStandard
  /\ Called("blocks") => KC!IsPadded(In(1), KC!Joined(Out))
  /\ Called("cn_fast_hash") => Out = In(1).digest

(* SHA-1 pads every length to the shortest message that holds it, and      *)
(* answers the digests of the standard.                                    *)
Sha1IsStandard ==
  /\ Called("sha1 padding") => SH!IsPadded(In(1), Out)
  /\ Called("sha1") => Out = In(1).digest

(* chacha_block is the cipher of its author, written there on a matrix.    *)
ChaChaIsStandard ==
  /\ Called("double round") => Out = CB!MatrixDoubleRound(In(1))
  /\ Called("chacha") => SubSeq(Out, 1, Len(In(1).digest)) = In(1).digest
-----------------------------------------------------------------------------
(* Cryptonote.nitro.ts:96, "@throws Error if value is negative, fractional, *)
(* or outside safe integer range".                                          *)
UnsafeIntegersThrow ==
  Called("varint") /\ In(1) >= 2^MantissaBits * VI!Unit => Out = VI!Refused
=============================================================================
