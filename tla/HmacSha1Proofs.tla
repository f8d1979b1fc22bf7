--------------------------- MODULE HmacSha1Proofs ---------------------------
(***************************************************************************)
(* Why hmacSha1 answers the HMAC of its own arguments, whatever its        *)
(* buffers held before: every byte of them is written before it is read.   *)
(***************************************************************************)
EXTENDS HmacSha1, SequenceTheorems, TLAPS

(* A function on 1..m is a string of length m.                             *)
LEMMA FunctionIsString ==
  ASSUME NEW m \in Nat, NEW f, f = [j \in 1..m |-> f[j]]
  PROVE  IsString(f) /\ Len(f) = m
<1> DEFINE S == {f[j] : j \in 1..m}
<1>1. f \in [1..m -> S]
  OBVIOUS
<1>2. f \in Seq(S)
  BY <1>1
<1>3. Len(f) \in Nat /\ DOMAIN f = 1..Len(f)
  BY <1>2, LenProperties
<1>4. DOMAIN f = 1..m
  BY <1>1
<1>5. Len(f) = m
  BY <1>3, <1>4
<1> QED
  BY <1>5 DEF IsString

LEMMA StringIsSeq ==
  ASSUME NEW s, IsString(s), NEW S, \A j \in 1..Len(s) : s[j] \in S
  PROVE  s \in Seq(S)
<1>1. s \in [1..Len(s) -> S]
  BY DEF IsString
<1> QED
  BY <1>1 DEF IsString

(* \o, position by position.                                               *)
LEMMA Concatenation ==
  ASSUME NEW a, NEW b, IsString(a), IsString(b)
  PROVE  /\ a \o b = [j \in 1..(Len(a) + Len(b)) |->
                       IF j <= Len(a) THEN a[j] ELSE b[j - Len(a)]]
         /\ IsString(a \o b) /\ Len(a \o b) = Len(a) + Len(b)
<1> DEFINE S == {a[j] : j \in 1..Len(a)} \cup {b[j] : j \in 1..Len(b)}
<1>1. a \in Seq(S) /\ b \in Seq(S)
  BY StringIsSeq
<1>2. /\ a \o b \in Seq(S)
      /\ Len(a \o b) = Len(a) + Len(b)
      /\ \A j \in 1..(Len(a) + Len(b)) :
           (a \o b)[j] = IF j <= Len(a) THEN a[j] ELSE b[j - Len(a)]
  BY <1>1, ConcatProperties
<1>3. Len(a) + Len(b) \in Nat
  BY DEF IsString
<1>4. a \o b \in [1..(Len(a) + Len(b)) -> S]
  BY <1>2, LenProperties
<1>5. a \o b = [j \in 1..(Len(a) + Len(b)) |-> (a \o b)[j]]
  BY <1>4
<1> QED
  BY <1>2, <1>3, <1>5, FunctionIsString

(* The two memcpy of steps 3 and 4 leave nothing of what the buffer held.  *)
LEMMA Overwriting ==
  ASSUME NEW v, NEW a, NEW b, NEW size, IsString(a), IsString(b), Len(a) = size
  PROVE  Copied(Copied(Resize(v, size + Len(b)), 0, a), size, b) = a \o b
<1> DEFINE m == Len(a) + Len(b)
           once == Copied(Resize(v, m), 0, a)
<1>1. m \in Nat /\ Len(a) \in Nat /\ Len(b) \in Nat
  BY DEF IsString
<1>2. Len(Resize(v, m)) = m
  BY <1>1, FunctionIsString DEF Resize
<1>3. once = [j \in 1..m |-> IF j \in 1..Len(a) THEN a[j] ELSE Resize(v, m)[j]]
  BY <1>1, <1>2 DEF Copied
<1>4. Len(once) = m
  BY <1>1, <1>3, FunctionIsString
<1>5. Copied(once, Len(a), b) =
        [j \in 1..m |-> IF j \in (Len(a) + 1)..m THEN b[j - Len(a)] ELSE once[j]]
  BY <1>4 DEF Copied
<1>6. \A j \in 1..m : j \notin (Len(a) + 1)..m => j \in 1..Len(a) /\ j <= Len(a)
  BY <1>1
<1>7. Copied(once, Len(a), b) =
        [j \in 1..m |-> IF j <= Len(a) THEN a[j] ELSE b[j - Len(a)]]
  BY <1>1, <1>3, <1>5, <1>6
<1> QED
  BY <1>7, Concatenation

(* Step 1 makes the key of RFC 2104.                                       *)
LEMMA PaddedWithZeros ==
  ASSUME NEW s, IsString(s), Len(s) <= BlockSize
  PROVE  Resize(s, BlockSize) = s \o Zeros(BlockSize - Len(s))
<1> DEFINE z == Zeros(BlockSize - Len(s))
<1>1. BlockSize - Len(s) \in Nat /\ Len(s) \in Nat /\ BlockSize \in Nat
  BY SizesAssumption DEF IsString
<1>2. IsString(z) /\ Len(z) = BlockSize - Len(s)
  BY <1>1, FunctionIsString DEF Zeros
<1>3. s \o z = [j \in 1..BlockSize |-> IF j <= Len(s) THEN s[j] ELSE z[j - Len(s)]]
  BY <1>1, <1>2, Concatenation
<1>4. \A j \in 1..BlockSize : ~(j <= Len(s)) => z[j - Len(s)] = ZeroByte
  BY <1>1 DEF Zeros
<1> QED
  BY <1>3, <1>4 DEF Resize

LEMMA KeyIsReference ==
  ASSUME NEW key \in Keys
  PROVE  PaddedKey(key) = ReferenceKey(key)
<1>1. IsString(key) /\ IsString(Sha1(key)) /\ Len(Sha1(key)) = DigestSize
  BY StringsAssumption
<1>2. CASE Len(key) > BlockSize
  <2>1. Len(Sha1(key)) <= BlockSize
    BY <1>1, SizesAssumption
  <2>2. Resize(Sha1(key), BlockSize) = Sha1(key) \o Zeros(BlockSize - DigestSize)
    BY <1>1, <2>1, PaddedWithZeros
  <2> QED
    BY <1>2, <2>2 DEF PaddedKey, ReferenceKey
<1>3. CASE ~(Len(key) > BlockSize)
  <2>1. Len(key) <= BlockSize
    BY <1>1, <1>3, SizesAssumption DEF IsString
  <2> QED
    BY <1>1, <1>3, <2>1, PaddedWithZeros DEF PaddedKey, ReferenceKey
<1> QED
  BY <1>2, <1>3

LEMMA MaskIsString ==
  ASSUME NEW key, NEW pad
  PROVE  IsString(Masked(key, pad)) /\ Len(Masked(key, pad)) = BlockSize
BY FunctionIsString, SizesAssumption DEF Masked
-----------------------------------------------------------------------------
(* The inductive invariant.  It says of each buffer what it holds from the *)
(* step that fills it to the step that reads it, and nothing before: that  *)
(* is why what an earlier call left there does not matter.                 *)
Labels == {"idle", "key", "innerPad", "outerPad", "innerData", "innerHash", "outerData",
           "outerHash", "answered"}
Fields == {"innerPadded", "outerPadded", "innerData", "outerData"}
Calling == Labels \ {"idle", "answered"}

InnerOf(t) == Masked(asked[t].key, "inner") \o asked[t].data
OuterOf(t) == Masked(asked[t].key, "outer") \o Sha1(InnerOf(t))

Progress(t) ==
  /\ pc[t] # "idle" => asked[t].key \in Keys /\ asked[t].data \in Messages
  /\ pc[t] \in Calling => dataBytes[t] = asked[t].data
  /\ pc[t] = "key" => keyBytes[t] = asked[t].key
  /\ pc[t] \in Calling \ {"key"} => keyBytes[t] = ReferenceKey(asked[t].key)
  /\ pc[t] \in {"innerData", "innerHash", "outerData", "outerHash"} =>
       /\ buffers[t].innerPadded = Masked(asked[t].key, "inner")
       /\ buffers[t].outerPadded = Masked(asked[t].key, "outer")
  /\ pc[t] \in {"innerHash", "outerData", "outerHash"} =>
       buffers[t].innerData = InnerOf(t)
  /\ pc[t] \in {"outerData", "outerHash"} => innerHash[t] = Sha1(InnerOf(t))
  /\ pc[t] = "outerHash" => buffers[t].outerData = OuterOf(t)
  /\ answer[t].kind = "digest" =>
       pc[t] = "answered" /\ answer[t].bytes = Sha1(OuterOf(t))

Shapes ==
  /\ pc \in [Threads -> Labels]
  /\ DOMAIN keyBytes = Threads /\ DOMAIN dataBytes = Threads
  /\ DOMAIN innerHash = Threads /\ DOMAIN asked = Threads
  /\ DOMAIN answer = Threads /\ DOMAIN buffers = Threads
  /\ \A t \in Threads : DOMAIN buffers[t] = Fields

IInv == Shapes /\ \A t \in Threads : Progress(t)

LEMMA InitIInv == Init => IInv
BY DEF Init, IInv, Shapes, Progress, Labels, Fields, Calling, NoBuffers, None

LEMMA StepKeepsShapes ==
  ASSUME Shapes, NEW t \in Threads,
         Work(t) \/ Return(t) \/ \E key \in Keys, d \in Messages : Call(t, key, d)
  PROVE  Shapes'
<1> USE DEF Shapes, Labels, Fields, Goto, Set, BuffersOf
<1>1. CASE \E key \in Keys, d \in Messages : Call(t, key, d)
  BY <1>1 DEF Call
<1>2. CASE PrepareKey(t) \/ HashInner(t) \/ HashOuter(t)
  BY <1>2 DEF PrepareKey, HashInner, HashOuter
<1>3. CASE ResizeInner(t)
  BY <1>3 DEF ResizeInner
<1>4. CASE PadBoth(t)
  BY <1>4 DEF PadBoth
<1>5. CASE FillInner(t)
  BY <1>5 DEF FillInner
<1>6. CASE FillOuter(t)
  BY <1>6 DEF FillOuter
<1>7. CASE BadAlloc(t)
  BY <1>7 DEF BadAlloc
<1>8. CASE Return(t)
  BY <1>8 DEF Return
<1> QED
  BY <1>1, <1>2, <1>3, <1>4, <1>5, <1>6, <1>7, <1>8 DEF Work

(* A step of t leaves the others as they are: the buffers are thread_local. *)
LEMMA OthersUntouched ==
  ASSUME Shapes, NEW t \in Threads, NEW u \in Threads, u # t,
         Work(t) \/ Return(t) \/ \E key \in Keys, d \in Messages : Call(t, key, d)
  PROVE  /\ pc'[u] = pc[u] /\ keyBytes'[u] = keyBytes[u] /\ dataBytes'[u] = dataBytes[u]
         /\ innerHash'[u] = innerHash[u] /\ buffers'[u] = buffers[u]
         /\ asked'[u] = asked[u] /\ answer'[u] = answer[u]
<1> USE DEF Shapes, Goto, Set, BuffersOf
<1>1. CASE \E key \in Keys, d \in Messages : Call(t, key, d)
  BY <1>1 DEF Call
<1>2. CASE PrepareKey(t) \/ ResizeInner(t) \/ PadBoth(t)
  BY <1>2 DEF PrepareKey, ResizeInner, PadBoth
<1>3. CASE FillInner(t) \/ HashInner(t)
  BY <1>3 DEF FillInner, HashInner
<1>4. CASE FillOuter(t) \/ HashOuter(t)
  BY <1>4 DEF FillOuter, HashOuter
<1>5. CASE BadAlloc(t) \/ Return(t)
  BY <1>5 DEF BadAlloc, Return
<1> QED
  BY <1>1, <1>2, <1>3, <1>4, <1>5 DEF Work

LEMMA StepKeepsProgress ==
  ASSUME Shapes, NEW t \in Threads, Progress(t),
         Work(t) \/ Return(t) \/ \E key \in Keys, d \in Messages : Call(t, key, d)
  PROVE  Progress(t)'
<1> USE DEF Shapes, Progress, Labels, Fields, Calling, Goto, Set, BuffersOf, InnerOf, OuterOf
<1>1. CASE \E key \in Keys, d \in Messages : Call(t, key, d)
  BY <1>1 DEF Call
<1>2. CASE PrepareKey(t)
  BY <1>2, KeyIsReference DEF PrepareKey
<1>3. CASE ResizeInner(t)
  BY <1>3 DEF ResizeInner
<1>4. CASE PadBoth(t)
  <2>1. /\ Padded(t, "inner") = Masked(asked[t].key, "inner")
        /\ Padded(t, "outer") = Masked(asked[t].key, "outer")
    BY <1>4 DEF PadBoth, Padded, Masked
  <2> QED
    BY <1>4, <2>1 DEF PadBoth
<1>5. CASE FillInner(t)
  <2>1. /\ dataBytes[t] = asked[t].data /\ buffers[t].innerPadded = Masked(asked[t].key, "inner")
        /\ asked[t].key \in Keys /\ asked[t].data \in Messages
    BY <1>5 DEF FillInner
  <2>2. InnerOf(t) = buffers[t].innerPadded \o dataBytes[t]
    BY <2>1
  <2>6. /\ IsString(dataBytes[t]) /\ IsString(buffers[t].innerPadded)
        /\ Len(buffers[t].innerPadded) = BlockSize
    BY <2>1, StringsAssumption, MaskIsString
  <2>7. Copied(Copied(Resize(buffers[t].innerData, BlockSize + Len(dataBytes[t])), 0,
                      buffers[t].innerPadded), BlockSize, dataBytes[t]) = InnerOf(t)
    <3> HIDE DEF Shapes, Progress, InnerOf, OuterOf
    <3> QED
      BY <2>2, <2>6, Overwriting, ZenonT(60)
  <2>3. /\ pc'[t] = "innerHash" /\ UNCHANGED << keyBytes, dataBytes, innerHash, asked, answer >>
        /\ buffers' = [buffers EXCEPT ![t]["innerData"] = InnerOf(t)]
    BY <1>5, <2>7 DEF FillInner
  <2>4. /\ buffers'[t].innerData = InnerOf(t)
        /\ buffers'[t].innerPadded = buffers[t].innerPadded
        /\ buffers'[t].outerPadded = buffers[t].outerPadded
    BY <2>3
  <2>5. pc[t] = "innerData"
    BY <1>5 DEF FillInner
  <2> QED
    BY <2>3, <2>4, <2>5
<1>6. CASE HashInner(t)
  BY <1>6 DEF HashInner
<1>7. CASE FillOuter(t)
  <2>1. /\ innerHash[t] = Sha1(InnerOf(t)) /\ buffers[t].outerPadded = Masked(asked[t].key, "outer")
        /\ asked[t].key \in Keys /\ asked[t].data \in Messages
    BY <1>7 DEF FillOuter
  <2>2. OuterOf(t) = buffers[t].outerPadded \o innerHash[t]
    BY <2>1
  <2>6. /\ IsString(innerHash[t]) /\ IsString(buffers[t].outerPadded)
        /\ Len(buffers[t].outerPadded) = BlockSize
    BY <2>1, StringsAssumption, MaskIsString
  <2>7. Copied(Copied(Resize(buffers[t].outerData, BlockSize + Len(innerHash[t])), 0,
                      buffers[t].outerPadded), BlockSize, innerHash[t]) = OuterOf(t)
    <3> HIDE DEF Shapes, Progress, InnerOf, OuterOf
    <3> QED
      BY <2>2, <2>6, Overwriting
  <2>3. /\ pc'[t] = "outerHash" /\ UNCHANGED << keyBytes, dataBytes, innerHash, asked, answer >>
        /\ buffers' = [buffers EXCEPT ![t]["outerData"] = OuterOf(t)]
    BY <1>7, <2>7 DEF FillOuter
  <2>4. /\ buffers'[t].outerData = OuterOf(t)
        /\ buffers'[t].innerPadded = buffers[t].innerPadded
        /\ buffers'[t].outerPadded = buffers[t].outerPadded
        /\ buffers'[t].innerData = buffers[t].innerData
    BY <2>3
  <2>5. pc[t] = "outerData"
    BY <1>7 DEF FillOuter
  <2> QED
    BY <2>3, <2>4, <2>5
<1>8. CASE HashOuter(t)
  BY <1>8 DEF HashOuter
<1>9. CASE BadAlloc(t)
  BY <1>9 DEF BadAlloc, Failed
<1>10. CASE Return(t)
  BY <1>10 DEF Return, None
<1> QED
  BY <1>1, <1>2, <1>3, <1>4, <1>5, <1>6, <1>7, <1>8, <1>9, <1>10 DEF Work

LEMMA NextKeepsIInv == IInv /\ [Next]_vars => IInv'
<1> SUFFICES ASSUME IInv, [Next]_vars PROVE IInv'
  OBVIOUS
<1>1. CASE UNCHANGED vars
  BY <1>1 DEF vars, IInv, Shapes, Progress, InnerOf, OuterOf
<1>2. ASSUME NEW t \in Threads,
             Work(t) \/ Return(t) \/ \E key \in Keys, d \in Messages : Call(t, key, d)
      PROVE  IInv'
  <2>1. Shapes'
    BY <1>2, StepKeepsShapes DEF IInv
  <2>2. Progress(t)'
    BY <1>2, StepKeepsProgress DEF IInv
  <2>3. ASSUME NEW u \in Threads, u # t PROVE Progress(u)'
    <3>1. Progress(u)
      BY DEF IInv
    <3> QED
      BY <1>2, <2>3, <3>1, OthersUntouched DEF IInv, Progress, InnerOf, OuterOf
  <2> QED
    BY <2>1, <2>2, <2>3 DEF IInv
<1> QED
  BY <1>1, <1>2 DEF Next

LEMMA InvariantHolds == Spec => []IInv
<1> QED
  BY InitIInv, NextKeepsIInv, PTL DEF Spec

(* hmacSha1 answers the HMAC of the arguments of its own call, for any     *)
(* number of threads and calls, any failures and any hash function of fixed*)
(* length.                                                                 *)
THEOREM AnswersAreHmacs == Spec => []AnswerIsHmac
<1>1. IInv => AnswerIsHmac
  BY DEF IInv, AnswerIsHmac, Progress, InnerOf, OuterOf, Hmac
<1> QED
  BY <1>1, InvariantHolds, PTL

(* Both pads and both data buffers are those of the call in progress, of    *)
(* the size this call gives them, from the step that fills them on.         *)
THEOREM DataStartsWithPad == Spec => []DataMatchesPads
<1>1. ASSUME IInv, NEW t \in Threads, pc[t] \in {"innerHash", "outerData", "outerHash"}
      PROVE  /\ Len(buffers[t].innerData) = BlockSize + Len(asked[t].data)
             /\ buffers[t].innerData = buffers[t].innerPadded \o asked[t].data
  <2> DEFINE mask == Masked(asked[t].key, "inner")
             data == asked[t].data
  <2>1. /\ data \in Messages
        /\ buffers[t].innerPadded = mask /\ buffers[t].innerData = mask \o data
    BY <1>1 DEF IInv, Progress, Calling, Labels, InnerOf
  <2>2. IsString(data) /\ IsString(mask) /\ Len(mask) = BlockSize
    BY <2>1, StringsAssumption, MaskIsString
  <2> HIDE DEF mask, data
  <2>3. Len(mask \o data) = Len(mask) + Len(data)
    BY <2>2, Concatenation
  <2> QED
    BY <2>1, <2>2, <2>3 DEF data
<1>2. ASSUME IInv, NEW t \in Threads, pc[t] = "outerHash"
      PROVE  /\ Len(buffers[t].outerData) = BlockSize + Len(innerHash[t])
             /\ buffers[t].outerData = buffers[t].outerPadded \o Sha1(buffers[t].innerData)
  <2> DEFINE mask == Masked(asked[t].key, "outer")
             hash == innerHash[t]
  <2>1. /\ asked[t].key \in Keys /\ asked[t].data \in Messages
        /\ hash = Sha1(buffers[t].innerData)
        /\ buffers[t].innerData = InnerOf(t)
        /\ buffers[t].outerPadded = mask /\ buffers[t].outerData = mask \o hash
    BY <1>2 DEF IInv, Progress, Calling, Labels, OuterOf
  <2>2. IsString(hash) /\ IsString(mask) /\ Len(mask) = BlockSize
    BY <2>1, StringsAssumption, MaskIsString DEF InnerOf
  <2> HIDE DEF mask, hash
  <2>3. Len(mask \o hash) = Len(mask) + Len(hash)
    BY <2>2, Concatenation
  <2> QED
    BY <2>1, <2>2, <2>3 DEF hash
<1>3. ASSUME IInv, NEW t \in Threads,
             pc[t] \in {"innerData", "innerHash", "outerData", "outerHash"}
      PROVE  /\ buffers[t].innerPadded = Masked(asked[t].key, "inner")
             /\ buffers[t].outerPadded = Masked(asked[t].key, "outer")
  BY <1>3 DEF IInv, Progress
<1>4. IInv => DataMatchesPads
  BY <1>1, <1>2, <1>3 DEF DataMatchesPads
<1> QED
  BY <1>4, InvariantHolds, PTL
=============================================================================
