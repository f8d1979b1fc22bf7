------------------------------ MODULE HmacSha1 ------------------------------
(***************************************************************************)
(* Hmac::hmacSha1 of cpp/Hmac.cpp: RFC 2104 over four buffers that each    *)
(* thread keeps from call to call.  A buffer is only ever resized, so a    *)
(* call finds in it what an earlier call, possibly one that ended in       *)
(* std::bad_alloc half-way, left there.  SHA-1 is an arbitrary function    *)
(* from byte strings to DigestSize bytes.                                  *)
(***************************************************************************)
EXTENDS Integers, Sequences

CONSTANTS
  Threads,
  BlockSize,       \* 64
  DigestSize,      \* 20
  ZeroByte,
  XorPad(_, _),    \* a byte xor 0x36 ("inner") or 0x5c ("outer")
  Sha1(_),
  Keys, Messages   \* the byte strings JavaScript passes

ASSUME SizesAssumption == /\ BlockSize \in Nat \ {0}
                          /\ DigestSize \in 1..BlockSize

VARIABLES
  pc,         \* where each thread is
  keyBytes,   \* the local copy of the key, then the padded key
  dataBytes,  \* the local copy of the message
  innerHash,
  buffers,    \* Hmac::buffers
  asked,      \* the arguments of the call
  answer      \* what it returned

vars == << pc, keyBytes, dataBytes, innerHash, buffers, asked, answer >>

Empty == << >>
NoBuffers == [innerPadded |-> Empty, outerPadded |-> Empty,
              innerData |-> Empty, outerData |-> Empty]
NotAsked == [key |-> Empty, data |-> Empty]
None == [kind |-> "none", bytes |-> Empty]
Failed == [kind |-> "bad_alloc", bytes |-> Empty]

Init ==
  /\ pc = [t \in Threads |-> "idle"]
  /\ keyBytes = [t \in Threads |-> Empty]
  /\ dataBytes = [t \in Threads |-> Empty]
  /\ innerHash = [t \in Threads |-> Empty]
  /\ buffers = [t \in Threads |-> NoBuffers]
  /\ asked = [t \in Threads |-> NotAsked]
  /\ answer = [t \in Threads |-> None]

Goto(t, label) == pc' = [pc EXCEPT ![t] = label]
-----------------------------------------------------------------------------
(* std::vector::resize: what fits stays, what is new is zero.               *)
GrowOnly(v, n) ==   \* mutant: resize that never shrinks
  [j \in 1..(IF n > Len(v) THEN n ELSE Len(v)) |-> IF j <= Len(v) THEN v[j] ELSE ZeroByte]
Resize(v, n) == [j \in 1..n |-> IF j <= Len(v) THEN v[j] ELSE ZeroByte]

(* memcpy of src to v + at.                                                 *)
Copied(v, at, src) ==
  [j \in 1..Len(v) |-> IF j \in (at + 1)..(at + Len(src)) THEN src[j - at] ELSE v[j]]

(* thread_local: the buffers a thread works in are its own.                 *)
SharedBuffers(t) == CHOOSE u \in Threads : TRUE  \* mutant: static, not thread_local
BuffersOf(t) == t

Set(t, field, value) == buffers' = [buffers EXCEPT ![BuffersOf(t)][field] = value]

(* Both arguments are copied.                                               *)
Call(t, k, d) ==
  /\ pc[t] = "idle"
  /\ asked' = [asked EXCEPT ![t] = [key |-> k, data |-> d]]
  /\ keyBytes' = [keyBytes EXCEPT ![t] = k]
  /\ dataBytes' = [dataBytes EXCEPT ![t] = d]
  /\ Goto(t, "key")
  /\ UNCHANGED << innerHash, buffers, answer >>

(* Step 1: a long key is hashed, a short one padded with zeros.             *)
LongKeyCut(k) == Resize(k, BlockSize)   \* mutant: a long key is cut, not hashed
PaddedKey(k) ==
  Resize(IF Len(k) > BlockSize THEN Sha1(k) ELSE k, BlockSize)

PrepareKey(t) ==
  /\ pc[t] = "key"
  /\ keyBytes' = [keyBytes EXCEPT ![t] = PaddedKey(keyBytes[t])]
  /\ Goto(t, "innerPad")
  /\ UNCHANGED << dataBytes, innerHash, buffers, asked, answer >>

(* Step 2: both pads.  Each buffer is resized first, which may fail; the    *)
(* loop then overwrites all of it.                                          *)
Padded(t, pad) == [j \in 1..BlockSize |-> XorPad(pad, keyBytes[t][j])]

ResizeInner(t) ==
  /\ pc[t] = "innerPad"
  /\ Set(t, "innerPadded", Resize(buffers[BuffersOf(t)].innerPadded, BlockSize))
  /\ Goto(t, "outerPad")
  /\ UNCHANGED << keyBytes, dataBytes, innerHash, asked, answer >>

PadBoth(t) ==
  /\ pc[t] = "outerPad"
  /\ buffers' = [buffers EXCEPT ![BuffersOf(t)].innerPadded = Padded(t, "inner"),
                                ![BuffersOf(t)].outerPadded = Padded(t, "outer")]
  /\ Goto(t, "innerData")
  /\ UNCHANGED << keyBytes, dataBytes, innerHash, asked, answer >>

(* Step 3: innerPadded, then the message.                                   *)
FillInner(t) ==
  /\ pc[t] = "innerData"
  /\ LET b == buffers[BuffersOf(t)]
         v == Resize(b.innerData, BlockSize + Len(dataBytes[t]))
     IN  Set(t, "innerData", Copied(Copied(v, 0, b.innerPadded), BlockSize, dataBytes[t]))
  /\ Goto(t, "innerHash")
  /\ UNCHANGED << keyBytes, dataBytes, innerHash, asked, answer >>

HashInner(t) ==
  /\ pc[t] = "innerHash"
  /\ innerHash' = [innerHash EXCEPT ![t] = Sha1(buffers[BuffersOf(t)].innerData)]
  /\ Goto(t, "outerData")
  /\ UNCHANGED << keyBytes, dataBytes, buffers, asked, answer >>

(* Step 4: outerPadded, then the inner hash.                                *)
FillOuter(t) ==
  /\ pc[t] = "outerData"
  /\ LET b == buffers[BuffersOf(t)]
         v == Resize(b.outerData, BlockSize + Len(innerHash[t]))
     IN  Set(t, "outerData", Copied(Copied(v, 0, b.outerPadded), BlockSize, innerHash[t]))
  /\ Goto(t, "outerHash")
  /\ UNCHANGED << keyBytes, dataBytes, innerHash, asked, answer >>

HashOuter(t) ==
  /\ pc[t] = "outerHash"
  /\ answer' = [answer EXCEPT ![t] =
                  [kind |-> "digest", bytes |-> Sha1(buffers[BuffersOf(t)].outerData)]]
  /\ Goto(t, "answered")
  /\ UNCHANGED << keyBytes, dataBytes, innerHash, buffers, asked >>

(* Every step but the return allocates; when that throws, the locals are    *)
(* gone and the buffers stay as the step found them.  Resizing outerPadded  *)
(* comes after innerPadded was resized.                                     *)
BadAlloc(t) ==
  /\ pc[t] \notin {"idle", "answered"}
  /\ answer' = [answer EXCEPT ![t] = Failed]
  /\ Goto(t, "answered")
  /\ UNCHANGED << keyBytes, dataBytes, innerHash, buffers, asked >>

Return(t) ==
  /\ pc[t] = "answered"
  /\ Goto(t, "idle")
  /\ keyBytes' = [keyBytes EXCEPT ![t] = Empty]
  /\ dataBytes' = [dataBytes EXCEPT ![t] = Empty]
  /\ innerHash' = [innerHash EXCEPT ![t] = Empty]
  /\ asked' = [asked EXCEPT ![t] = NotAsked]
  /\ answer' = [answer EXCEPT ![t] = None]
  /\ UNCHANGED buffers

Work(t) ==
  \/ PrepareKey(t) \/ ResizeInner(t) \/ PadBoth(t)
  \/ FillInner(t) \/ HashInner(t) \/ FillOuter(t) \/ HashOuter(t)
  \/ BadAlloc(t)

Next ==
  \E t \in Threads :
    \/ \E k \in Keys, d \in Messages : Call(t, k, d)
    \/ Work(t)
    \/ Return(t)

Spec == Init /\ [][Next]_vars
-----------------------------------------------------------------------------
(* RFC 2104, from its text: H(K xor opad, H(K xor ipad, text)), with K      *)
(* hashed when longer than a block and zero-padded to one.                  *)
Zeros(n) == [j \in 1..n |-> ZeroByte]

ReferenceKey(k) ==
  IF Len(k) > BlockSize THEN Sha1(k) \o Zeros(BlockSize - DigestSize)
  ELSE k \o Zeros(BlockSize - Len(k))

Masked(k, pad) == [j \in 1..BlockSize |-> XorPad(pad, ReferenceKey(k)[j])]

Hmac(k, text) == Sha1(Masked(k, "outer") \o Sha1(Masked(k, "inner") \o text))

(* Byte strings go in, and SHA-1 makes byte strings of its own length.      *)
IsString(s) == Len(s) \in Nat /\ s = [j \in 1..Len(s) |-> s[j]]
ASSUME StringsAssumption ==
  /\ \A s \in Keys \cup Messages : IsString(s)
  /\ \A k \in Keys : IsString(Sha1(k)) /\ Len(Sha1(k)) = DigestSize
  /\ \A k \in Keys, d \in Messages : IsString(Sha1(Masked(k, "inner") \o d))

(* Whatever earlier calls of this thread left in the buffers, whether they  *)
(* succeeded or failed half-way, and whatever the other threads do: a call  *)
(* that returns a digest returns the HMAC of its own arguments.             *)
AnswerIsHmac ==
  \A t \in Threads :
    answer[t].kind = "digest" => answer[t].bytes = Hmac(asked[t].key, asked[t].data)

(* From the step that fills a buffer to the last step of the call, every    *)
(* buffer belongs to this call: both pads are those of the key it was asked *)
(* with, the inner data are the inner pad and its message, the outer data   *)
(* are the outer pad and the hash of the inner data, and neither is longer  *)
(* than that, whatever length an earlier call gave it.                      *)
DataMatchesPads ==
  \A t \in Threads :
    /\ pc[t] \in {"innerData", "innerHash", "outerData", "outerHash"} =>
         /\ buffers[t].innerPadded = Masked(asked[t].key, "inner")
         /\ buffers[t].outerPadded = Masked(asked[t].key, "outer")
    /\ pc[t] \in {"innerHash", "outerData", "outerHash"} =>
         /\ Len(buffers[t].innerData) = BlockSize + Len(asked[t].data)
         /\ buffers[t].innerData = buffers[t].innerPadded \o asked[t].data
    /\ pc[t] = "outerHash" =>
         /\ Len(buffers[t].outerData) = BlockSize + Len(innerHash[t])
         /\ buffers[t].outerData = buffers[t].outerPadded \o Sha1(buffers[t].innerData)
=============================================================================
