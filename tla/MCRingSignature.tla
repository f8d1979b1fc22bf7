--------------------------- MODULE MCRingSignature ---------------------------
(***************************************************************************)
(* A toy curve for TLC: scalars modulo 3, points modulo 6 (a subgroup of   *)
(* prime order 3 and a torsion point of order 2), generator 2.  Encoding 6 *)
(* is a string that is no curve point.                                     *)
(***************************************************************************)
EXTENDS RingSignature, FiniteSets, Functions

MCScalars == 0..2
MCAdd(a, b) == (a + b) % 3
MCSub(a, b) == (a - b) % 3
MCMul(a, b) == (a * b) % 3
MCPoints == 0..5
MCPrimeOrder == {0, 2, 4}
MCPlus(P, Q) == (P + Q) % 6
MCTimes(a, P) == (a * P) % 6
NotAPoint == 6
MCEncodings == MCPoints \cup {NotAPoint}
MCDecode(e) == e
MCHashToEc(e) == IF e % 4 = 0 THEN 2 ELSE 4

(* A digest every commitment and every position counts in.                 *)
MCHashToScalar(p, pairs) ==
  FoldFunctionOnSet(+, p,
    [j \in DOMAIN pairs |-> (j + 1) * pairs[j][1] + pairs[j][1] * pairs[j][2] + 2 * pairs[j][2]],
    DOMAIN pairs) % 3

Req(keys, image, secret, index) ==
  [prefixHash |-> 1, keyImage |-> image, count |-> Cardinality(DOMAIN keys),
   publicKeys |-> keys, secretKey |-> secret, secretIndex |-> index]

(* Requests both threads make, whatever the other does: honest ones and one *)
(* of every kind of bad one.                                                *)
Pair(a, b) == [j \in 0..1 |-> IF j = 0 THEN a ELSE b]

BadRequests ==
  { Req(<< >>, 4, 1, 0),                         \* no keys
    Req(Pair(2, Malformed), 4, 1, 0),            \* not hex
    Req(Pair(2, 4), Malformed, 1, 0),
    Req(Pair(2, 4), 4, 1, 4),                    \* index out of range
    Req(Pair(2, 4), 4, 1, -4),                   \* negative index
    Req(Pair(2, 4), 4, 2, 3),                    \* another's key, index 1.5
    Req(Pair(2, 4), NotAPoint, 1, 0),            \* image is no point
    Req(Pair(2, NotAPoint), 4, 1, 0),            \* decoy is no point
    Req(Pair(NotAPoint, 4), 4, 1, 0),            \* own key is no point
    Req([j \in 0..3 |-> 2], 4, 1, 0) }           \* too big for the stack

HonestRequests ==
  { Req(Pair(2, 4), 4, 1, 0), Req(Pair(3, 4), 4, 2, 2) }

SharedRequests == HonestRequests \cup BadRequests

(* Requests one thread makes while the other is idle, and has answered      *)
(* before that one calls: every ring of up to three keys of prime order or  *)
(* with torsion, of either owner, at every index; in rings of one and two   *)
(* also a key that is no point, and an image that is not the owner's.       *)
RingsOf(n, keys) == [0..(n - 1) -> keys]

LoneRequestsOf(rings, images) ==
  {Req(ring, image, secret, index) :
     ring \in rings, image \in images, secret \in {1, 2}, index \in {0, 2, 4}}

LoneRequests ==
  (LoneRequestsOf(RingsOf(1, {2, 4, 3, NotAPoint}) \cup RingsOf(2, {2, 4, 3, NotAPoint}),
                  {2, 4})
     \cup LoneRequestsOf(RingsOf(3, {2, 4, 3}), {4}))
  \ SharedRequests

MCRequests == SharedRequests \cup LoneRequests

LoneThread == CHOOSE t \in Threads : TRUE    \* they are interchangeable

MCCall(t, r) ==
  /\ r \notin SharedRequests => t = LoneThread
  /\ \A u \in Threads \ {t} :
       pc[u] # "idle" => r \in SharedRequests /\ call[u] \in SharedRequests
  /\ Call(t, r)

MCNext ==
  \/ \E t \in Threads : (\E r \in Requests : MCCall(t, r)) \/ Work(t) \/ Return(t)
  \/ Dead

(* What a thread does by itself is as fair as in FairSpec: only the calls   *)
(* are restricted, and they are not fair.                                   *)
MCSpec == Init /\ [][MCNext]_vars /\ \A t \in Threads : WF_vars(Work(t))

(* What the witnesses of the violations need.                               *)
ImageNotAPoint == { Req(Pair(2, 4), NotAPoint, 1, 0) }
NegativeIndex == { Req(Pair(2, 4), 4, 1, -4) }
=============================================================================
