--------------------------- MODULE SigningService ---------------------------
(***************************************************************************)
(* What JavaScript is promised by Cryptonote.generateRingSignature, with   *)
(* the lock, the loop and the random numbers hidden: a call is answered in *)
(* one indivisible step, by an error or by signatures, or else the whole   *)
(* process dies.  RingSignature implements this specification.             *)
(***************************************************************************)
EXTENDS RingAlgebra

CONSTANTS Threads, Requests

VARIABLES
  state,    \* [Threads -> {"idle", "pending", "answered"}]
  request,  \* the request of a thread that is not idle
  reply,    \* what the call returned
  alive     \* the process runs

vars == << state, request, reply, alive >>

NoRequest == [count |-> 0]
NoReply == [outcome |-> "none", sig |-> << >>]

(* The indices a signer may be told to use: the conversion of a double to  *)
(* size_t truncates towards zero, and an undefined conversion picks 0 on   *)
(* some processors and a huge number on others.                            *)
MeantIndex(r) == IF r.secretIndex > -2
                 THEN {IF r.secretIndex < 0 THEN 0 ELSE r.secretIndex \div 2}
                 ELSE {0, r.count}

MayAccept(r) == WellFormed(r) /\ \E s \in MeantIndex(r) : s < r.count
MayThrow(r) == ~WellFormed(r) \/ \E s \in MeantIndex(r) : s >= r.count

(* Only these requests may bring the process down.                         *)
Fatal(r) ==
  /\ MayAccept(r)
  /\ \/ r.count > MaxStackRing
     \/ r.keyImage \notin CurveEncodings
     \/ \E j \in Slots(r) : r.publicKeys[j] \notin CurveEncodings

Init ==
  /\ state = [t \in Threads |-> "idle"]
  /\ request = [t \in Threads |-> NoRequest]
  /\ reply = [t \in Threads |-> NoReply]
  /\ alive = TRUE

Submit(t) ==
  /\ alive /\ state[t] = "idle"
  /\ \E r \in Requests : request' = [request EXCEPT ![t] = r]
  /\ state' = [state EXCEPT ![t] = "pending"]
  /\ UNCHANGED << reply, alive >>

(* An error is thrown only at a request with a visible defect.             *)
Throw(t) ==
  /\ alive /\ state[t] = "pending"
  /\ MayThrow(request[t])
  /\ reply' = [reply EXCEPT ![t] = [outcome |-> "threw", sig |-> << >>]]
  /\ state' = [state EXCEPT ![t] = "answered"]
  /\ UNCHANGED << request, alive >>

(* The answer to an honest request is a ring signature the network accepts; *)
(* any other request is answered with one signature per ring member too,    *)
(* but without that promise.                                                *)
Sign(t) ==
  /\ alive /\ state[t] = "pending"
  /\ MayAccept(request[t])
  /\ state' = [state EXCEPT ![t] = "answered"]
  /\ \E sig \in [Slots(request[t]) -> Signature] :
       /\ reply' = [reply EXCEPT ![t] = [outcome |-> "signed", sig |-> sig]]
       /\ Honest(request[t]) => CheckRingSignature(request[t], sig)
  /\ UNCHANGED << request, alive >>

Collect(t) ==
  /\ alive /\ state[t] = "answered"
  /\ state' = [state EXCEPT ![t] = "idle"]
  /\ request' = [request EXCEPT ![t] = NoRequest]
  /\ reply' = [reply EXCEPT ![t] = NoReply]
  /\ UNCHANGED alive

Die ==
  /\ alive
  /\ \E t \in Threads : state[t] = "pending" /\ Fatal(request[t])
  /\ alive' = FALSE
  /\ UNCHANGED << state, request, reply >>

Next ==
  \/ \E t \in Threads : Submit(t) \/ Throw(t) \/ Sign(t) \/ Collect(t)
  \/ Die

Spec == Init /\ [][Next]_vars
=============================================================================
