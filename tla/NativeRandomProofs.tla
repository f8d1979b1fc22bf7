------------------------- MODULE NativeRandomProofs -------------------------
(***************************************************************************)
(* Why libsodium is never initialised twice at once, for any number of     *)
(* threads and in both builds.                                             *)
(***************************************************************************)
EXTENDS NativeRandom, TLAPS

(* Whoever finds libsodium raw holds random_lock: in the Android build it   *)
(* is never raw once threads run, and in the iOS build only signers ask.    *)
Initialising ==
  /\ build \in {"sodium", "fallback"}
  /\ pc \in [Threads -> {"idle", "device", "fill", "sodium", "answered"}]
  /\ device \in [Threads -> {"null", "unchecked", "checked"}]
  /\ DOMAIN answer = Threads
  /\ process = "loading" =>
       stirring = {} /\ sodium = "raw" /\ \A t \in Threads : pc[t] = "idle"
  /\ process = "running" /\ build = "sodium" => sodium = "ready"
  /\ sodium \in {"raw", "ready"}
  /\ sodium = "ready" => stirring = {}
  /\ \A t \in Threads : pc[t] = "sodium" => sodium = "ready" \/ lock = t
  /\ \A t \in stirring : t \in Threads /\ pc[t] = "sodium"

LEMMA InitInitialising == Init => Initialising
BY BuildsAssumption DEF Init, Initialising

LEMMA NextInitialising == Initialising /\ [Next]_vars => Initialising'
<1> SUFFICES ASSUME Initialising, [Next]_vars PROVE Initialising'
  OBVIOUS
<1> USE DEF Initialising, environment, At, Goto, Answer
<1>1. CASE Load
  BY <1>1 DEF Load, StaticInit
<1>2. ASSUME NEW t \in Threads, NEW d \in Sizes, Random(t, d) \/ RandomBytes(t, d)
      PROVE  Initialising'
  BY <1>2 DEF Random, RandomBytes, Refuse, Generate
<1>3. ASSUME NEW t \in Threads, EnterSigner(t)
      PROVE  Initialising'
  <2>1. \A u \in Threads : pc[u] = "sodium" => sodium = "ready" \/ lock = u
    OBVIOUS
  <2> QED
    BY <1>3, <2>1, ThreadsAssumption DEF EnterSigner, LockIsFree
<1>4. ASSUME NEW t \in Threads, NewDevice(t) \/ OldDevice(t) \/ Fill(t)
      PROVE  Initialising'
  BY <1>4 DEF NewDevice, OldDevice, Fill
<1>5. ASSUME NEW t \in Threads, Stir(t)
      PROVE  Initialising'
  BY <1>5 DEF Stir
<1>6. ASSUME NEW t \in Threads, Stirred(t)
      PROVE  Initialising'
  <2>1. stirring \subseteq {t}
    BY <1>6 DEF Stirred
  <2> QED
    BY <1>6, <2>1 DEF Stirred
<1>7. ASSUME NEW t \in Threads, Serve(t)
      PROVE  Initialising'
  BY <1>7 DEF Serve, Unlock
<1>8. ASSUME NEW t \in Threads, Return(t) \/ ThreadExit(t)
      PROVE  Initialising'
  BY <1>8 DEF Return, ThreadExit
<1>9. CASE UNCHANGED vars
  BY <1>9 DEF vars
<1> QED
  BY <1>1, <1>2, <1>3, <1>4, <1>5, <1>6, <1>7, <1>8, <1>9 DEF Next, Work, Terminated

LEMMA InitialisingHolds == Init /\ [][Next]_vars => []Initialising
<1> QED
  BY InitInitialising, NextInitialising, PTL

(* Two threads are never inside libsodium's initialisation at once.         *)
THEOREM InitialisationIsSerial == Spec => []OneStirrer
<1>1. Initialising => OneStirrer
  BY DEF Initialising, OneStirrer
<1> QED
  BY <1>1, InitialisingHolds, PTL DEF Spec

(* Nobody is served while libsodium is being initialised.                   *)
THEOREM ServiceWaitsForInitialisation == Spec => ServedWhenSettled
<1>1. ASSUME Initialising, [Next]_vars
      PROVE  ServeSettled
  <2> SUFFICES ASSUME NEW t \in Threads,
                      answer'[t] # answer[t], answer'[t].kind = "bytes",
                      answer'[t].origin = "sodium"
               PROVE  stirring = {}
    BY DEF ServeSettled
  <2> USE DEF environment, At, Goto, Answer
  <2>1. sodium = "ready" => stirring = {}
    BY <1>1 DEF Initialising
  <2>2. /\ device \in [Threads -> {"null", "unchecked", "checked"}]
        /\ DOMAIN answer = Threads
    BY <1>1 DEF Initialising
  <2>3. CASE \E u \in Threads : Serve(u)
    BY <2>1, <2>3 DEF Serve
  <2>4. CASE \E u \in Threads, d \in Sizes : Random(u, d) \/ RandomBytes(u, d)
    BY <2>2, <2>4 DEF Random, RandomBytes, Refuse, Generate, Thrown
  <2>5. CASE \E u \in Threads : NewDevice(u) \/ Fill(u) \/ Return(u)
    BY <2>2, <2>5 DEF NewDevice, Fill, Return, Thrown, Bytes, None
  <2>6. CASE answer' = answer
    BY <2>6
  <2>7. CASE Load \/ Terminated \/ UNCHANGED vars
    BY <2>6, <2>7 DEF Load, Terminated, vars
  <2>8. CASE \E u \in Threads :
               EnterSigner(u) \/ OldDevice(u) \/ Stir(u) \/ Stirred(u) \/ ThreadExit(u)
    BY <2>6, <2>8 DEF EnterSigner, OldDevice, Stir, Stirred, ThreadExit
  <2> QED
    BY <1>1, <2>3, <2>4, <2>5, <2>7, <2>8 DEF Next, Work
<1> QED
  BY <1>1, InitialisingHolds, PTL DEF Spec, ServedWhenSettled

(* Types.  The conversion of a double, undefined or not, gives an int, and  *)
(* only one that is not negative becomes a size.                            *)
LEMMA ConversionGivesInts == \A d \in Sizes : ToInt(d) \subseteq Int
BY SizesAssumption DEF ToInt

LEMMA InitTypes == Init => TypeOK
BY DEF Init, TypeOK

LEMMA NextTypes == Initialising /\ TypeOK /\ [Next]_vars => TypeOK'
<1> SUFFICES ASSUME Initialising, TypeOK, [Next]_vars PROVE TypeOK'
  OBVIOUS
<1> USE DEF TypeOK, environment, At, Goto, Answer
<1>1. CASE Load
  BY <1>1 DEF Load, StaticInit
<1>2. ASSUME NEW t \in Threads, NEW n \in Nat, Generate(t, n) \/ Refuse(t),
             UNCHANGED << environment, sodium, stirring, lock, device >>
      PROVE  TypeOK'
  BY <1>2 DEF Generate, Refuse
<1>3. ASSUME NEW t \in Threads, NEW d \in Sizes, Random(t, d)
      PROVE  TypeOK'
  <2>1. PICK bits \in ToInt(d) : IF Refused(bits) THEN Refuse(t) ELSE Generate(t, bits \div 8)
    BY <1>3 DEF Random
  <2>2. bits \in Int
    BY ConversionGivesInts
  <2>3. ~Refused(bits) => bits \div 8 \in Nat
    BY <2>2 DEF Refused
  <2>4. UNCHANGED << environment, sodium, stirring, lock, device >>
    BY <1>3 DEF Random
  <2>5. Refuse(t) => TypeOK'
    BY <2>4 DEF Refuse
  <2> QED
    BY <2>1, <2>3, <2>4, <2>5, <1>2
<1>4. ASSUME NEW t \in Threads, NEW d \in Sizes, RandomBytes(t, d)
      PROVE  TypeOK'
  <2>1. PICK bytes \in ToInt(d) : IF bytes <= 0 THEN Refuse(t) ELSE Generate(t, bytes)
    BY <1>4 DEF RandomBytes
  <2>2. bytes \in Int
    BY ConversionGivesInts
  <2>3. ~(bytes <= 0) => bytes \in Nat
    BY <2>2
  <2>4. UNCHANGED << environment, sodium, stirring, lock, device >>
    BY <1>4 DEF RandomBytes
  <2>5. Refuse(t) => TypeOK'
    BY <2>4 DEF Refuse
  <2> QED
    BY <2>1, <2>3, <2>4, <2>5, <1>2
<1>5. ASSUME NEW t \in Threads, EnterSigner(t)
      PROVE  TypeOK'
  BY <1>5 DEF EnterSigner
<1>6. ASSUME NEW t \in Threads, NewDevice(t) \/ OldDevice(t) \/ Fill(t)
      PROVE  TypeOK'
  BY <1>6 DEF NewDevice, OldDevice, Fill
<1>7. ASSUME NEW t \in Threads, Stir(t) \/ Stirred(t) \/ Serve(t)
      PROVE  TypeOK'
  BY <1>7 DEF Stir, Stirred, Serve, Unlock
<1>8. ASSUME NEW t \in Threads, Return(t) \/ ThreadExit(t)
      PROVE  TypeOK'
  BY <1>8 DEF Return, ThreadExit
<1>9. CASE Terminated \/ UNCHANGED vars
  BY <1>9 DEF vars, Terminated
<1> QED
  BY <1>1, <1>3, <1>4, <1>5, <1>6, <1>7, <1>8, <1>9 DEF Next, Work

(* No generator is ever asked for a negative number of bytes, whatever      *)
(* double a caller passes and whatever the conversion makes of it.          *)
THEOREM TypeCorrect == Spec => []TypeOK
<1> QED
  BY InitInitialising, NextInitialising, InitTypes, NextTypes, PTL DEF Spec
=============================================================================
