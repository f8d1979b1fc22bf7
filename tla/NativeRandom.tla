---------------------------- MODULE NativeRandom ----------------------------
(***************************************************************************)
(* Where the random numbers come from: mn_random.cpp behind                *)
(* HybridConcealCrypto::random and randomBytes, and random_scalar under    *)
(* random_lock in Cryptonote/crypto.cpp.  The same sources make two        *)
(* builds.  Android defines HAVE_SODIUM_H: libsodium is initialised while  *)
(* the library is loaded and serves everyone.  iOS does not: random falls  *)
(* back to one std::random_device per thread, and libsodium, which serves  *)
(* the signer alone, initialises itself the first time it is asked.        *)
(* libsodium and std::random_device are external.                          *)
(***************************************************************************)
EXTENDS Integers, FiniteSets

CONSTANTS
  Threads,     \* threads that run JavaScript
  NoThread,    \* random_lock is free
  Builds,      \* the builds considered, of {"sodium", "fallback"}
  Entropies,   \* whether random_device::entropy() is positive, of BOOLEAN
  Sizes,       \* arguments of random and randomBytes: doubles, in halves
  NaN,         \* a double no int can hold
  IntMin       \* the int an undefined conversion makes on x86

ASSUME ThreadsAssumption == NoThread \notin Threads
ASSUME BuildsAssumption == Builds \subseteq {"sodium", "fallback"} /\ Entropies \subseteq BOOLEAN
ASSUME SizesAssumption == /\ Sizes \subseteq Int \cup {NaN} /\ NaN \notin Int
                          /\ IntMin \in Int /\ IntMin < 0 /\ IntMin % 32 = 0

VARIABLES
  build,     \* which build this is
  entropic,  \* the platform's random_device reports entropy
  process,   \* "loading", "running", "terminated"
  sodium,    \* "raw" until libsodium is initialised, then "ready"
  stirring,  \* the threads inside libsodium's initialisation
  lock,      \* the owner of random_lock
  pc,        \* where each thread is
  size,      \* the int a call works with
  device,    \* g_random_device of the thread: "null", "unchecked", "checked"
  answer     \* what the last call returned

vars == << build, entropic, process, sodium, stirring, lock, pc, size, device, answer >>

None == [kind |-> "none"]
Thrown == [kind |-> "thrown"]
Bytes(n, origin) == [kind |-> "bytes", length |-> n, origin |-> origin]

Init ==
  /\ build \in Builds
  /\ entropic \in Entropies
  /\ process = "loading"
  /\ sodium = "raw"
  /\ stirring = {}
  /\ lock = NoThread
  /\ pc = [t \in Threads |-> "idle"]
  /\ size = [t \in Threads |-> 0]
  /\ device = [t \in Threads |-> "null"]
  /\ answer = [t \in Threads |-> None]

At(t, label) == process = "running" /\ pc[t] = label
Goto(t, label) == pc' = [pc EXCEPT ![t] = label]
Answer(t, a) == answer' = [answer EXCEPT ![t] = a] /\ Goto(t, "answered")
environment == << build, entropic, process >>
-----------------------------------------------------------------------------
(* dlopen runs the constructor of sodium_initializer before any thread can  *)
(* call in; if sodium_init fails, its exception leaves a static initialiser *)
(* and the process is terminated.                                           *)
StaticInitLazy == sodium' = sodium /\ process' = "running"  \* mutant: no initialiser

StaticInit ==
  IF build = "sodium"
  THEN \/ sodium' = "ready" /\ process' = "running"
       \/ sodium' = "raw" /\ process' = "terminated"
  ELSE sodium' = sodium /\ process' = "running"

Load ==
  /\ process = "loading"
  /\ StaticInit
  /\ UNCHANGED << build, entropic, stirring, lock, pc, size, device, answer >>
-----------------------------------------------------------------------------
(* double to int: truncation towards zero; undefined where no int is near,  *)
(* and then 0 on ARM and INT_MIN on x86.                                    *)
ToInt(d) ==
  IF d = NaN THEN {0, IntMin}
  ELSE {IF d >= 0 THEN d \div 2 ELSE -((-d) \div 2)}

(* mn_random wants a multiple of 32 bits; a negative multiple passes that   *)
(* test and fails as the buffer is made (std::length_error).                *)
RefusedRemainder(bits) == bits % 32 # 0   \* mutant: no length_error either
Refused(bits) == bits % 32 # 0 \/ bits < 0

Generate(t, n) ==
  /\ size' = [size EXCEPT ![t] = n]
  /\ Goto(t, IF build = "sodium" THEN "sodium" ELSE "device")
  /\ UNCHANGED answer

Refuse(t) == Answer(t, Thrown) /\ UNCHANGED size

Random(t, d) ==
  /\ At(t, "idle")
  /\ \E bits \in ToInt(d) :
       IF Refused(bits) THEN Refuse(t) ELSE Generate(t, bits \div 8)
  /\ UNCHANGED << environment, sodium, stirring, lock, device >>

(* mn_random_bytes.                                                         *)
RandomBytes(t, d) ==
  /\ At(t, "idle")
  /\ \E bytes \in ToInt(d) :
       IF bytes <= 0 THEN Refuse(t) ELSE Generate(t, bytes)
  /\ UNCHANGED << environment, sodium, stirring, lock, device >>

(* The fallback, get_random_device: the pointer is set before entropy() is  *)
(* asked, and asked only when the pointer was null.                         *)
NewDevice(t) ==
  /\ At(t, "device")
  /\ device[t] = "null"
  /\ IF entropic
     THEN /\ device' = [device EXCEPT ![t] = "checked"]
          /\ Goto(t, "fill")
          /\ UNCHANGED answer
     ELSE /\ device' = [device EXCEPT ![t] = "unchecked"]
          /\ Answer(t, Thrown)
  /\ UNCHANGED << environment, sodium, stirring, lock, size >>

OldDevice(t) ==
  /\ At(t, "device")
  /\ device[t] # "null"
  /\ Goto(t, "fill")
  /\ UNCHANGED << environment, sodium, stirring, lock, size, device, answer >>

Fill(t) ==
  /\ At(t, "fill")
  /\ Answer(t, Bytes(size[t], device[t]))
  /\ UNCHANGED << environment, sodium, stirring, lock, size, device >>
-----------------------------------------------------------------------------
(* The signer asks under random_lock (crypto.cpp:561), two or more times;   *)
(* only its first request can find libsodium raw, so one stands for all.    *)
Unguarded == TRUE     \* mutant: no lock_guard in the signer
LockIsFree == lock = NoThread

EnterSigner(t) ==
  /\ At(t, "idle")
  /\ LockIsFree
  /\ lock' = t
  /\ Goto(t, "sodium")
  /\ size' = [size EXCEPT ![t] = 64]
  /\ UNCHANGED << environment, sodium, stirring, device, answer >>

(* randombytes_buf, initialising libsodium if nobody has: choosing the      *)
(* implementation and stirring it are plain writes to globals.              *)
Stir(t) ==
  /\ At(t, "sodium")
  /\ sodium = "raw"
  /\ t \notin stirring
  /\ stirring' = stirring \cup {t}
  /\ UNCHANGED << environment, sodium, lock, pc, size, device, answer >>

Stirred(t) ==
  /\ At(t, "sodium")
  /\ t \in stirring
  /\ stirring' = stirring \ {t}
  /\ sodium' = "ready"
  /\ UNCHANGED << environment, lock, pc, size, device, answer >>

(* The bytes are there; a signer leaves and gives the lock back.            *)
NoUnlock(t) == UNCHANGED lock  \* mutant: an exit that keeps the lock
Unlock(t) == lock' = IF lock = t THEN NoThread ELSE lock

Serve(t) ==
  /\ At(t, "sodium")
  /\ sodium = "ready"
  /\ t \notin stirring
  /\ Answer(t, Bytes(size[t], "sodium"))
  /\ Unlock(t)
  /\ UNCHANGED << environment, sodium, stirring, size, device >>
-----------------------------------------------------------------------------
Return(t) ==
  /\ At(t, "answered")
  /\ Goto(t, "idle")
  /\ size' = [size EXCEPT ![t] = 0]
  /\ answer' = [answer EXCEPT ![t] = None]
  /\ UNCHANGED << environment, sodium, stirring, lock, device >>

(* A thread ends and another takes its name: the pointer is gone, the       *)
(* device it pointed to is not (nothing deletes it).                        *)
ThreadExit(t) ==
  /\ At(t, "idle")
  /\ device[t] # "null"
  /\ device' = [device EXCEPT ![t] = "null"]
  /\ UNCHANGED << environment, sodium, stirring, lock, pc, size, answer >>

Terminated == process = "terminated" /\ UNCHANGED vars

Work(t) ==
  \/ NewDevice(t) \/ OldDevice(t) \/ Fill(t)
  \/ Stir(t) \/ Stirred(t) \/ Serve(t)

Next ==
  \/ Load \/ Terminated
  \/ \E t \in Threads :
       \/ \E d \in Sizes : Random(t, d) \/ RandomBytes(t, d)
       \/ EnterSigner(t)
       \/ Work(t)
       \/ Return(t) \/ ThreadExit(t)

(* A thread inside a call is scheduled eventually.                          *)
Spec == Init /\ [][Next]_vars /\ \A t \in Threads : WF_vars(Work(t))
-----------------------------------------------------------------------------
(* Every variable holds what the code may put there; in particular the size *)
(* a generator works with is never negative.                                *)
TypeOK ==
  /\ process \in {"loading", "running", "terminated"}
  /\ sodium \in {"raw", "ready"}
  /\ stirring \subseteq Threads
  /\ lock \in Threads \cup {NoThread}
  /\ pc \in [Threads -> {"idle", "device", "fill", "sodium", "answered"}]
  /\ size \in [Threads -> Nat]
  /\ device \in [Threads -> {"null", "unchecked", "checked"}]

(* Two threads are never inside libsodium's initialisation at once, which   *)
(* is not thread-safe: in the Android build it is over before any thread    *)
(* comes; in the iOS build every thread that can reach it holds random_lock. *)
OneStirrer == \A t, u \in stirring : t = u

(* No thread is served by libsodium while another is still initialising it. *)
ServeSettled ==
  \A t \in Threads :
    answer'[t] # answer[t] /\ answer'[t].kind = "bytes" /\ answer'[t].origin = "sodium"
      => stirring \ {t} = {}

ServedWhenSettled == [][ServeSettled]_vars

(* A lock taken for drawing is given back.                                  *)
LockReleased == \A t \in Threads : lock = t ~> lock = NoThread

(* mn_random.h:23 and :32, "@throws std::runtime_error if random generation *)
(* fails", and mn_random.cpp:46, "Verify the random device has entropy": no *)
(* bytes come from a device found to have none.                             *)
NoUncheckedBytes ==
  \A t \in Threads : answer[t].kind = "bytes" => answer[t].origin # "unchecked"
=============================================================================
