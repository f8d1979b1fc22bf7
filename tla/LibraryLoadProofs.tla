------------------------- MODULE LibraryLoadProofs -------------------------
(***************************************************************************)
(* Proofs about LibraryLoad, for any set of threads and any bound.         *)
(***************************************************************************)
EXTENDS LibraryLoad, TLAPS

(* Every step of a script is a Patch of the tree, every step of a thread a *)
(* Thread step: the two lemmas' hypotheses say what they leave alone.      *)
SourceStep == UNCHANGED << app, process, pc >> /\ ~app.built

(* The source files, and where fix-visibility is.                          *)
TreeInvariant ==
  /\ tree \in Trees
  /\ script \in {"none", "OnLoad.cpp", "Spec.kt"}
  /\ OneEntryPoint

(* The scripts keep the tree's invariant, whatever their order and wherever*)
(* they are interrupted.                                                   *)
LEMMA TreeInitial == Init => TreeInvariant
<1> SUFFICES ASSUME Init PROVE TreeInvariant
  OBVIOUS
<1>1. tree \in Trees
  <2>1. {0, 1} \subseteq Nat
    OBVIOUS
  <2> QED
    BY <2>1, Zenon DEF Init, Trees
<1>2. tree.onLoad <= 1
  BY DEF Init
<1> QED
  BY <1>1, <1>2 DEF Init, TreeInvariant, OneEntryPoint

LEMMA TreeStep == TreeInvariant /\ [Next]_vars => TreeInvariant'
<1> SUFFICES ASSUME TreeInvariant, [Next]_vars PROVE TreeInvariant'
  OBVIOUS
<1> USE DEF TreeInvariant, OneEntryPoint
<1>1. CASE Nitrogen
  <2>1. PICK kt \in Kotlin, spec \in Kotlin, cpp \in OnLoadCpp, autolinking \in Autolinking :
          /\ tree' = [tree EXCEPT !.kt = kt, !.spec = spec, !.cpp = cpp, !.onLoad = 0,
                                  !.autolinking = autolinking]
          /\ script' = "none"
    BY <1>1 DEF Nitrogen, Patch
  <2>2. tree' \in Trees
    BY <2>1 DEF Trees
  <2> QED
    BY <2>1, <2>2 DEF Trees
<1>2. CASE FixVisibility
  <2>1. CASE script = "none" /\ tree' = [tree EXCEPT !.kt = Public(@)] /\ script' = "OnLoad.cpp"
    <3>1. tree' \in Trees
      BY <2>1 DEF Trees, Kotlin, Visibility, Public
    <3>2. tree'.kt # "internal" /\ tree'.onLoad = tree.onLoad
      BY <2>1 DEF Trees, Kotlin, Visibility, Public
    <3> QED
      BY <2>1, <3>1, <3>2
  <2>2. CASE /\ script = "OnLoad.cpp" /\ script' = "Spec.kt"
             /\ tree' = [tree EXCEPT !.onLoad = WithOnLoad(tree)]
    <3>1. WithOnLoad(tree) \in Nat /\ WithOnLoad(tree) <= 1
      BY DEF Trees, WithOnLoad
    <3>2. tree.cpp = "marked" => WithOnLoad(tree) = 1
      BY DEF Trees, WithOnLoad
    <3>3. tree' \in Trees /\ tree'.onLoad = WithOnLoad(tree)
      BY <2>2, <3>1 DEF Trees
    <3>4. tree'.cpp = tree.cpp /\ tree'.kt = tree.kt
      BY <2>2 DEF Trees
    <3> QED
      BY <2>2, <3>1, <3>2, <3>3, <3>4
  <2>3. CASE script = "Spec.kt" /\ tree' = [tree EXCEPT !.spec = Public(@)] /\ script' = "none"
    <3>1. tree' \in Trees
      BY <2>3 DEF Trees, Kotlin, Visibility, Public
    <3> QED
      BY <2>3, <3>1 DEF Trees
  <2> QED
    BY <1>2, <2>1, <2>2, <2>3 DEF FixVisibility, Patch
<1>3. CASE Interrupt
  BY <1>3 DEF Interrupt, Patch
<1>4. CASE FixCMakeLinking
  <2>1. /\ tree' = [tree EXCEPT !.autolinking = IF @ = "absent" THEN @ ELSE "linked"]
        /\ script' = "none"
    BY <1>4 DEF FixCMakeLinking, Patch
  <2> QED
    BY <2>1 DEF Trees, Autolinking
<1>5. CASE FixPrefabBug
  <2>1. CASE PrefabFixApplies(tree)
    <3>1. /\ tree' = [tree EXCEPT !.targets = @ + 1,
                                  !.link = IF @ = "NitroModules" THEN "nitro_modules" ELSE @]
          /\ script' = "none"
      BY <1>5, <2>1 DEF FixPrefabBug, Patch
    <3>2. tree' \in Trees
      <4>1. tree.targets + 1 \in Nat
        BY DEF Trees
      <4>2. (IF tree.link = "NitroModules" THEN "nitro_modules" ELSE tree.link) \in Links
        BY DEF Trees, Links
      <4> QED
        BY <3>1, <4>1, <4>2, Zenon DEF Trees
    <3>3. tree'.onLoad = tree.onLoad
      BY <3>1 DEF Trees
    <3> QED
      BY <3>1, <3>2, <3>3
  <2>2. CASE ~PrefabFixApplies(tree)
    BY <1>5, <2>2 DEF FixPrefabBug, Patch
  <2> QED
    BY <2>1, <2>2
<1>6. CASE Build \/ Restart \/ UNCHANGED vars
  BY <1>6 DEF Build, Restart, vars
<1>7. ASSUME NEW t \in Threads,
             Call(t) \/ LoadLibrary(t) \/ JNI_OnLoad(t) \/ Fail(t) \/ SetDidLoad(t)
      PROVE  TreeInvariant'
  BY <1>7 DEF Call, LoadLibrary, JNI_OnLoad, Fail, SetDidLoad, Thread
<1> QED
  BY <1>1, <1>2, <1>3, <1>4, <1>5, <1>6, <1>7 DEF Next

(* fix-visibility.js never leaves two JNI_OnLoad, and leaves exactly one in *)
(* a file it finds with the end of its namespace marked; the class it finds *)
(* is public from then on.                                                  *)
THEOREM EntryPointIsUnique == Spec => []OneEntryPoint
<1>1. TreeInvariant => OneEntryPoint
  BY DEF TreeInvariant
<1> QED
  BY <1>1, TreeInitial, TreeStep, PTL DEF Spec
-----------------------------------------------------------------------------
(* A process.  What the library registers depends on whether it is loaded; *)
(* one thread is inside JNI_OnLoad, and the flag is set by threads that    *)
(* saw the library loaded.                                                 *)
ProcessInvariant ==
  /\ TypeOK
  /\ process.registrations = IF process.loaded THEN app.onLoad ELSE 0
  /\ \A t \in Threads : pc[t] = "JNI_OnLoad" => process.loader = t
  /\ process.loader # Nobody => ~process.loaded
  /\ \A t \in Threads : pc[t] \in {"loaded", "returned"} => process.loaded
  /\ process.setBy # {} => process.loaded
  /\ ~app.built => ~process.loaded /\ \A t \in Threads : pc[t] = "out"

LEMMA ProcessInitial == Init => ProcessInvariant
<1> SUFFICES ASSUME Init PROVE ProcessInvariant
  OBVIOUS
<1>1. TypeOK
  <2>1. tree \in Trees /\ script \in {"none", "OnLoad.cpp", "Spec.kt"}
    BY TreeInitial DEF TreeInvariant
  <2>2. app \in [onLoad : {0, 1}, built : BOOLEAN]
    BY DEF Init, NotBuilt
  <2>3. process \in [loaded : BOOLEAN, registrations : Nat, setBy : SUBSET Threads,
                     loader : Threads \cup {Nobody}, failures : Nat]
    BY DEF Init, Started
  <2>4. pc \in [Threads -> Places]
    BY DEF Init, Places
  <2> QED
    BY <2>1, <2>2, <2>3, <2>4 DEF TypeOK
<1>2. /\ process.registrations = 0 /\ process.loader = Nobody /\ process.setBy = {}
      /\ ~process.loaded
      /\ \A t \in Threads : pc[t] = "out"
  BY DEF Init, Started
<1> QED
  BY <1>1, <1>2 DEF ProcessInvariant

(* Steps of the developer leave the process alone.                         *)
LEMMA SourceStepKeepsProcess ==
  ProcessInvariant /\ TreeInvariant' /\ SourceStep => ProcessInvariant'
  BY DEF ProcessInvariant, TypeOK, TreeInvariant, SourceStep

LEMMA ProcessStep ==
  ProcessInvariant /\ TreeInvariant /\ TreeInvariant' /\ [Next]_vars => ProcessInvariant'
<1> SUFFICES ASSUME ProcessInvariant, TreeInvariant, TreeInvariant', [Next]_vars
             PROVE  ProcessInvariant'
  OBVIOUS
<1>1. CASE Nitrogen \/ FixVisibility \/ FixCMakeLinking \/ FixPrefabBug
  <2>1. SourceStep
    BY <1>1 DEF Nitrogen, FixVisibility, FixCMakeLinking, FixPrefabBug, Patch, Developing,
                SourceStep
  <2> QED
    BY <2>1, SourceStepKeepsProcess
<1>2. CASE Interrupt
  BY <1>2 DEF Interrupt, Patch, ProcessInvariant, TypeOK, TreeInvariant
<1>3. CASE Build
  <2>1. tree.onLoad \in {0, 1}
    BY DEF TreeInvariant, OneEntryPoint, Trees
  <2>2. /\ app' = [onLoad |-> tree.onLoad, built |-> TRUE] /\ ~app.built
        /\ UNCHANGED << tree, script, process, pc >>
    BY <1>3 DEF Build, Developing
  <2> QED
    BY <2>1, <2>2 DEF ProcessInvariant, TypeOK
<1>4. CASE Restart
  BY <1>4, ThreadsAssumption DEF Restart, ProcessInvariant, TypeOK, Started, Places
<1>5. ASSUME NEW t \in Threads, Call(t) PROVE ProcessInvariant'
  BY <1>5 DEF Call, Thread, Goto, ProcessInvariant, TypeOK, Places
<1>6. ASSUME NEW t \in Threads, LoadLibrary(t) PROVE ProcessInvariant'
  BY <1>6, ThreadsAssumption DEF LoadLibrary, Thread, Goto, ProcessInvariant, TypeOK, Places
<1>7. ASSUME NEW t \in Threads, JNI_OnLoad(t) PROVE ProcessInvariant'
  <2>1. /\ pc[t] = "JNI_OnLoad" /\ pc' = [pc EXCEPT ![t] = "loaded"]
        /\ process' = [process EXCEPT !.registrations = @ + app.onLoad, !.loaded = TRUE,
                                      !.loader = Nobody]
        /\ UNCHANGED << tree, script, app >>
    BY <1>7 DEF JNI_OnLoad, Thread, Goto
  <2>2. process.loader = t /\ ~process.loaded /\ process.registrations = 0
    BY <2>1, ThreadsAssumption DEF ProcessInvariant
  <2>3. /\ process'.registrations = app'.onLoad /\ process'.loaded
        /\ process'.loader = Nobody /\ process'.setBy = process.setBy
    BY <2>1, <2>2 DEF ProcessInvariant, TypeOK
  <2>4. TypeOK'
    <3>1. pc' \in [Threads -> Places]
      BY <2>1 DEF ProcessInvariant, TypeOK, Places
    <3>2. process.registrations + app.onLoad \in Nat
      BY <2>2 DEF ProcessInvariant, TypeOK
    <3>3. process' \in [loaded : BOOLEAN, registrations : Nat, setBy : SUBSET Threads,
                        loader : Threads \cup {Nobody}, failures : Nat]
      BY <2>1, <3>2, Zenon DEF ProcessInvariant, TypeOK
    <3> QED
      BY <2>1, <3>1, <3>3 DEF ProcessInvariant, TypeOK
  <2>5. \A u \in Threads : pc'[u] # "JNI_OnLoad"
    BY <2>1, <2>2 DEF ProcessInvariant, TypeOK
  <2>6. app'.built
    BY <2>1 DEF ProcessInvariant
  <2> QED
    BY <2>3, <2>4, <2>5, <2>6 DEF ProcessInvariant
<1>8. ASSUME NEW t \in Threads, Fail(t) PROVE ProcessInvariant'
  BY <1>8 DEF Fail, Thread, Goto, ProcessInvariant, TypeOK, Places
<1>9. ASSUME NEW t \in Threads, SetDidLoad(t) PROVE ProcessInvariant'
  BY <1>9 DEF SetDidLoad, Thread, Goto, ProcessInvariant, TypeOK, Places
<1>10. CASE UNCHANGED vars
  BY <1>10 DEF vars, ProcessInvariant, TypeOK
<1> QED
  BY <1>1, <1>2, <1>3, <1>4, <1>5, <1>6, <1>7, <1>8, <1>9, <1>10 DEF Next

(* A thread that returns from initializeNative finds the object registered,*)
(* once, for any number of threads, failures and restarts.                 *)
THEOREM ReturnMeansRegistration == Spec => []ReturnedMeansRegistered
<1>1. ProcessInvariant => ReturnedMeansRegistered
  BY DEF ProcessInvariant, ReturnedMeansRegistered, TypeOK
<1>2. Init => TreeInvariant /\ ProcessInvariant
  BY TreeInitial, ProcessInitial
<1>3. TreeInvariant /\ ProcessInvariant /\ [Next]_vars
        => (TreeInvariant /\ ProcessInvariant)'
  BY TreeStep, ProcessStep
<1> QED
  BY <1>1, <1>2, <1>3, PTL DEF Spec
=============================================================================
