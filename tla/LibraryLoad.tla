---------------------------- MODULE LibraryLoad ----------------------------
(***************************************************************************)
(* From the generated sources to a registered native library on Android.   *)
(* A developer runs the code generator and the three patch scripts in any  *)
(* order, again and again, and may interrupt them; what builds is then     *)
(* loaded in processes whose threads call initializeNative.                *)
(*                                                                         *)
(* The generator, the build tools, the Java runtime and the registry of    *)
(* the Nitro library are external.                                         *)
(***************************************************************************)
EXTENDS Naturals, FiniteSets

CONSTANTS
  Threads, Nobody,
  MaxRuns      \* bound: definitions of nitro_modules, and failures of a process

ASSUME ThreadsAssumption == Nobody \notin Threads

VARIABLES
  tree,     \* what the scripts read and write in the source files
  script,   \* the file that fix-visibility patches next, or "none"
  app,      \* the library that was built, or NotBuilt
  process,  \* a running process
  pc        \* where each of its threads is in initializeNative

vars == << tree, script, app, process, pc >>

(* The generated files, any of which may be missing: visibility of the two  *)
(* Kotlin files; ConcealCryptoOnLoad.cpp, with or without the comment that *)
(* ends its namespace, and how many JNI_OnLoad it has; does the autolinking*)
(* file name NitroModules.                                                 *)
Visibility == {"internal", "public"}
Kotlin == {"absent"} \cup Visibility
OnLoadCpp == {"absent", "unmarked", "marked"}
Autolinking == {"absent", "unlinked", "linked"}

(* CMakeLists.txt: missing, without or with the find_package line; what it *)
(* links to; how often it defines the target nitro_modules; does it contain*)
(* the words that fix-prefab-bug.js looks for, as a fix by hand would.     *)
CMakeLists == {"absent", "plain", "find_package"}
Links == {"none", "NitroModules", "nitro_modules"}

Trees == [kt : Kotlin, spec : Kotlin, cpp : OnLoadCpp, onLoad : Nat, autolinking : Autolinking,
          cmake : CMakeLists, link : Links, targets : Nat, fixedByHand : BOOLEAN]

NotBuilt == [onLoad |-> 0, built |-> FALSE]
Started == [loaded |-> FALSE, registrations |-> 0, setBy |-> {}, loader |-> Nobody,
            failures |-> 0]

Init ==
  /\ tree \in [kt : Kotlin, spec : Kotlin, cpp : OnLoadCpp, onLoad : {0, 1},
               autolinking : Autolinking, cmake : CMakeLists, link : Links, targets : {0, 1},
               fixedByHand : BOOLEAN]
  /\ tree.cpp = "absent" => tree.onLoad = 0
  /\ tree.fixedByHand <=> tree.targets = 1
  /\ tree.fixedByHand <=> tree.link = "nitro_modules"
  /\ tree.cmake = "absent" => tree.link = "none"
  /\ script = "none"
  /\ app = NotBuilt
  /\ process = Started
  /\ pc = [t \in Threads |-> "out"]
-----------------------------------------------------------------------------
Developing == ~app.built
Patch(newTree, next) ==
  /\ tree' = newTree /\ script' = next
  /\ UNCHANGED << app, process, pc >>

(* The generator writes its files anew, with the names and contents of its *)
(* version; CMakeLists.txt is not one of them.                             *)
Nitrogen ==
  /\ Developing /\ script = "none"
  /\ \E kt \in Kotlin, spec \in Kotlin, cpp \in OnLoadCpp, autolinking \in Autolinking :
       Patch([tree EXCEPT !.kt = kt, !.spec = spec, !.cpp = cpp, !.onLoad = 0,
                          !.autolinking = autolinking], "none")

(* fix-visibility.js: three files, one after the other.  It warns of a     *)
(* missing one and goes on.  JNI_OnLoad goes after the end of the          *)
(* namespace, if the comment that marks it is found; if not, the file stays*)
(* as it is, without JNI_OnLoad.                                           *)
Public(visibility) == IF visibility = "absent" THEN "absent" ELSE "public"
WithOnLoadAlways(t) ==      \* mutant: no test for an earlier JNI_OnLoad
  IF t.cpp = "marked" THEN t.onLoad + 1 ELSE t.onLoad
WithOnLoad(t) ==
  IF t.cpp = "marked" /\ t.onLoad = 0 THEN 1 ELSE t.onLoad

FixVisibility ==
  /\ Developing
  /\ \/ /\ script = "none"
        /\ Patch([tree EXCEPT !.kt = Public(@)], "OnLoad.cpp")
     \/ /\ script = "OnLoad.cpp"
        /\ Patch([tree EXCEPT !.onLoad = WithOnLoad(tree)], "Spec.kt")
     \/ /\ script = "Spec.kt"
        /\ Patch([tree EXCEPT !.spec = Public(@)], "none")

Interrupt == script # "none" /\ Patch(tree, "none")

(* fix-cmake-linking.js.                                                   *)
FixCMakeLinking ==
  /\ Developing /\ script = "none"
  /\ Patch([tree EXCEPT !.autolinking = IF @ = "absent" THEN @ ELSE "linked"], "none")

(* fix-prefab-bug.js does nothing if the file or its find_package line is  *)
(* missing or the fix seems to be there.  The words it looks for are not in*)
(* the text it inserts, so that it does not recognise its own work.        *)
PrefabFixApplies(t) == t.cmake = "find_package" /\ ~t.fixedByHand
FixPrefabBug ==
  /\ Developing /\ script = "none"
  /\ tree.targets < MaxRuns
  /\ IF PrefabFixApplies(tree)
     THEN Patch([tree EXCEPT !.targets = @ + 1,
                             !.link = IF @ = "NitroModules" THEN "nitro_modules" ELSE @],
                "none")
     ELSE Patch(tree, "none")

(* CMake includes the autolinking file, which lists ConcealCryptoOnLoad.cpp*)
(* as a source, and defines a target once; C++ defines a function once; the*)
(* application can name a public class only.                               *)
Configures(t) ==
  /\ t.cmake # "absent" /\ t.autolinking # "absent" /\ t.cpp # "absent"
  /\ t.targets <= 1 /\ (t.link = "nitro_modules" => t.targets = 1)
Compiles(t) == t.onLoad <= 1 /\ t.kt = "public"

Build ==
  /\ Developing /\ script = "none"
  /\ Configures(tree) /\ Compiles(tree)
  /\ app' = [onLoad |-> tree.onLoad, built |-> TRUE]
  /\ UNCHANGED << tree, script, process, pc >>
-----------------------------------------------------------------------------
(* initializeNative, in one process after the other.                       *)
Goto(t, place) == pc' = [pc EXCEPT ![t] = place]
Thread(t, newProcess, place) ==
  /\ process' = newProcess /\ Goto(t, place)
  /\ UNCHANGED << tree, script, app >>

(* didLoad is a plain field: another thread's write may not be seen yet.   *)
Call(t) ==
  /\ app.built /\ pc[t] \in {"out", "returned", "thrown"}
  /\ \/ process.setBy # {} /\ Thread(t, process, "returned")
     \/ t \notin process.setBy /\ Thread(t, process, "loading")

(* System.loadLibrary lets one thread load a library, once; others wait.   *)
(* It runs JNI_OnLoad, if there is one.                                    *)
LoadLibrary(t) ==
  /\ pc[t] = "loading" /\ process.loader = Nobody
  /\ IF process.loaded THEN Thread(t, process, "loaded")
     ELSE Thread(t, [process EXCEPT !.loader = t], "JNI_OnLoad")

JNI_OnLoad(t) ==
  /\ pc[t] = "JNI_OnLoad"
  /\ Thread(t, [process EXCEPT !.registrations = @ + app.onLoad, !.loaded = TRUE,
                               !.loader = Nobody], "loaded")

(* UnsatisfiedLinkError is caught, logged and thrown again.                *)
FailSilently(t) ==     \* mutant: not thrown again
  /\ pc[t] = "loading" /\ process.loader = Nobody /\ ~process.loaded
  /\ process.failures < MaxRuns
  /\ Thread(t, [process EXCEPT !.failures = @ + 1, !.setBy = @ \cup {t}], "returned")
Fail(t) ==
  /\ pc[t] = "loading" /\ process.loader = Nobody /\ ~process.loaded
  /\ process.failures < MaxRuns
  /\ Thread(t, [process EXCEPT !.failures = @ + 1], "thrown")

SetDidLoad(t) ==
  /\ pc[t] = "loaded"
  /\ Thread(t, [process EXCEPT !.setBy = @ \cup {t}], "returned")

(* The process is killed, whatever its threads do, and another starts.     *)
Restart ==
  /\ app.built
  /\ process' = Started /\ pc' = [t \in Threads |-> "out"]
  /\ UNCHANGED << tree, script, app >>

Next ==
  \/ Nitrogen \/ FixVisibility \/ Interrupt \/ FixCMakeLinking \/ FixPrefabBug \/ Build
  \/ \E t \in Threads :
       Call(t) \/ LoadLibrary(t) \/ JNI_OnLoad(t) \/ Fail(t) \/ SetDidLoad(t)
  \/ Restart

Spec == Init /\ [][Next]_vars
-----------------------------------------------------------------------------
(* Types.                                                                  *)
Places == {"out", "loading", "JNI_OnLoad", "loaded", "returned", "thrown"}
TypeOK ==
  /\ tree \in Trees
  /\ script \in {"none", "OnLoad.cpp", "Spec.kt"}
  /\ app \in [onLoad : {0, 1}, built : BOOLEAN]
  /\ process \in [loaded : BOOLEAN, registrations : Nat, setBy : SUBSET Threads,
                  loader : Threads \cup {Nobody}, failures : Nat]
  /\ pc \in [Threads -> Places]

(* fix-visibility.js, however often it runs between runs of the generator  *)
(* and wherever it is interrupted, leaves at most one JNI_OnLoad.  Once it *)
(* is past the C++ file there is exactly one, provided that file was found *)
(* with the end of its namespace marked, and the class is public, provided *)
(* its file was found.                                                     *)
OneEntryPoint ==
  /\ tree.onLoad <= 1
  /\ script = "Spec.kt" /\ tree.cpp = "marked" => tree.onLoad = 1
  /\ script # "none" => tree.kt # "internal"

(* In every process, with stale reads of didLoad, failures and threads that*)
(* load at the same time: a thread that returns from initializeNative finds*)
(* the object registered, exactly once, if the library was built with      *)
(* JNI_OnLoad, and no thread ever registers it twice.                      *)
ReturnedMeansRegistered ==
  /\ process.registrations <= 1
  /\ \A t \in Threads : pc[t] = "returned" => process.registrations = app.onLoad
-----------------------------------------------------------------------------
(* fix-prefab-bug.js:15-17, "Check if the manual fix is already present",   *)
(* "Prefab bug fix already present in": a run that finds the fix made leaves*)
(* the file alone, so that the target is never defined twice, which CMake   *)
(* refuses.                                                                 *)
PrefabFixedOnce == tree.targets <= 1
=============================================================================
