---------------------------- MODULE KernelLemmas ----------------------------
(***************************************************************************)
(* What the proofs about the pure functions rest on.                       *)
(*                                                                         *)
(* First, induction over data, for the folds and sums of the community     *)
(* modules.  The library's induction theorems take a predicate, which no   *)
(* installed prover can instantiate; here the predicate is a set, and well *)
(* founded induction is the minimal element of what is not in it.  From    *)
(* that: the recursion on subsets by which SumFunction and FoldLeft are    *)
(* defined has a solution, and only one; sums are linear, may be split,    *)
(* renumbered and exchanged; a left fold ends where a run of its step      *)
(* ends.  With them, powers of two, division and congruences.              *)
(*                                                                         *)
(* Then the field functions, which are those of the field for limbs of any *)
(* number and width and any C that meet the assumption, the program's      *)
(* among them.  A vector means v if the integer it stands for is v modulo  *)
(* p; no carry and no order of carries changes that, and the products of   *)
(* limbs, with their factors of 2 and C, are those of the integers modulo  *)
(* p.                                                                      *)
(*                                                                         *)
(* Last, the size of the limbs, where they have room for the carries: what *)
(* fits the bounds that fe_mul asks for is left within 1.01 of half the    *)
(* width of a limb, a load too, and limbs within 1.1 of the width are      *)
(* written by fe_tobytes as the number below p that they stand for.        *)
(***************************************************************************)
EXTENDS FieldLimbs, FiniteSetTheorems, WellFoundedInduction, TLAPS

(* Induction over the naturals, for a set instead of a predicate.          *)
LEMMA NaturalInduction ==
  ASSUME NEW S, 0 \in S, \A n \in Nat : n \in S => n + 1 \in S
  PROVE  Nat \subseteq S
<1> DEFINE R == OpToRel(<, Nat)
           T == Nat \ S
<1>1. IsWellFoundedOn(R, Nat)
  BY NatLessThanWellFounded
<1>2. \A x, y \in Nat : x < y => << x, y >> \in R
  BY DEF OpToRel
<1> HIDE DEF R
<1> SUFFICES ASSUME T # {} PROVE FALSE
  OBVIOUS
<1>3. PICK x \in T : \A y \in T : ~ (<< y, x >> \in R)
  BY <1>1, WFMin
<1>4. x \in Nat /\ x # 0 /\ x \notin S
  OBVIOUS
<1>5. x - 1 \in Nat /\ x - 1 < x /\ (x - 1) + 1 = x
  BY <1>4
<1>6. x - 1 \in T
  BY <1>4, <1>5
<1> QED
  BY <1>2, <1>3, <1>4, <1>5, <1>6

(* A set of numbers that is not empty has a least.                         *)
LEMMA LeastNumber ==
  ASSUME NEW S \in SUBSET Nat, S # {}
  PROVE  \E x \in S : \A y \in S : x <= y
<1> DEFINE R == OpToRel(<, Nat)
<1>1. IsWellFoundedOn(R, Nat)
  BY NatLessThanWellFounded
<1>2. \A x, y \in Nat : x < y => << x, y >> \in R
  BY DEF OpToRel
<1> HIDE DEF R
<1>3. PICK x \in S : \A y \in S : ~ (<< y, x >> \in R)
  BY <1>1, WFMin
<1>4. \A y \in S : y \in Nat /\ x \in Nat /\ ~ (y < x)
  BY <1>2, <1>3
<1> QED
  BY <1>4

(* Induction over the subsets of a finite set: a set P that has T whenever *)
(* it has T without any one element has them all.                          *)
LEMMA SubsetInduction ==
  ASSUME NEW S, IsFiniteSet(S), NEW P,
         \A T \in SUBSET S : (\A x \in T : T \ {x} \in P) => T \in P
  PROVE  SUBSET S \subseteq P
<1> DEFINE R == StrictSubsetOrdering(S)
           Bad == (SUBSET S) \ P
<1>1. IsWellFoundedOn(R, SUBSET S)
  BY FS_StrictSubsetOrderingWellFounded, FS_FiniteSubsetsOfFinite
<1>2. \A T, U \in SUBSET S : T \subseteq U /\ T # U => << T, U >> \in R
  BY DEF StrictSubsetOrdering
<1> HIDE DEF R
<1> SUFFICES ASSUME Bad # {} PROVE FALSE
  OBVIOUS
<1>3. PICK T \in Bad : \A U \in Bad : ~ (<< U, T >> \in R)
  BY <1>1, WFMin
<1>4. PICK x \in T : T \ {x} \notin P
  OBVIOUS
<1>5. T \ {x} \in Bad /\ T \ {x} # T
  BY <1>4
<1> QED
  BY <1>2, <1>3, <1>5

(* Powers of two. *)
LEMMA PowerSuccessor ==
  ASSUME NEW n \in Nat
  PROVE  2^(n + 1) = 2^n + 2^n
<1> DEFINE A == 1..n
           x == n + 1
           Old == SUBSET A
           New == {T \cup {x} : T \in Old}
           f == [T \in Old |-> T \cup {x}]
<1>1. IsFiniteSet(A) /\ Cardinality(A) = n
  BY FS_Interval
<1>2. IsFiniteSet(1..(n + 1)) /\ Cardinality(1..(n + 1)) = n + 1
  BY FS_Interval
<1>3. IsFiniteSet(Old) /\ Cardinality(Old) = 2^n
  BY <1>1, FS_SUBSET
<1>4. Cardinality(SUBSET (1..(n + 1))) = 2^(n + 1)
  BY <1>2, FS_SUBSET
<1>5. x \notin A
  OBVIOUS
<1>6. f \in Bijection(Old, New)
  <2>1. \A T, U \in Old : f[T] = f[U] => T = U
    <3> TAKE T, U \in Old
    <3>1. x \notin T /\ x \notin U
      BY <1>5
    <3> QED
      BY <3>1
  <2>2. f \in [Old -> New]
    OBVIOUS
  <2>3. \A t \in New : \E s \in Old : f[s] = t
    OBVIOUS
  <2> QED
    BY <2>1, <2>2, <2>3 DEF Bijection, Injection, Surjection, IsInjective
<1>7. IsFiniteSet(New) /\ Cardinality(New) = 2^n
  <2>1. ExistsBijection(Old, New)
    BY <1>6 DEF ExistsBijection
  <2> QED
    BY <1>3, <2>1, FS_Bijection
<1>8. Old \cap New = {}
  BY <1>5
<1>9. SUBSET (1..(n + 1)) = Old \cup New
  <2>1. 1..(n + 1) = A \cup {x}
    OBVIOUS
  <2>2. ASSUME NEW T \in SUBSET (A \cup {x}) PROVE T \in Old \cup New
    <3>1. CASE x \in T
      <4>1. T = (T \ {x}) \cup {x} /\ T \ {x} \in Old
        BY <3>1
      <4> QED
        BY <4>1
    <3>2. CASE x \notin T
      BY <3>2
    <3> QED
      BY <3>1, <3>2
  <2>3. ASSUME NEW T \in Old \cup New PROVE T \in SUBSET (A \cup {x})
    OBVIOUS
  <2>4. SUBSET (A \cup {x}) = Old \cup New
    <3> HIDE DEF A, x, Old, New
    <3> QED
      BY <2>2, <2>3
  <2> QED
    BY <2>1, <2>4, Zenon
<1>10. Cardinality(Old \cup New) = Cardinality(Old) + Cardinality(New) - Cardinality(Old \cap New)
  BY <1>3, <1>7, FS_Union
<1>11. Cardinality(Old \cap New) = 0
  BY <1>8, FS_EmptySet
<1>12. Cardinality(Old) \in Nat
  BY <1>3, FS_CardinalityType
<1>13. Cardinality(Old \cup New) = 2^(n + 1)
  BY <1>4, <1>9
<1>14. 2^n \in Nat
  BY <1>3, <1>12
<1> HIDE DEF A, x, Old, New, f
<1> QED
  BY <1>3, <1>7, <1>10, <1>11, <1>13, <1>14

(* A power of two is a positive natural number.                            *)
LEMMA PowerPositive ==
  \A n \in Nat : 2^n \in Nat /\ 2^n > 0
<1> DEFINE S == {n \in Nat : 2^n \in Nat /\ 2^n > 0}
<1>1. 0 \in S
  <2>1. 2^0 = 1
    BY SMT
  <2> QED
    BY <2>1
<1>2. \A n \in Nat : n \in S => n + 1 \in S
  BY PowerSuccessor
<1> HIDE DEF S
<1>3. Nat \subseteq S
  BY <1>1, <1>2, NaturalInduction
<1> QED
  BY <1>3 DEF S

(* Exponents add up.                                                       *)
LEMMA PowerSum ==
  \A m, n \in Nat : 2^(m + n) = 2^m * 2^n
<1> SUFFICES ASSUME NEW m \in Nat PROVE \A n \in Nat : 2^(m + n) = 2^m * 2^n
  OBVIOUS
<1> DEFINE S == {n \in Nat : 2^(m + n) = 2^m * 2^n}
<1>1. 0 \in S
  <2>1. 2^0 = 1 /\ m + 0 = m
    BY SMT
  <2>2. 2^m * 1 = 2^m
    BY PowerPositive
  <2> QED
    BY <2>1, <2>2
<1>2. ASSUME NEW n \in Nat, n \in S PROVE n + 1 \in S
  <2>1. m + n \in Nat /\ m + (n + 1) = (m + n) + 1
    OBVIOUS
  <2>2. 2^(m + (n + 1)) = 2^(m + n) + 2^(m + n)
    BY <2>1, PowerSuccessor
  <2>3. 2^(n + 1) = 2^n + 2^n
    BY PowerSuccessor
  <2>4. 2^(m + n) = 2^m * 2^n
    BY <1>2
  <2>5. 2^m \in Nat /\ 2^n \in Nat
    BY PowerPositive
  <2>6. \A a, b \in Nat : a * b + a * b = a * (b + b)
    OBVIOUS
  <2> QED
    BY <2>2, <2>3, <2>4, <2>5, <2>6
<1> HIDE DEF S
<1>3. Nat \subseteq S
  BY <1>1, <1>2, NaturalInduction
<1> QED
  BY <1>3 DEF S

(* Powers of two grow.                                                     *)
LEMMA PowersGrow ==
  \A j, k \in Nat : j <= k => 2^j <= 2^k
<1> SUFFICES ASSUME NEW j \in Nat, NEW k \in Nat, j <= k PROVE 2^j <= 2^k
  OBVIOUS
<1>1. k - j \in Nat /\ j + (k - j) = k
  OBVIOUS
<1>2. 2^k = 2^j * 2^(k - j)
  BY <1>1, PowerSum
<1>3. 2^j \in Nat /\ 2^(k - j) \in Nat /\ 2^(k - j) >= 1
  BY <1>1, PowerPositive
<1>4. \A a, b \in Nat : b >= 1 => a * b >= a
  OBVIOUS
<1> QED
  BY <1>2, <1>3, <1>4
-----------------------------------------------------------------------------
(* Solves(iter, S, ...): iter is the function MapThenFoldSet builds. *)
Solves(iter, S, pick, step, base) ==
  iter = [T \in SUBSET S |-> IF T = {} THEN base
                             ELSE step[<< iter[T \ {pick[T]}], pick[T] >>]]

(* The recursion of MapThenFoldSet has a solution: it takes the picked     *)
(* element out of T, and the rest is smaller.                              *)
LEMMA RecursionOnSubsets ==
  ASSUME NEW S, IsFiniteSet(S), NEW V, NEW base \in V, NEW pick, NEW step,
         \A T \in SUBSET S : T # {} => pick[T] \in T,
         \A v \in V, x \in S : step[<< v, x >>] \in V
  PROVE  \E iter \in [SUBSET S -> V] : Solves(iter, S, pick, step, base)
<1> DEFINE Closed(U) ==
             /\ << {}, base >> \in U
             /\ \A T \in SUBSET S, v \in V :
                  T # {} /\ << T \ {pick[T]}, v >> \in U => << T, step[<< v, pick[T] >>] >> \in U
           All == (SUBSET S) \X V
           R == {u \in All : \A U \in SUBSET All : Closed(U) => u \in U}
           P == {T \in SUBSET S : \E v \in V : << T, v >> \in R /\ \A w \in V : << T, w >> \in R => w = v}
<1>1. R \subseteq All /\ \A U \in SUBSET All : Closed(U) => R \subseteq U
  OBVIOUS
<1>2. << {}, base >> \in R
  OBVIOUS
<1>3. ASSUME NEW T \in SUBSET S, T # {}, NEW v \in V, << T \ {pick[T]}, v >> \in R
      PROVE  << T, step[<< v, pick[T] >>] >> \in R
  <2>1. step[<< v, pick[T] >>] \in V
    BY <1>3
  <2>2. << T, step[<< v, pick[T] >>] >> \in All
    BY <2>1
  <2>3. ASSUME NEW U \in SUBSET All, Closed(U)
        PROVE  << T, step[<< v, pick[T] >>] >> \in U
    <3>1. << T \ {pick[T]}, v >> \in U
      BY <1>3, <2>3
    <3> QED
      BY <1>3, <2>3, <3>1
  <2> QED
    BY <2>2, <2>3
<1>4. Closed(R)
  BY <1>2, <1>3
<1>5. ASSUME NEW T \in SUBSET S, \A x \in T : T \ {x} \in P
      PROVE  T \in P
  <2> DEFINE Predecessor(v) == T # {} /\ << T \ {pick[T]}, v >> \in R
  <2>1. PICK v \in V : /\ << T, v >> \in R
                       /\ T = {} => v = base
                       /\ \A u \in V : Predecessor(u) => v = step[<< u, pick[T] >>]
    <3>1. CASE T = {}
      BY <1>2, <3>1
    <3>2. CASE T # {}
      <4>1. T \ {pick[T]} \in P
        BY <1>5, <3>2
      <4>2. PICK u \in V : /\ << T \ {pick[T]}, u >> \in R
                           /\ \A w \in V : << T \ {pick[T]}, w >> \in R => w = u
        BY <4>1
      <4>3. << T, step[<< u, pick[T] >>] >> \in R /\ step[<< u, pick[T] >>] \in V
        BY <1>3, <3>2, <4>2
      <4> HIDE DEF R
      <4> QED
        BY <3>2, <4>2, <4>3
    <3> QED
      BY <3>1, <3>2
  <2>2. ASSUME NEW w \in V, << T, w >> \in R, w # v
        PROVE  FALSE
    <3> DEFINE U == R \ {<< T, w >>}
    <3> HIDE DEF R
    <3>1. U \in SUBSET All
      BY <1>1
    <3>2. << {}, base >> \in U
      BY <1>2, <2>1, <2>2
    <3>3. ASSUME NEW T2 \in SUBSET S, NEW u \in V, T2 # {}, << T2 \ {pick[T2]}, u >> \in U
          PROVE  << T2, step[<< u, pick[T2] >>] >> \in U
      <4>1. << T2, step[<< u, pick[T2] >>] >> \in R
        BY <1>3, <3>3
      <4>2. T2 = T => step[<< u, pick[T2] >>] = v
        BY <2>1, <3>3
      <4> QED
        BY <2>2, <4>1, <4>2
    <3>4. Closed(U)
      BY <3>2, <3>3
    <3>5. R \subseteq U
      BY <1>1, <3>1, <3>4
    <3> QED
      BY <2>2, <3>5
  <2> HIDE DEF R
  <2> QED
    BY <2>1, <2>2
<1> HIDE DEF R, P
<1>6. SUBSET S \subseteq P
  BY <1>5, SubsetInduction
<1> DEFINE iter == [T \in SUBSET S |-> CHOOSE v \in V : << T, v >> \in R]
<1>7. \A T \in SUBSET S : /\ iter[T] \in V /\ << T, iter[T] >> \in R
                          /\ \A w \in V : << T, w >> \in R => w = iter[T]
  BY <1>6 DEF P
<1>8. iter[{}] = base
  BY <1>2, <1>7
<1>9. ASSUME NEW T \in SUBSET S, T # {}
      PROVE  iter[T] = step[<< iter[T \ {pick[T]}], pick[T] >>]
  <2> DEFINE u == iter[T \ {pick[T]}]
  <2>1. T \ {pick[T]} \in SUBSET S
    OBVIOUS
  <2>2. u \in V /\ << T \ {pick[T]}, u >> \in R
    BY <1>7, <2>1
  <2> HIDE DEF u
  <2>3. << T, step[<< u, pick[T] >>] >> \in R
    BY <1>3, <1>9, <2>2
  <2>4. step[<< u, pick[T] >>] \in V
    BY <1>9, <2>2
  <2> QED
    BY <1>7, <2>3, <2>4 DEF u
<1>10. iter \in [SUBSET S -> V]
  BY <1>7
<1> HIDE DEF iter
<1>11. iter = [T \in SUBSET S |-> iter[T]]
  BY <1>10
<1>12. \A T \in SUBSET S : iter[T] = IF T = {} THEN base
                                     ELSE step[<< iter[T \ {pick[T]}], pick[T] >>]
  BY <1>8, <1>9
<1>13. [T \in SUBSET S |-> iter[T]]
        = [T \in SUBSET S |-> IF T = {} THEN base
                             ELSE step[<< iter[T \ {pick[T]}], pick[T] >>]]
  BY <1>12
<1>14. Solves(iter, S, pick, step, base)
  BY <1>11, <1>13, Zenon DEF Solves
<1> QED
  BY <1>10, <1>14

(* Two solutions of that recursion agree wherever both are defined.        *)
LEMMA RecursionIsUnique ==
  ASSUME NEW S, IsFiniteSet(S), NEW T \in SUBSET S, NEW base, NEW pick, NEW step,
         \A U \in SUBSET S : U # {} => pick[U] \in U,
         NEW it1, Solves(it1, S, pick, step, base),
         NEW it2, Solves(it2, T, pick, step, base)
  PROVE  \A U \in SUBSET T : it1[U] = it2[U]
<1> DEFINE P == {U \in SUBSET T : it1[U] = it2[U]}
<1>1. IsFiniteSet(T)
  BY FS_Subset
<1>2. ASSUME NEW U \in SUBSET T, \A x \in U : U \ {x} \in P
      PROVE  U \in P
  <2>1. CASE U = {}
    BY <2>1 DEF Solves
  <2>2. CASE U # {}
    <3>1. pick[U] \in U
      BY <2>2
    <3>2. it1[U \ {pick[U]}] = it2[U \ {pick[U]}]
      BY <1>2, <3>1
    <3>3. it1[U] = step[<< it1[U \ {pick[U]}], pick[U] >>]
      BY <2>2 DEF Solves
    <3>4. it2[U] = step[<< it2[U \ {pick[U]}], pick[U] >>]
      BY <2>2 DEF Solves
    <3> QED
      BY <3>2, <3>3, <3>4
  <2> QED
    BY <2>1, <2>2
<1> HIDE DEF P
<1>3. SUBSET T \subseteq P
  BY <1>1, <1>2, SubsetInduction
<1> QED
  BY <1>3 DEF P
-----------------------------------------------------------------------------
(* Sums. *)
PicksAny(pick, S) == \A T \in SUBSET S : pick[T] = CHOOSE x \in T : TRUE
Adds(step, f, S) == \A v \in Int, x \in S : step[<< v, x >>] = f[x] + v

(* What is picked from a set that is not empty is one of its elements.     *)
LEMMA PickIsElement ==
  ASSUME NEW S, NEW pick, PicksAny(pick, S)
  PROVE  \A T \in SUBSET S : T # {} => pick[T] \in T
BY DEF PicksAny

(* TwoSums(i, f, S): i is the function SumFunctionOnSet builds on S.       *)
AreSums(i, f, S) ==
  i = [T \in SUBSET S |-> IF T = {} THEN 0
                          ELSE f[CHOOSE x \in T : TRUE] + i[T \ {CHOOSE x \in T : TRUE}]]

(* The sum over S does not depend on which solution is chosen.             *)
LEMMA SumsAreUnique ==
  ASSUME NEW S, IsFiniteSet(S), NEW f, NEW i, AreSums(i, f, S), NEW j, AreSums(j, f, S)
  PROVE  i[S] = j[S]
<1> DEFINE P == {T \in SUBSET S : i[T] = j[T]}
<1>1. ASSUME NEW U \in SUBSET S, \A x \in U : U \ {x} \in P
      PROVE  U \in P
  <2>1. CASE U = {}
    BY <2>1 DEF AreSums
  <2>2. CASE U # {}
    <3> DEFINE x == CHOOSE x \in U : TRUE
    <3>1. x \in U
      BY <2>2
    <3>2. i[U] = f[x] + i[U \ {x}] /\ j[U] = f[x] + j[U \ {x}]
      BY <2>2 DEF AreSums
    <3>3. i[U \ {x}] = j[U \ {x}]
      BY <1>1, <3>1
    <3> HIDE DEF x
    <3> QED
      BY <3>2, <3>3
  <2> QED
    BY <2>1, <2>2
<1> HIDE DEF P
<1>2. SUBSET S \subseteq P
  BY <1>1, SubsetInduction
<1> QED
  BY <1>2 DEF P

(* SumFunctionOnSet is the value at S of a solution over the subsets of S. *)
LEMMA SumIsRecursive ==
  ASSUME NEW S, IsFiniteSet(S), NEW f, \A x \in S : f[x] \in Int,
         NEW pick, PicksAny(pick, S), NEW step, Adds(step, f, S)
  PROVE  \E iter \in [SUBSET S -> Int] :
           Solves(iter, S, pick, step, 0) /\ SumFunctionOnSet(f, S) = iter[S]
<1>1. \A T \in SUBSET S : T # {} => pick[T] \in T
  BY PickIsElement
<1>2. \A v \in Int, x \in S : step[<< v, x >>] \in Int
  <2> TAKE v \in Int, x \in S
  <2>1. step[<< v, x >>] = f[x] + v
    BY DEF Adds
  <2>2. f[x] \in Int
    OBVIOUS
  <2> QED
    BY <2>1, <2>2
<1>b. 0 \in Int
  OBVIOUS
<1>3. PICK it \in [SUBSET S -> Int] : Solves(it, S, pick, step, 0)
  BY <1>1, <1>2, <1>b, RecursionOnSubsets, Zenon
<1>4. AreSums(it, f, S)
  <2>1. ASSUME NEW T \in SUBSET S, T # {}
        PROVE  it[T] = f[CHOOSE x \in T : TRUE] + it[T \ {CHOOSE x \in T : TRUE}]
    <3>1. pick[T] \in S /\ T \ {pick[T]} \in SUBSET S
      BY <1>1, <2>1
    <3>2. it[T] = step[<< it[T \ {pick[T]}], pick[T] >>]
      BY <1>3, <2>1 DEF Solves
    <3>3. it[T \ {pick[T]}] \in Int
      BY <3>1
    <3>4. it[T] = f[pick[T]] + it[T \ {pick[T]}]
      BY <3>1, <3>2, <3>3 DEF Adds
    <3> QED
      BY <3>4 DEF PicksAny
  <2>2. it[{}] = 0
    BY <1>3 DEF Solves
  <2>3. it = [T \in SUBSET S |-> it[T]]
    OBVIOUS
  <2>4. [T \in SUBSET S |-> it[T]] = [T \in SUBSET S |->
                        IF T = {} THEN 0
                        ELSE f[CHOOSE x \in T : TRUE] + it[T \ {CHOOSE x \in T : TRUE}]]
    BY <2>1, <2>2
  <2> QED
    BY <2>3, <2>4, Zenon DEF AreSums
<1>5. PICK E : AreSums(E, f, S) /\ SumFunctionOnSet(f, S) = E[S]
  <2>1. SumFunctionOnSet(f, S) = (CHOOSE i : AreSums(i, f, S))[S]
    BY Zenon DEF SumFunctionOnSet, FoldFunctionOnSet, MapThenFoldSet, AreSums
  <2> QED
    BY <1>4, <2>1, Zenon
<1>7. E[S] = it[S]
  BY <1>4, <1>5, SumsAreUnique
<1> QED
  BY <1>3, <1>5, <1>7

(* The sum of integers is one; of nothing it is 0, and otherwise one       *)
(* element is taken out first.                                             *)
LEMMA SumUnfolds ==
  ASSUME NEW S, IsFiniteSet(S), NEW f, \A x \in S : f[x] \in Int
  PROVE  /\ SumFunctionOnSet(f, S) \in Int
         /\ S = {} => SumFunctionOnSet(f, S) = 0
         /\ S # {} => \E x \in S :
              SumFunctionOnSet(f, S) = f[x] + SumFunctionOnSet(f, S \ {x})
<1> DEFINE pick == [T \in SUBSET S |-> CHOOSE x \in T : TRUE]
           step == [vx \in Int \X S |-> f[vx[2]] + vx[1]]
<1>1. PicksAny(pick, S)
  BY DEF PicksAny
<1>2. Adds(step, f, S)
  BY DEF Adds
<1>a. \A T \in SUBSET S : T # {} => pick[T] \in T
  BY <1>1, PickIsElement
<1> HIDE DEF pick, step
<1>3. PICK it \in [SUBSET S -> Int] :
        Solves(it, S, pick, step, 0) /\ SumFunctionOnSet(f, S) = it[S]
  BY <1>1, <1>2, SumIsRecursive
<1>4. S = {} => it[S] = 0
  BY <1>3 DEF Solves
<1>5. ASSUME S # {}
      PROVE  \E x \in S : SumFunctionOnSet(f, S) = f[x] + SumFunctionOnSet(f, S \ {x})
  <2> DEFINE x == pick[S]
             T == S \ {x}
  <2>1. x \in S /\ T \in SUBSET S
    BY <1>a, <1>5
  <2>2. it[S] = step[<< it[T], x >>]
    BY <1>3, <1>5 DEF Solves
  <2>3. it[S] = f[x] + it[T]
    BY <1>2, <1>3, <2>1, <2>2 DEF Adds
  <2>b. PicksAny(pick, T) /\ Adds(step, f, T)
    BY <1>1, <1>2, <2>1 DEF PicksAny, Adds
  <2> HIDE DEF x, T
  <2>4. IsFiniteSet(T)
    BY <2>1, FS_Subset
  <2>5. PICK it2 \in [SUBSET T -> Int] :
          Solves(it2, T, pick, step, 0) /\ SumFunctionOnSet(f, T) = it2[T]
    BY <2>b, <2>1, <2>4, SumIsRecursive
  <2>6. it[T] = it2[T]
    BY <1>3, <1>a, <2>1, <2>5, RecursionIsUnique
  <2> QED
    BY <1>3, <2>1, <2>3, <2>5, <2>6 DEF T
<1> QED
  BY <1>3, <1>4, <1>5

(* Any element may be taken out first.                                     *)
LEMMA SumSplit ==
  ASSUME NEW S, IsFiniteSet(S), NEW f, \A x \in S : f[x] \in Int, NEW x \in S
  PROVE  SumFunctionOnSet(f, S) = f[x] + SumFunctionOnSet(f, S \ {x})
<1> DEFINE P == {T \in SUBSET S : \A y \in T :
                   SumFunctionOnSet(f, T) = f[y] + SumFunctionOnSet(f, T \ {y})}
<1>1. ASSUME NEW T \in SUBSET S, \A y \in T : T \ {y} \in P
      PROVE  T \in P
  <2> SUFFICES ASSUME NEW y \in T
               PROVE  SumFunctionOnSet(f, T) = f[y] + SumFunctionOnSet(f, T \ {y})
    OBVIOUS
  <2>1. IsFiniteSet(T) /\ T # {} /\ \A z \in T : f[z] \in Int
    BY FS_Subset
  <2>2. PICK z \in T : SumFunctionOnSet(f, T) = f[z] + SumFunctionOnSet(f, T \ {z})
    BY <2>1, SumUnfolds, Zenon
  <2>3. CASE y = z
    BY <2>2, <2>3
  <2>4. CASE y # z
    <3>1. z \in T \ {y} /\ y \in T \ {z} /\ (T \ {y}) \ {z} = (T \ {z}) \ {y}
      BY <2>4
    <3>2. SumFunctionOnSet(f, T \ {z}) = f[y] + SumFunctionOnSet(f, (T \ {z}) \ {y})
      BY <1>1, <3>1
    <3>3. SumFunctionOnSet(f, T \ {y}) = f[z] + SumFunctionOnSet(f, (T \ {z}) \ {y})
      BY <1>1, <3>1
    <3> DEFINE U == (T \ {z}) \ {y}
    <3>4. IsFiniteSet(U) /\ \A w \in U : f[w] \in Int
      BY <2>1, FS_Subset
    <3>5. SumFunctionOnSet(f, U) \in Int
      BY <3>4, SumUnfolds, Zenon
    <3> QED
      BY <2>1, <2>2, <3>2, <3>3, <3>5
  <2> QED
    BY <2>3, <2>4
<1> HIDE DEF P
<1>2. SUBSET S \subseteq P
  BY <1>1, SubsetInduction
<1> QED
  BY <1>2 DEF P

(* A sum of integers is an integer.                                        *)
LEMMA SumIsInteger ==
  ASSUME NEW S, IsFiniteSet(S), NEW f, \A x \in S : f[x] \in Int
  PROVE  SumFunctionOnSet(f, S) \in Int
BY SumUnfolds, Zenon

(* The sum of nothing.                                                     *)
LEMMA SumOfNone == \A f : SumFunctionOnSet(f, {}) = 0
<1> TAKE f
<1>1. IsFiniteSet({}) /\ \A x \in {} : f[x] \in Int
  BY FS_EmptySet
<1> QED
  BY <1>1, SumUnfolds, Zenon

Congruent(x, y, m) == \E k \in Int : x = y + m * k

(* Linearity, modulo m; m = 0 gives equality.                              *)
Linear(e, f, g, a, b, m, S) ==
  \A x \in S : /\ e[x] \in Int /\ f[x] \in Int /\ g[x] \in Int
               /\ Congruent(e[x], a * f[x] + b * g[x], m)

(* A sum of linear combinations is that combination of the sums.           *)
LEMMA SumLinear ==
  ASSUME NEW S, IsFiniteSet(S), NEW m \in Int, NEW a \in Int, NEW b \in Int,
         NEW f, NEW g, NEW e, Linear(e, f, g, a, b, m, S)
  PROVE  /\ SumFunctionOnSet(f, S) \in Int
         /\ SumFunctionOnSet(g, S) \in Int
         /\ Congruent(SumFunctionOnSet(e, S),
                      a * SumFunctionOnSet(f, S) + b * SumFunctionOnSet(g, S), m)
<1>a. \A x \in S : f[x] \in Int /\ g[x] \in Int /\ e[x] \in Int
  BY DEF Linear
<1> DEFINE Good(T) == Congruent(SumFunctionOnSet(e, T),
                     a * SumFunctionOnSet(f, T) + b * SumFunctionOnSet(g, T), m)
           P == {T \in SUBSET S : Good(T)}
<1>1. ASSUME NEW T \in SUBSET S, \A x \in T : T \ {x} \in P
      PROVE  T \in P
  <2>1. CASE T = {}
    <3>1. Congruent(0, a * 0 + b * 0, m)
      <4>1. 0 = (a * 0 + b * 0) + m * 0
        OBVIOUS
      <4> QED
        BY <4>1 DEF Congruent
    <3>2. Good(T)
      BY <2>1, <3>1, SumOfNone
    <3> HIDE DEF Good
    <3> QED
      BY <3>2
  <2>2. CASE T # {}
    <3>1. PICK x \in T : TRUE
      BY <2>2
    <3> DEFINE U == T \ {x}
               F == SumFunctionOnSet(f, U)
               G == SumFunctionOnSet(g, U)
               E == SumFunctionOnSet(e, U)
               fx == f[x]
               gx == g[x]
               ex == e[x]
    <3>2. Congruent(E, a * F + b * G, m)
      BY <1>1
    <3>3. IsFiniteSet(T) /\ IsFiniteSet(U)
      BY FS_Subset
    <3>b. /\ \A y \in T : f[y] \in Int /\ g[y] \in Int /\ e[y] \in Int
          /\ \A y \in U : f[y] \in Int /\ g[y] \in Int /\ e[y] \in Int
      BY <1>a
    <3>4. F \in Int /\ G \in Int
      BY <3>b, <3>3, SumIsInteger, Zenon
    <3>5. Congruent(ex, a * fx + b * gx, m)
      BY DEF Linear
    <3>6. /\ SumFunctionOnSet(e, T) = ex + E
          /\ SumFunctionOnSet(f, T) = fx + F
          /\ SumFunctionOnSet(g, T) = gx + G
      BY <3>b, <3>3, SumSplit, Zenon
    <3>7. fx \in Int /\ gx \in Int
      BY <1>a
    <3> HIDE DEF F, G, E, U, fx, gx, ex
    <3>8. Congruent(ex + E, a * (fx + F) + b * (gx + G), m)
      <4>1. PICK k \in Int : E = (a * F + b * G) + m * k
        BY <3>2 DEF Congruent
      <4>2. PICK j \in Int : ex = (a * fx + b * gx) + m * j
        BY <3>5 DEF Congruent
      <4>3. ex + E = (a * (fx + F) + b * (gx + G)) + m * (j + k)
        BY <3>4, <3>7, <4>1, <4>2
      <4>4. j + k \in Int
        OBVIOUS
      <4> QED
        BY <4>3, <4>4 DEF Congruent
    <3>11. Good(T)
      BY <3>6, <3>8
    <3> HIDE DEF Good
    <3> QED
      BY <3>11
  <2> QED
    BY <2>1, <2>2
<1>2. SUBSET S \subseteq P
  <2> HIDE DEF P
  <2> QED
    BY <1>1, SubsetInduction
<1> QED
  BY <1>2, <1>a, SumIsInteger

(* Equal terms have equal sums.                                            *)
LEMMA SumsEqual ==
  ASSUME NEW S, IsFiniteSet(S), NEW f, \A x \in S : f[x] \in Int,
         NEW e, \A x \in S : e[x] = f[x]
  PROVE  SumFunctionOnSet(e, S) = SumFunctionOnSet(f, S)
<1>1. Linear(e, f, f, 1, 0, 0, S)
  BY DEF Linear, Congruent
<1>2. Congruent(SumFunctionOnSet(e, S),
        1 * SumFunctionOnSet(f, S) + 0 * SumFunctionOnSet(f, S), 0)
  BY <1>1, SumLinear
<1> QED
  BY <1>1, <1>2, SumLinear DEF Congruent

(* Terms that are sums.                                                    *)
LEMMA SumOfSums ==
  ASSUME NEW S, IsFiniteSet(S), NEW f, \A x \in S : f[x] \in Int,
         NEW g, \A x \in S : g[x] \in Int,
         NEW e, \A x \in S : e[x] = f[x] + g[x]
  PROVE  SumFunctionOnSet(e, S) = SumFunctionOnSet(f, S) + SumFunctionOnSet(g, S)
<1>1. PICK one \in Int : one = 1
  OBVIOUS
<1>2. PICK zero \in Int : zero = 0
  OBVIOUS
<1>3. Linear(e, f, g, one, one, zero, S)
  BY <1>1, <1>2 DEF Linear, Congruent
<1>4. /\ SumFunctionOnSet(f, S) \in Int /\ SumFunctionOnSet(g, S) \in Int
      /\ Congruent(SumFunctionOnSet(e, S),
           one * SumFunctionOnSet(f, S) + one * SumFunctionOnSet(g, S), zero)
  BY ONLY IsFiniteSet(S), <1>3, SumLinear, Zenon
<1> QED
  BY <1>1, <1>2, <1>4 DEF Congruent

(* Terms with a common factor.                                             *)
LEMMA SumScaled ==
  ASSUME NEW S, IsFiniteSet(S), NEW a \in Int, NEW f, \A x \in S : f[x] \in Int,
         NEW e, \A x \in S : e[x] = a * f[x]
  PROVE  SumFunctionOnSet(e, S) = a * SumFunctionOnSet(f, S)
<1>1. Linear(e, f, f, a, 0, 0, S)
  BY DEF Linear, Congruent
<1>2. Congruent(SumFunctionOnSet(e, S),
        a * SumFunctionOnSet(f, S) + 0 * SumFunctionOnSet(f, S), 0)
  BY <1>1, SumLinear
<1> QED
  BY <1>1, <1>2, SumLinear DEF Congruent

(* Congruent terms have congruent sums.                                    *)
LEMMA SumCongruent ==
  ASSUME NEW S, IsFiniteSet(S), NEW m \in Int, NEW f, \A x \in S : f[x] \in Int,
         NEW e, \A x \in S : e[x] \in Int /\ Congruent(e[x], f[x], m)
  PROVE  Congruent(SumFunctionOnSet(e, S), SumFunctionOnSet(f, S), m)
<1>1. PICK one \in Int : one = 1
  OBVIOUS
<1>2. PICK zero \in Int : zero = 0
  OBVIOUS
<1>3. Linear(e, f, f, one, zero, m, S)
  <2>1. \A x \in S : one * f[x] + zero * f[x] = f[x]
    BY <1>1, <1>2
  <2> QED
    BY <2>1 DEF Linear
<1>4. /\ SumFunctionOnSet(f, S) \in Int
      /\ Congruent(SumFunctionOnSet(e, S),
           one * SumFunctionOnSet(f, S) + zero * SumFunctionOnSet(f, S), m)
  BY ONLY IsFiniteSet(S), m \in Int, one \in Int, zero \in Int, <1>3, SumLinear, Zenon
<1>5. one * SumFunctionOnSet(f, S) + zero * SumFunctionOnSet(f, S) = SumFunctionOnSet(f, S)
  BY <1>1, <1>2, <1>4
<1> QED
  BY <1>4, <1>5

(* A change at one place changes the sum by as much.                       *)
LEMMA SumUpdated ==
  ASSUME NEW S, IsFiniteSet(S), NEW f, \A x \in S : f[x] \in Int,
         NEW y \in S, NEW d \in Int,
         NEW e, \A x \in S \ {y} : e[x] = f[x], e[y] = f[y] + d
  PROVE  SumFunctionOnSet(e, S) = SumFunctionOnSet(f, S) + d
<1> DEFINE T == S \ {y}
<1>1. IsFiniteSet(T) /\ \A x \in T : f[x] \in Int /\ e[x] = f[x]
  BY FS_Subset
<1>2. \A x \in S : e[x] \in Int
  OBVIOUS
<1>3. /\ SumFunctionOnSet(e, S) = e[y] + SumFunctionOnSet(e, T)
      /\ SumFunctionOnSet(f, S) = f[y] + SumFunctionOnSet(f, T)
  BY <1>2, SumSplit, Zenon
<1>4. SumFunctionOnSet(e, T) = SumFunctionOnSet(f, T) /\ SumFunctionOnSet(f, T) \in Int
  BY <1>1, SumsEqual, SumIsInteger, Zenon
<1> HIDE DEF T
<1> QED
  BY <1>3, <1>4

(* A double sum may be taken by rows or by columns.                        *)
RowSums(rows, F, S, T) ==
  \A x \in S : rows[x] = SumFunctionOnSet([y \in T |-> F[<< x, y >>]], T)
ColumnSums(cols, F, S, T) ==
  \A y \in T : cols[y] = SumFunctionOnSet([x \in S |-> F[<< x, y >>]], S)
IntegerTable(F, S, T) == \A x \in S, y \in T : F[<< x, y >>] \in Int

(* Adding the rows of a finite table up gives what adding its columns up   *)
(* does.                                                                   *)
LEMMA SumExchanged ==
  ASSUME NEW S, IsFiniteSet(S), NEW T, IsFiniteSet(T),
         NEW F, IntegerTable(F, S, T),
         NEW rows, RowSums(rows, F, S, T), NEW cols, ColumnSums(cols, F, S, T)
  PROVE  SumFunctionOnSet(rows, S) = SumFunctionOnSet(cols, T)
<1> DEFINE Row(x) == [y \in T |-> F[<< x, y >>]]
           Col(y) == [x \in S |-> F[<< x, y >>]]
           part(U) == [y \in T |-> SumFunctionOnSet(Col(y), U)]
           P == {U \in SUBSET S : SumFunctionOnSet(rows, U) = SumFunctionOnSet(part(U), T)}
<1>a. /\ \A x \in S, y \in T : F[<< x, y >>] \in Int
      /\ \A x \in S : rows[x] = SumFunctionOnSet(Row(x), T)
      /\ \A y \in T : cols[y] = SumFunctionOnSet(Col(y), S)
  BY DEF IntegerTable, RowSums, ColumnSums
<1>1. \A x \in S : (\A y \in T : Row(x)[y] \in Int) /\ rows[x] \in Int
  <2> TAKE x \in S
  <2>1. \A y \in T : Row(x)[y] \in Int
    BY <1>a
  <2>2. SumFunctionOnSet(Row(x), T) \in Int
    <3> HIDE DEF Row
    <3> QED
      BY <2>1, SumIsInteger, Zenon
  <2> QED
    BY <1>a, <2>1, <2>2
<1>2. \A y \in T : \A x \in S : Col(y)[x] \in Int
  BY <1>a
<1>3. ASSUME NEW U \in SUBSET S
      PROVE  \A y \in T : part(U)[y] \in Int
  <2> TAKE y \in T
  <2>1. IsFiniteSet(U) /\ \A x \in U : Col(y)[x] \in Int
    BY <1>2, FS_Subset
  <2>2. SumFunctionOnSet(Col(y), U) \in Int
    <3> HIDE DEF Col
    <3> QED
      BY <2>1, SumIsInteger, Zenon
  <2> QED
    BY <2>2
<1>4. ASSUME NEW U \in SUBSET S, \A x \in U : U \ {x} \in P
      PROVE  U \in P
  <2>1. CASE U = {}
    <3> DEFINE none == part({})
    <3>1. \A y \in T : none[y] = 0 * none[y] /\ none[y] \in Int
      BY SumOfNone
    <3> HIDE DEF none
    <3>2. SumFunctionOnSet(none, T) = 0 * SumFunctionOnSet(none, T)
      BY <3>1, SumScaled
    <3>3. SumFunctionOnSet(none, T) \in Int
      BY <3>1, SumIsInteger, Zenon
    <3>4. SumFunctionOnSet(none, T) = 0
      BY <3>2, <3>3
    <3> QED
      BY <2>1, <3>4, SumOfNone DEF none
  <2>2. CASE U # {}
    <3>1. PICK x \in U : TRUE
      BY <2>2
    <3> DEFINE R == U \ {x}
    <3>2. SumFunctionOnSet(rows, R) = SumFunctionOnSet(part(R), T)
      BY <1>4
    <3>3. IsFiniteSet(U) /\ \A z \in U : rows[z] \in Int
      BY <1>1, FS_Subset
    <3>4. SumFunctionOnSet(rows, U) = rows[x] + SumFunctionOnSet(rows, R)
      BY <3>3, SumSplit, Zenon
    <3>5. \A y \in T : part(U)[y] = Row(x)[y] + part(R)[y]
      <4> TAKE y \in T
      <4>1. \A z \in U : Col(y)[z] \in Int
        BY <1>2
      <4>2. SumFunctionOnSet(Col(y), U) = Col(y)[x] + SumFunctionOnSet(Col(y), R)
        <5> HIDE DEF Col
        <5> QED
          BY <3>3, <4>1, SumSplit, Zenon
      <4> QED
        BY <4>2
    <3> DEFINE all == part(U)
               rest == part(R)
               row == Row(x)
    <3>6. /\ \A y \in T : rest[y] \in Int /\ row[y] \in Int /\ all[y] = row[y] + rest[y]
          /\ rows[x] = SumFunctionOnSet(row, T)
      BY <1>a, <1>1, <1>3, <3>5
    <3>7. SumFunctionOnSet(rows, R) = SumFunctionOnSet(rest, T)
      BY <3>2
    <3> HIDE DEF all, rest, row, R
    <3>8. SumFunctionOnSet(all, T) = SumFunctionOnSet(row, T) + SumFunctionOnSet(rest, T)
      BY <3>6, SumOfSums, Zenon
    <3>9. SumFunctionOnSet(rows, U) = SumFunctionOnSet(all, T)
      BY <3>4, <3>6, <3>7, <3>8
    <3> QED
      BY <3>9 DEF all
  <2> QED
    BY <2>1, <2>2
<1>5. SUBSET S \subseteq P
  <2> HIDE DEF P
  <2> QED
    BY <1>4, SubsetInduction
<1>6. SumFunctionOnSet(rows, S) = SumFunctionOnSet(part(S), T)
  BY <1>5
<1>7. \A y \in T : cols[y] = part(S)[y] /\ part(S)[y] \in Int
  BY <1>a, <1>3
<1> DEFINE whole == part(S)
<1>8. /\ \A y \in T : cols[y] = whole[y] /\ whole[y] \in Int
      /\ SumFunctionOnSet(rows, S) = SumFunctionOnSet(whole, T)
  BY <1>6, <1>7
<1> HIDE DEF whole, part
<1>9. SumFunctionOnSet(cols, T) = SumFunctionOnSet(whole, T)
  BY <1>8, SumsEqual, Zenon
<1> QED
  BY <1>8, <1>9

(* The terms may be numbered otherwise.                                    *)
Renumbers(to, S, T) ==
  /\ \A x \in S : to[x] \in T
  /\ \A x, y \in S : to[x] = to[y] => x = y
  /\ \A z \in T : \E x \in S : to[x] = z

(* A bijection onto T leaves the sum as it is.                             *)
LEMMA SumReindexed ==
  ASSUME NEW S, IsFiniteSet(S), NEW T, NEW to, Renumbers(to, S, T),
         NEW g, \A z \in T : g[z] \in Int,
         NEW f, \A x \in S : f[x] = g[to[x]]
  PROVE  SumFunctionOnSet(f, S) = SumFunctionOnSet(g, T)
<1> DEFINE Image(U) == {to[x] : x \in U}
           P == {U \in SUBSET S : /\ IsFiniteSet(Image(U))
                                  /\ SumFunctionOnSet(f, U) = SumFunctionOnSet(g, Image(U))}
<1>a. /\ \A x \in S : to[x] \in T
      /\ \A x, y \in S : to[x] = to[y] => x = y
      /\ \A z \in T : \E x \in S : to[x] = z
  BY DEF Renumbers
<1>1. ASSUME NEW U \in SUBSET S, \A x \in U : U \ {x} \in P
      PROVE  U \in P
  <2>1. CASE U = {}
    <3>1. Image(U) = {}
      BY <2>1
    <3> QED
      BY <2>1, <3>1, SumOfNone, FS_EmptySet
  <2>2. CASE U # {}
    <3>1. PICK x \in U : TRUE
      BY <2>2
    <3> DEFINE R == U \ {x}
               I == Image(U)
               J == Image(R)
               z == to[x]
    <3>2. J = I \ {z} /\ z \in I /\ I = J \cup {z} /\ I \subseteq T
      BY <1>a
    <3>3. IsFiniteSet(J) /\ SumFunctionOnSet(f, R) = SumFunctionOnSet(g, J)
      BY <1>1
    <3>4. IsFiniteSet(U) /\ \A y \in U : f[y] \in Int
      BY <1>a, FS_Subset
    <3>5. f[x] = g[z]
      OBVIOUS
    <3> HIDE DEF I, J, z, Image
    <3>6. IsFiniteSet(I) /\ \A w \in I : g[w] \in Int
      <4>1. IsFiniteSet(J \cup {z})
        BY <3>3, FS_AddElement, Zenon
      <4> QED
        BY <3>2, <4>1
    <3>7. SumFunctionOnSet(f, U) = f[x] + SumFunctionOnSet(f, R)
      BY <3>4, SumSplit, Zenon
    <3>8. SumFunctionOnSet(g, I) = g[z] + SumFunctionOnSet(g, I \ {z})
      BY <3>2, <3>6, SumSplit, Zenon
    <3>9. SumFunctionOnSet(f, U) = SumFunctionOnSet(g, I)
      BY <3>2, <3>3, <3>5, <3>7, <3>8
    <3> QED
      BY <3>6, <3>9 DEF I
  <2> QED
    BY <2>1, <2>2
<1>2. SUBSET S \subseteq P
  <2> HIDE DEF P
  <2> QED
    BY <1>1, SubsetInduction
<1>3. Image(S) = T
  BY <1>a
<1> QED
  BY <1>2, <1>3
(* A sum of differences is the difference of its ends.                     *)
LEMMA SumTelescopes ==
  ASSUME NEW lo \in Nat, NEW hi \in Nat, lo <= hi,
         NEW c, \A k \in lo..hi : c[k] \in Int,
         NEW f, \A k \in lo..(hi - 1) : f[k] = c[k + 1] - c[k]
  PROVE  SumFunctionOnSet(f, lo..(hi - 1)) = c[hi] - c[lo]
<1> DEFINE Good(m) == lo + m <= hi =>
                        SumFunctionOnSet(f, lo..(lo + m - 1)) = c[lo + m] - c[lo]
           S == {m \in Nat : Good(m)}
<1>1. 0 \in S
  <2>1. lo..(lo + 0 - 1) = {} /\ c[lo + 0] = c[lo] /\ c[lo] \in Int
    OBVIOUS
  <2>2. Good(0)
    BY <2>1, SumOfNone
  <2> HIDE DEF Good
  <2> QED
    BY <2>2
<1>2. ASSUME NEW m \in Nat, m \in S PROVE m + 1 \in S
  <2> SUFFICES ASSUME lo + (m + 1) <= hi
               PROVE  SumFunctionOnSet(f, lo..(lo + (m + 1) - 1)) = c[lo + (m + 1)] - c[lo]
    OBVIOUS
  <2> DEFINE x == lo + m
             T == lo..x
  <2>1. x \in T /\ T \ {x} = lo..(lo + m - 1) /\ lo..(lo + (m + 1) - 1) = T
    OBVIOUS
  <2>2. \A k \in T : k \in lo..(hi - 1) /\ k \in lo..hi /\ k + 1 \in lo..hi
    OBVIOUS
  <2>3. \A k \in T : f[k] \in Int
    <3> TAKE k \in T
    <3>1. c[k] \in Int /\ c[k + 1] \in Int /\ f[k] = c[k + 1] - c[k]
      BY <2>2
    <3> QED
      BY <3>1
  <2>4. IsFiniteSet(T)
    BY FS_Interval
  <2> HIDE DEF T
  <2>5. SumFunctionOnSet(f, T) = f[x] + SumFunctionOnSet(f, T \ {x})
    BY <2>1, <2>3, <2>4, SumSplit, ZenonT(60)
  <2>6. SumFunctionOnSet(f, T \ {x}) = c[x] - c[lo]
    <3>1. Good(m) /\ lo + m <= hi
      BY <1>2
    <3>2. SumFunctionOnSet(f, lo..(lo + m - 1)) = c[x] - c[lo]
      BY <3>1
    <3> QED
      BY <2>1, <3>2, Zenon
  <2>7. f[x] = c[x + 1] - c[x] /\ c[x + 1] \in Int /\ c[x] \in Int /\ c[lo] \in Int
    BY <2>1, <2>2
  <2>8. x + 1 = lo + (m + 1)
    OBVIOUS
  <2> HIDE DEF x
  <2> QED
    BY <2>1, <2>5, <2>6, <2>7, <2>8
<1>3. Nat \subseteq S
  <2> HIDE DEF S
  <2> QED
    BY <1>1, <1>2, NaturalInduction
<1>4. hi - lo \in Nat /\ lo + (hi - lo) = hi
  OBVIOUS
<1>5. Good(hi - lo)
  BY <1>3, <1>4
<1> QED
  BY <1>4, <1>5

(* What is zero outside a part adds up to the sum over the part.           *)
LEMMA SumOfPart ==
  ASSUME NEW S, IsFiniteSet(S), NEW T \in SUBSET S, NEW f, \A x \in S : f[x] \in Int,
         \A x \in S \ T : f[x] = 0
  PROVE  SumFunctionOnSet(f, S) = SumFunctionOnSet(f, T)
<1> DEFINE Good(U) == SumFunctionOnSet(f, U) = SumFunctionOnSet(f, U \cap T)
           P == {U \in SUBSET S : Good(U)}
<1>1. ASSUME NEW U \in SUBSET S, \A x \in U : U \ {x} \in P
      PROVE  U \in P
  <2>1. CASE U \subseteq T
    <3>1. U \cap T = U
      BY <2>1
    <3>2. Good(U)
      BY <3>1
    <3> HIDE DEF Good
    <3> QED
      BY <3>2
  <2>2. CASE ~ (U \subseteq T)
    <3>1. PICK x \in U : x \notin T
      BY <2>2
    <3>2. f[x] = 0 /\ (U \ {x}) \cap T = U \cap T
      BY <3>1
    <3>3. Good(U \ {x})
      BY <1>1
    <3>4. IsFiniteSet(U) /\ IsFiniteSet(U \ {x}) /\ \A y \in U : f[y] \in Int
      BY FS_Subset
    <3>5. SumFunctionOnSet(f, U) = f[x] + SumFunctionOnSet(f, U \ {x})
      BY <3>4, SumSplit, Zenon
    <3>6. SumFunctionOnSet(f, U \ {x}) \in Int
      BY <3>4, SumIsInteger, Zenon
    <3> DEFINE Rest == U \ {x}
    <3>8. SumFunctionOnSet(f, Rest) = SumFunctionOnSet(f, U \cap T)
      BY <3>2, <3>3
    <3> HIDE DEF Rest
    <3>7. Good(U)
      BY <3>2, <3>5, <3>6, <3>8 DEF Rest
    <3> HIDE DEF Good
    <3> QED
      BY <3>7
  <2> QED
    BY <2>1, <2>2
<1>2. SUBSET S \subseteq P
  <2> HIDE DEF P
  <2> QED
    BY <1>1, SubsetInduction
<1>3. Good(S) /\ S \cap T = T
  BY <1>2
<1> QED
  BY <1>3
-----------------------------------------------------------------------------
(* Folds over a sequence, from the left: the function that MapThenFoldSet  *)
(* builds passes through the values of a run of the step.                  *)
Largest(last, n) == \A T \in SUBSET (1..n) : T # {} => last[T] \in T /\ \A x \in T : x <= last[T]
Follows(iter, n, V, last, step, base) ==
  /\ iter[{}] = base
  /\ \A T \in SUBSET (1..n) : T # {} /\ iter[T \ {last[T]}] \in V =>
       iter[T] = step[<< iter[T \ {last[T]}], last[T] >>]
Stays(step, V, n) == \A v \in V, k \in 1..n : step[<< v, k >>] \in V
IsRun(run, n, V, step, base, result) ==
  /\ run \in [0..n -> V] /\ run[0] = base /\ run[n] = result
  /\ \A k \in 1..n : run[k] = step[<< run[k - 1], k >>]

(* What Max chooses.                                                       *)
LEMMA LargestIsMax ==
  ASSUME NEW n \in Nat, NEW T \in SUBSET (1..n), T # {}
  PROVE  \E x \in T : \A y \in T : x >= y
<1> DEFINE P == {U \in SUBSET (1..n) : U # {} => \E x \in U : \A y \in U : x >= y}
<1>1. ASSUME NEW U \in SUBSET (1..n), \A x \in U : U \ {x} \in P
      PROVE  U \in P
  <2>1. CASE U = {}
    BY <2>1
  <2>2. CASE U # {}
    <3>1. PICK z \in U : TRUE
      BY <2>2
    <3>2. CASE U \ {z} = {}
      BY <3>2
    <3>3. CASE U \ {z} # {}
      <4>1. PICK x \in U \ {z} : \A y \in U \ {z} : x >= y
        BY <1>1, <3>3
      <4>2. CASE x >= z
        BY <4>1, <4>2
      <4>3. CASE ~(x >= z)
        BY <4>1, <4>3
      <4> QED
        BY <4>2, <4>3
    <3> QED
      BY <3>2, <3>3
  <2> QED
    BY <2>1, <2>2
<1>2. SUBSET (1..n) \subseteq P
  <2>1. IsFiniteSet(1..n)
    BY FS_Interval
  <2> HIDE DEF P
  <2> QED
    BY <1>1, <2>1, SubsetInduction, ZenonT(60)
<1> QED
  BY <1>2

(* The recursion of a left fold, on 1..n and its greatest elements, has a  *)
(* solution.                                                               *)
LEMMA FoldExists ==
  ASSUME NEW n \in Nat, NEW V, NEW base \in V, NEW last, Largest(last, n), NEW step,
         Stays(step, V, n)
  PROVE  \E iter \in [SUBSET (1..n) -> V] : Solves(iter, 1..n, last, step, base)
<1>1. IsFiniteSet(1..n)
  BY FS_Interval
<1>2. \A T \in SUBSET (1..n) : T # {} => last[T] \in T
  BY DEF Largest
<1> QED
  BY <1>1, <1>2, RecursionOnSubsets, Zenon DEF Stays

(* Its value at 1..n is where a run of n steps ends.                       *)
LEMMA FoldRuns ==
  ASSUME NEW n \in Nat, NEW V, NEW base \in V, NEW last, Largest(last, n), NEW step,
         Stays(step, V, n),
         NEW iter, Follows(iter, n, V, last, step, base)
  PROVE  \E run : IsRun(run, n, V, step, base, iter[1..n])
<1> DEFINE run == [k \in 0..n |-> iter[1..k]]
           P == {k \in Nat : k <= n => iter[1..k] \in V}
<1>1. ASSUME NEW k \in 1..n, iter[1..(k - 1)] \in V
      PROVE  iter[1..k] = step[<< iter[1..(k - 1)], k >>]
  <2>1. last[1..k] = k
    <3>1. 1..k \in SUBSET (1..n) /\ k \in 1..k
      OBVIOUS
    <3>2. last[1..k] \in 1..k /\ k <= last[1..k]
      BY <3>1 DEF Largest
    <3> QED
      BY <3>2
  <2>2. (1..k) \ {k} = 1..(k - 1)
    OBVIOUS
  <2>3. 1..k \in SUBSET (1..n) /\ 1..k # {}
    OBVIOUS
  <2> QED
    BY <1>1, <2>1, <2>2, <2>3 DEF Follows
<1>2. iter[1..0] = base
  <2>1. 1..0 = {}
    OBVIOUS
  <2> QED
    BY <2>1 DEF Follows
<1>3. 0 \in P
  BY <1>2
<1>4. ASSUME NEW k \in Nat, k \in P
      PROVE  k + 1 \in P
  <2> SUFFICES ASSUME k + 1 <= n PROVE iter[1..(k + 1)] \in V
    OBVIOUS
  <2>1. k + 1 \in 1..n /\ (k + 1) - 1 = k /\ iter[1..k] \in V
    BY <1>4
  <2>2. iter[1..(k + 1)] = step[<< iter[1..k], k + 1 >>]
    BY <1>1, <2>1
  <2> QED
    BY <2>1, <2>2 DEF Stays
<1>5. Nat \subseteq P
  <2> HIDE DEF P
  <2> QED
    BY <1>3, <1>4, NaturalInduction
<1>6. \A k \in 0..n : iter[1..k] \in V
  BY <1>5
<1>7. \A k \in 1..n : run[k] = step[<< run[k - 1], k >>]
  <2> TAKE k \in 1..n
  <2>1. k - 1 \in 0..n
    OBVIOUS
  <2> QED
    BY <1>1, <1>6, <2>1
<1>8. run \in [0..n -> V] /\ run[0] = base /\ run[n] = iter[1..n]
  BY <1>2, <1>6
<1> HIDE DEF run
<1> QED
  BY <1>7, <1>8 DEF IsRun
-----------------------------------------------------------------------------
(* Congruences, and division by a positive number.                         *)
LEMMA Division ==
  ASSUME NEW m \in Nat, m > 0, NEW a \in Int
  PROVE  a = m * (a \div m) + (a % m) /\ a % m \in 0..(m - 1) /\ a \div m \in Int
BY SMTT(30)

(* Quotient and remainder are what they are built from.                    *)
LEMMA DivisionUnique ==
  ASSUME NEW m \in Nat, m > 0, NEW q \in Int, NEW r \in 0..(m - 1)
  PROVE  (m * q + r) % m = r /\ (m * q + r) \div m = q
BY SMTT(30)

(* A quotient is below what its dividend is below.                         *)
LEMMA QuotientBelow ==
  ASSUME NEW i \in Nat, NEW a \in Nat, a > 0, NEW b \in Nat
  PROVE  /\ i \div a \in Nat /\ (i < a * b => i \div a < b) /\ (i >= a => i \div a >= 1)
         /\ i % a \in Nat /\ (i < a => i % a = i)
<1> DEFINE q == i \div a
           r == i % a
<1>1. i = a * q + r /\ r \in 0..(a - 1) /\ q \in Int
  BY Division
<1> HIDE DEF q, r
<1>2. q \in Nat
  <2>1. \A x \in Int : x < 0 => a * x <= -a
    OBVIOUS
  <2> QED
    BY <1>1, <2>1
<1>3. i < a * b => q < b
  <2>1. q >= b => a * q >= a * b
    BY <1>2
  <2> QED
    BY <1>1, <1>2, <2>1
<1>4. i >= a => q >= 1
  BY <1>1, <1>2
<1>5. i < a => r = i
  <2>1. q >= 1 => a * q >= a
    BY <1>2
  <2>2. q = 0 => a * q = 0
    OBVIOUS
  <2> QED
    BY <1>1, <1>2, <2>1, <2>2
<1> QED
  BY <1>1, <1>2, <1>3, <1>4, <1>5 DEF q, r

(* Congruence is transitive.                                               *)
LEMMA CongruentTransitive ==
  ASSUME NEW m \in Int, NEW a, NEW b, NEW c \in Int, Congruent(a, b, m), Congruent(b, c, m)
  PROVE  Congruent(a, c, m)
<1>1. PICK j \in Int : a = b + m * j
  BY DEF Congruent
<1>2. PICK k \in Int : b = c + m * k
  BY DEF Congruent
<1>3. a = c + m * (j + k) /\ j + k \in Int
  BY <1>1, <1>2
<1> QED
  BY <1>3 DEF Congruent

(* Sums of congruent numbers are congruent.                                *)
LEMMA CongruentSums ==
  ASSUME NEW m \in Int, NEW a \in Int, NEW b \in Int, Congruent(a, b, m),
         NEW c \in Int, NEW d \in Int, Congruent(c, d, m)
  PROVE  Congruent(a + c, b + d, m)
<1>1. PICK j \in Int : a = b + m * j
  BY DEF Congruent
<1>2. PICK k \in Int : c = d + m * k
  BY DEF Congruent
<1>3. a + c = (b + d) + m * (j + k) /\ j + k \in Int
  BY <1>1, <1>2
<1> QED
  BY <1>3 DEF Congruent

(* Negations of congruent numbers are congruent.                           *)
LEMMA CongruentNegations ==
  ASSUME NEW m \in Int, NEW a \in Int, NEW b \in Int, Congruent(a, b, m)
  PROVE  Congruent(-a, -b, m)
<1>1. PICK j \in Int : a = b + m * j
  BY DEF Congruent
<1>2. -a = -b + m * (-j) /\ -j \in Int
  BY <1>1
<1> QED
  BY <1>2 DEF Congruent

(* Products of congruent numbers are congruent.                            *)
LEMMA CongruentProducts ==
  ASSUME NEW m \in Int, NEW a \in Int, NEW b \in Int, Congruent(a, b, m),
         NEW c \in Int, NEW d \in Int, Congruent(c, d, m)
  PROVE  Congruent(a * c, b * d, m)
<1>1. PICK j \in Int : a = b + m * j
  BY DEF Congruent
<1>2. PICK k \in Int : c = d + m * k
  BY DEF Congruent
<1>3. (b + m * j) * (d + m * k) = (b * d) + m * ((j * d) + (k * b) + (m * j * k))
  OBVIOUS
<1>4. (j * d) + (k * b) + (m * j * k) \in Int
  OBVIOUS
<1>5. a * c = (b * d) + m * ((j * d) + (k * b) + (m * j * k))
  BY <1>1, <1>2, <1>3
<1> QED
  BY <1>4, <1>5 DEF Congruent

(* Congruent numbers leave the same remainder.                             *)
LEMMA CongruentRemainders ==
  ASSUME NEW m \in Nat, m > 0, NEW a \in Int, NEW b \in Int, Congruent(a, b, m)
  PROVE  a % m = b % m
<1>1. PICK k \in Int : a = b + m * k
  BY DEF Congruent
<1> DEFINE q == b \div m
           r == b % m
<1>2. b = m * q + r /\ r \in 0..(m - 1) /\ q \in Int
  BY Division
<1> HIDE DEF q, r
<1>3. a = m * (q + k) + r /\ q + k \in Int
  BY <1>1, <1>2
<1>4. a % m = r /\ b % m = r
  BY <1>2, <1>3, DivisionUnique
<1> QED
  BY <1>4

(* A number is congruent to what it leaves.                                *)
LEMMA RemainderCongruent ==
  ASSUME NEW m \in Nat, m > 0, NEW a \in Int
  PROVE  Congruent(a % m, a, m) /\ Congruent(a, a % m, m)
<1> DEFINE q == a \div m
           r == a % m
<1>1. a = m * q + r /\ r \in 0..(m - 1) /\ q \in Int
  BY Division
<1> HIDE DEF q, r
<1>2. r = a + m * (-q) /\ -q \in Int
  BY <1>1
<1> QED
  BY <1>1, <1>2 DEF Congruent, r
-----------------------------------------------------------------------------
(* The limbs of a field element.                                           *)
Vectors == [Limb -> Int]

(* What the assumption says of the constants, in the form the proofs use.  *)
LEMMA LimbFacts ==
  /\ N \in Nat /\ N >= 2 /\ N % 2 = 0 /\ W \in Nat /\ W >= 1 /\ C \in Nat /\ C >= 1
  /\ IsFiniteSet(Limb) /\ 0 \in Limb /\ N - 1 \in Limb
<1>1. N \in Nat /\ N >= 1 /\ N % 2 = 0 /\ W \in Nat /\ W >= 1 /\ C \in Nat /\ C >= 1
  BY LimbsAssumption
<1>2. IsFiniteSet(0..(N - 1))
  BY <1>1, FS_Interval
<1> QED
  BY <1>1, <1>2 DEF Limb

(* The limbs lie side by side: each begins where the one below it ends.    *)
LEMMA Positions ==
  /\ Pos(0) = 0
  /\ \A i \in 0..N : Pos(i) \in Nat
  /\ \A i \in Limb : Width(i) \in Nat /\ Width(i) >= 1 /\ Pos(i + 1) = Pos(i) + Width(i)
  /\ K \in Nat
<1>1. \A i \in Limb : Width(i) \in Nat /\ Width(i) >= 1
  BY LimbFacts DEF Width
<1>2. \A i \in Nat : (i + 1) \div 2 \in Nat
  OBVIOUS
<1>3. \A i \in Nat : W * i \in Nat
  BY LimbFacts
<1>4. \A i \in 0..N : Pos(i) \in Nat
  BY <1>2, <1>3, LimbFacts DEF Pos
<1>5. ASSUME NEW i \in Limb
      PROVE  Pos(i + 1) = Pos(i) + Width(i)
  <2>1. i \in Nat
    BY LimbFacts DEF Limb
  <2>2. W * (i + 1) = W * i + W
    BY <2>1, LimbFacts
  <2>3. CASE i % 2 = 0
    <3>1. ((i + 1) + 1) \div 2 = ((i + 1) \div 2) + 1
      BY <2>1, <2>3
    <3> QED
      BY <2>1, <2>2, <2>3, <3>1, <1>2, <1>3, LimbFacts DEF Pos, Width
  <2>4. CASE i % 2 # 0
    <3>1. ((i + 1) + 1) \div 2 = ((i + 1) \div 2)
      BY <2>1, <2>4
    <3> QED
      BY <2>1, <2>2, <2>4, <3>1, <1>2, <1>3, LimbFacts DEF Pos, Width
  <2> QED
    BY <2>3, <2>4
<1>6. Pos(0) = 0
  BY LimbFacts DEF Pos
<1> QED
  BY <1>1, <1>4, <1>5, <1>6, LimbFacts DEF K

(* The weights of the limbs and the sizes of their carries.                *)
LEMMA Weights ==
  /\ \A i \in 0..N : 2^Pos(i) \in Nat /\ 2^Pos(i) > 0
  /\ \A i \in Limb : 2^Pos(i + 1) = 2^Pos(i) * 2^Width(i)
  /\ \A i \in Limb : 2^Width(i) \in Nat /\ 2^Width(i) > 0
  /\ \A i \in Limb : 2^(Width(i) - 1) \in Nat
  /\ 2^Pos(0) = 1
<1>1. \A i \in Limb : i \in 0..N
  BY LimbFacts DEF Limb
<1>2. \A i \in Limb : 2^Pos(i + 1) = 2^Pos(i) * 2^Width(i)
  BY <1>1, Positions, PowerSum
<1>3. 2^0 = 1
  BY SMT
<1>4. \A i \in 0..N : 2^Pos(i) \in Nat /\ 2^Pos(i) > 0
  BY Positions, PowerPositive
<1>5. \A i \in Limb : Width(i) \in Nat /\ Width(i) - 1 \in Nat
  BY Positions
<1>6. \A i \in Limb : 2^Width(i) \in Nat /\ 2^Width(i) > 0 /\ 2^(Width(i) - 1) \in Nat
  BY <1>5, PowerPositive
<1> QED
  BY <1>2, <1>3, <1>4, <1>6, Positions

(* 2^K - C is positive.                                                    *)
LEMMA Modulus ==
  p \in Nat /\ p > 0 /\ 2^K = p + C
<1>1. W - 1 \in Nat /\ K - (W - 1) \in Nat
  <2>1. W * N >= W /\ (N + 1) \div 2 >= 0 /\ W * N \in Nat
    BY LimbFacts
  <2> QED
    BY <2>1, LimbFacts DEF K, Pos
<1>2. 2^K = 2^(W - 1) * 2^(K - (W - 1))
  <2>1. K = (W - 1) + (K - (W - 1))
    BY Positions, LimbFacts
  <2> QED
    BY <1>1, <2>1, PowerSum
<1>3. 2^(W - 1) \in Nat /\ 2^(K - (W - 1)) \in Nat /\ 2^(K - (W - 1)) >= 1
  BY <1>1, PowerPositive
<1>4. \A a, b \in Nat : b >= 1 => a * b >= a
  OBVIOUS
<1>5. 2^K >= 2^(W - 1)
  BY <1>2, <1>3, <1>4
<1>6. 2^K \in Nat /\ 4 * C < 2^(W - 1)
  BY Positions, PowerPositive, LimbsAssumption
<1> QED
  BY <1>3, <1>5, <1>6, LimbFacts DEF p
-----------------------------------------------------------------------------
(* What a vector stands for.                                               *)
Terms(f) == [i \in Limb |-> f[i] * 2^Pos(i)]

(* The integer a vector stands for is a sum over its limbs.                *)
LEMMA IntegerIsSum ==
  ASSUME NEW f \in Vectors
  PROVE  /\ \A i \in Limb : Terms(f)[i] \in Int
         /\ Integer(f) = SumFunctionOnSet(Terms(f), Limb)
         /\ Integer(f) \in Int
<1>1. \A i \in Limb : i \in 0..N
  BY LimbFacts DEF Limb
<1>2. \A i \in Limb : f[i] * 2^Pos(i) \in Int
  BY <1>1, Weights DEF Vectors
<1>3. \A i \in Limb : Terms(f)[i] \in Int
  BY <1>2 DEF Terms
<1>4. Integer(f) = SumFunctionOnSet(Terms(f), Limb)
  <2>1. DOMAIN Terms(f) = Limb
    BY DEF Terms
  <2>2. Integer(f) = SumFunction(Terms(f))
    BY DEF Integer, Terms
  <2> QED
    BY <2>1, <2>2, Zenon DEF SumFunction
<1> QED
  BY <1>3, <1>4, LimbFacts, SumIsInteger, Zenon

(* fe_add: limb by limb, without carries, adds the integers.               *)
LEMMA AddExact ==
  ASSUME NEW f \in Vectors, NEW g \in Vectors
  PROVE  fe_add(f, g) \in Vectors /\ Integer(fe_add(f, g)) = Integer(f) + Integer(g)
<1>1. fe_add(f, g) \in Vectors
  BY DEF fe_add, Vectors
<1>2. \A i \in Limb : i \in 0..N
  BY LimbFacts DEF Limb
<1>3. \A i \in Limb : Terms(fe_add(f, g))[i] = Terms(f)[i] + Terms(g)[i]
  BY <1>2, Weights DEF Terms, fe_add, Vectors
<1>4. SumFunctionOnSet(Terms(fe_add(f, g)), Limb)
        = SumFunctionOnSet(Terms(f), Limb) + SumFunctionOnSet(Terms(g), Limb)
  BY <1>3, IntegerIsSum, LimbFacts, SumOfSums, Zenon
<1> QED
  BY <1>1, <1>4, IntegerIsSum

(* fe_neg negates the integer.                                             *)
LEMMA NegateExact ==
  ASSUME NEW f \in Vectors
  PROVE  fe_neg(f) \in Vectors /\ Integer(fe_neg(f)) = -Integer(f)
<1>1. fe_neg(f) \in Vectors
  BY DEF fe_neg, Vectors
<1>2. \A i \in Limb : i \in 0..N
  BY LimbFacts DEF Limb
<1>3. PICK m \in Int : m = -1
  OBVIOUS
<1>4. \A i \in Limb : Terms(fe_neg(f))[i] = m * Terms(f)[i]
  BY <1>2, <1>3, Weights DEF Terms, fe_neg, Vectors
<1>5. SumFunctionOnSet(Terms(fe_neg(f)), Limb) = m * SumFunctionOnSet(Terms(f), Limb)
  BY <1>4, IntegerIsSum, LimbFacts, SumScaled, Zenon
<1> QED
  BY <1>1, <1>3, <1>5, IntegerIsSum

(* fe_sub subtracts the integers.                                          *)
LEMMA SubtractExact ==
  ASSUME NEW f \in Vectors, NEW g \in Vectors
  PROVE  fe_sub(f, g) \in Vectors /\ Integer(fe_sub(f, g)) = Integer(f) - Integer(g)
<1>1. fe_neg(g) \in Vectors /\ Integer(fe_neg(g)) = -Integer(g)
  BY NegateExact
<1>2. fe_sub(f, g) = fe_add(f, fe_neg(g))
  BY DEF fe_sub, fe_add, fe_neg, Vectors
<1> QED
  BY <1>1, <1>2, AddExact, IntegerIsSum

(* fe_cmov copies g over f if the bit is set, and leaves f if not.         *)
LEMMA MoveExact ==
  ASSUME NEW f \in Vectors, NEW g \in Vectors, NEW b \in {0, 1}
  PROVE  fe_cmov(fe_copy(f), g, b) = IF b = 1 THEN g ELSE f
BY DEF fe_cmov, fe_copy, Vectors
-----------------------------------------------------------------------------
(* A carry leaves the element alone: what limb i loses, limb i + 1 gains,  *)
(* and what leaves the last limb comes back as C.                          *)
LEMMA CarryExact ==
  ASSUME NEW f \in Vectors, NEW i \in Limb
  PROVE  Carry(f, i) \in Vectors /\ Congruent(Integer(Carry(f, i)), Integer(f), p)
<1> DEFINE carry == (f[i] + 2^(Width(i) - 1)) \div 2^Width(i)
           next == (i + 1) % N
           gain == IF i = N - 1 THEN C * carry ELSE carry
           loss == [f EXCEPT ![i] = @ - carry * 2^Width(i)]
           g == Carry(f, i)
<1>1. carry \in Int
  <2>1. f[i] + 2^(Width(i) - 1) \in Int /\ 2^Width(i) \in Nat /\ 2^Width(i) > 0
    BY Weights DEF Vectors
  <2> HIDE DEF carry
  <2> QED
    BY <2>1, Division DEF carry
<1>2. i \in Nat /\ i < N /\ i \in 0..N
  BY LimbFacts DEF Limb
<1>3. next = (IF i = N - 1 THEN 0 ELSE i + 1) /\ next \in Limb /\ next # i
  <2>1. CASE i = N - 1
    <3>1. N * 1 + 0 = i + 1 /\ 0 \in 0..(N - 1) /\ 1 \in Int
      BY <2>1, LimbFacts
    <3>2. (N * 1 + 0) % N = 0
      BY <3>1, LimbFacts, DivisionUnique
    <3> QED
      BY <2>1, <3>1, <3>2, LimbFacts
  <2>2. CASE i # N - 1
    <3>1. N * 0 + (i + 1) = i + 1 /\ i + 1 \in 0..(N - 1) /\ 0 \in Int
      BY <1>2, <2>2, LimbFacts
    <3>2. (N * 0 + (i + 1)) % N = i + 1
      BY <3>1, LimbFacts, DivisionUnique
    <3> QED
      BY <2>2, <3>1, <3>2, LimbFacts DEF Limb
  <2> QED
    BY <2>1, <2>2
<1>4. gain \in Int
  BY <1>1, LimbFacts
<1>5. g = [f EXCEPT ![i] = f[i] - carry * 2^Width(i), ![next] = f[next] + gain]
  BY DEF Carry
<1> HIDE DEF carry, next, gain
<1>6. carry * 2^Width(i) \in Int
  BY <1>1, Weights
<1>7. loss \in Vectors /\ g \in Vectors
  BY <1>3, <1>4, <1>5, <1>6 DEF Vectors
<1>8. /\ \A j \in Limb : j # i => loss[j] = f[j]
      /\ loss[i] = f[i] - carry * 2^Width(i)
      /\ \A j \in Limb : j # next => g[j] = loss[j]
      /\ g[next] = loss[next] + gain
  BY <1>3, <1>5 DEF Vectors
<1> HIDE DEF g, loss
<1> DEFINE out == -((carry * 2^Width(i)) * 2^Pos(i))
           into == gain * 2^Pos(next)
<1>9. out \in Int /\ into \in Int
  <2>1. next \in 0..N
    BY <1>3, LimbFacts DEF Limb
  <2> QED
    BY <1>2, <1>4, <1>6, <2>1, Weights
<1>10. Integer(loss) = Integer(f) + out
  <2>1. \A j \in Limb \ {i} : Terms(loss)[j] = Terms(f)[j]
    BY <1>8 DEF Terms
  <2>2. Terms(loss)[i] = Terms(f)[i] + out
    <3>1. \A x, y, w \in Int : (x - y) * w = x * w + -(y * w)
      OBVIOUS
    <3>2. f[i] \in Int /\ 2^Pos(i) \in Int
      BY <1>2, Weights DEF Vectors
    <3> QED
      BY <1>6, <1>8, <3>1, <3>2 DEF Terms
  <2> HIDE DEF out
  <2> DEFINE old == Terms(f)
             new == Terms(loss)
  <2>3. /\ \A j \in Limb : old[j] \in Int
        /\ \A j \in Limb \ {i} : new[j] = old[j]
        /\ new[i] = old[i] + out
    BY <2>1, <2>2, IntegerIsSum
  <2> HIDE DEF old, new
  <2>4. SumFunctionOnSet(new, Limb) = SumFunctionOnSet(old, Limb) + out
    BY <1>9, <2>3, LimbFacts, SumUpdated
  <2> QED
    BY <1>7, <2>4, IntegerIsSum DEF old, new
<1>11. Integer(g) = Integer(loss) + into
  <2>1. \A j \in Limb \ {next} : Terms(g)[j] = Terms(loss)[j]
    BY <1>8 DEF Terms
  <2>2. Terms(g)[next] = Terms(loss)[next] + into
    <3>1. \A x, y, w \in Int : (x + y) * w = x * w + y * w
      OBVIOUS
    <3>2. loss[next] \in Int /\ 2^Pos(next) \in Int
      <4>1. next \in 0..N
        BY <1>3, LimbFacts DEF Limb
      <4> QED
        BY <1>3, <1>7, <4>1, Weights DEF Vectors
    <3> QED
      BY <1>3, <1>4, <1>8, <3>1, <3>2 DEF Terms
  <2> HIDE DEF into
  <2> DEFINE old == Terms(loss)
             new == Terms(g)
  <2>3. /\ \A j \in Limb : old[j] \in Int
        /\ \A j \in Limb \ {next} : new[j] = old[j]
        /\ new[next] = old[next] + into
    BY <1>7, <2>1, <2>2, IntegerIsSum
  <2> HIDE DEF old, new
  <2>4. next \in Limb
    BY <1>3
  <2>5. SumFunctionOnSet(new, Limb) = SumFunctionOnSet(old, Limb) + into
    BY <1>9, <2>3, <2>4, LimbFacts, SumUpdated
  <2> QED
    BY <1>7, <2>5, IntegerIsSum DEF old, new
<1>12. \E k \in Int : out + into = p * k
  <2>1. 2^Pos(i + 1) = 2^Pos(i) * 2^Width(i) /\ 2^Pos(i) \in Int /\ 2^Width(i) \in Int
    BY <1>2, Weights
  <2>2. out = -(carry * 2^Pos(i + 1))
    BY <1>1, <2>1
  <2>3. CASE i = N - 1
    <3>1. into = C * carry
      BY <1>1, <1>3, <2>3, Weights, LimbFacts DEF gain
    <3>2. 2^Pos(i + 1) = p + C
      <4>1. i + 1 = N
        BY <2>3, LimbFacts
      <4> QED
        BY <4>1, Modulus DEF K
    <3>3. out + into = p * (-carry) /\ -carry \in Int
      BY <1>1, <2>2, <3>1, <3>2, Modulus, LimbFacts
    <3> QED
      BY <3>3
  <2>4. CASE i # N - 1
    <3>1. into = carry * 2^Pos(i + 1)
      BY <1>3, <2>4 DEF gain
    <3>2. out + into = p * 0
      BY <1>9, <2>2, <3>1, Modulus
    <3> QED
      BY <3>2
  <2> QED
    BY <2>3, <2>4
<1>13. Integer(f) \in Int
  BY IntegerIsSum
<1> HIDE DEF out, into
<1> QED
  BY <1>7, <1>9, <1>10, <1>11, <1>12, <1>13 DEF Congruent, g

(* A chain of carries passes through the values of its steps.              *)
Chain(f, order) == FoldLeft(Carry, f, order)

(* The fold over the order of the carries is a run of carries.             *)
LEMMA CarryRuns ==
  ASSUME NEW V, NEW f \in V, NEW order \in Seq(Limb),
         \A g \in V, i \in Limb : Carry(g, i) \in V
  PROVE  \E run \in [0..Len(order) -> V] :
           /\ run[0] = f
           /\ run[Len(order)] = Chain(f, order)
           /\ \A k \in 1..Len(order) : run[k] = Carry(run[k - 1], order[k])
<1> DEFINE n == Len(order)
           last == [T \in SUBSET (1..n) |-> Max(T)]
           step == [vk \in V \X (1..n) |-> Carry(vk[1], order[vk[2]])]
           Folds(it) == it = [T \in SUBSET DOMAIN order |->
                          IF T = {} THEN f ELSE Carry(it[T \ {Max(T)}], order[Max(T)])]
<1>1. n \in Nat /\ DOMAIN order = 1..n /\ \A k \in 1..n : order[k] \in Limb
  OBVIOUS
<1>2. \A v \in V, k \in 1..n : step[<< v, k >>] = Carry(v, order[k]) /\ step[<< v, k >>] \in V
  BY <1>1
<1>3. \A T \in SUBSET (1..n) : last[T] = Max(T)
  OBVIOUS
<1>4. Largest(last, n)
  <2>1. \A T \in SUBSET (1..n) : T # {} => Max(T) \in T /\ \A x \in T : Max(T) >= x
    <3> TAKE T \in SUBSET (1..n)
    <3> HAVE T # {}
    <3>1. \E x \in T : \A y \in T : x >= y
      BY <1>1, LargestIsMax
    <3> QED
      BY <3>1 DEF Max
  <2>2. ASSUME NEW T \in SUBSET (1..n), T # {}
        PROVE  last[T] \in T /\ \A x \in T : x <= last[T]
    <3>1. last[T] \in T /\ \A x \in T : last[T] >= x
      BY <1>3, <2>1, <2>2
    <3>2. T \subseteq Int
      BY <1>1
    <3> QED
      BY <3>1, <3>2
  <2> HIDE DEF last
  <2> QED
    BY <2>2 DEF Largest
<1>b. Stays(step, V, n)
  BY <1>2 DEF Stays
<1> HIDE DEF n, step, last
<1>5. PICK it \in [SUBSET (1..n) -> V] : Solves(it, 1..n, last, step, f)
  BY <1>1, <1>b, <1>4, FoldExists, Zenon
<1>6. Folds(it)
  <2>1. ASSUME NEW T \in SUBSET (1..n), T # {}
        PROVE  it[T] = Carry(it[T \ {Max(T)}], order[Max(T)])
    <3>1. last[T] = Max(T) /\ last[T] \in 1..n
      BY <1>3, <1>4, <2>1 DEF Largest
    <3>2. it[T] = step[<< it[T \ {last[T]}], last[T] >>]
      BY <1>5, <2>1 DEF Solves
    <3>3. it[T \ {last[T]}] \in V
      OBVIOUS
    <3> QED
      BY <1>2, <3>1, <3>2, <3>3
  <2>2. it[{}] = f
    BY <1>5 DEF Solves
  <2>3. it = [T \in SUBSET (1..n) |-> it[T]]
    OBVIOUS
  <2>4. [T \in SUBSET (1..n) |-> it[T]]
          = [T \in SUBSET (1..n) |->
               IF T = {} THEN f ELSE Carry(it[T \ {Max(T)}], order[Max(T)])]
    BY <2>1, <2>2
  <2> QED
    BY <1>1, <2>3, <2>4, Zenon
<1>7. PICK iter : Folds(iter) /\ FoldLeft(Carry, f, order) = iter[DOMAIN order]
  <2>1. FoldLeft(Carry, f, order) = (CHOOSE i : Folds(i))[DOMAIN order]
    BY Zenon DEF FoldLeft, MapThenFoldSet
  <2> HIDE DEF Folds
  <2> QED
    BY <1>6, <2>1, Zenon
<1>8. Follows(iter, n, V, last, step, f)
  <2>1. iter[{}] = f
    BY <1>7
  <2>2. ASSUME NEW T \in SUBSET (1..n), T # {}, iter[T \ {last[T]}] \in V
        PROVE  iter[T] = step[<< iter[T \ {last[T]}], last[T] >>]
    <3>1. last[T] = Max(T) /\ last[T] \in 1..n
      BY <1>3, <1>4, <2>2 DEF Largest
    <3>2. iter[T] = Carry(iter[T \ {Max(T)}], order[Max(T)])
      BY <1>1, <1>7, <2>2
    <3> QED
      BY <1>2, <2>2, <3>1, <3>2
  <2> QED
    BY <2>1, <2>2 DEF Follows
<1>9. PICK run : IsRun(run, n, V, step, f, iter[1..n])
  BY <1>1, <1>b, <1>4, <1>8, FoldRuns, Zenon
<1>10. \A k \in 1..n : run[k] = Carry(run[k - 1], order[k])
  <2> TAKE k \in 1..n
  <2>1. run[k - 1] \in V
    BY <1>1, <1>9 DEF IsRun
  <2> QED
    BY <1>2, <1>9, <2>1 DEF IsRun
<1> QED
  BY <1>1, <1>7, <1>9, <1>10 DEF n, IsRun, Chain

(* No chain of carries changes the element, in whatever order it runs.     *)
LEMMA CarryChainExact ==
  ASSUME NEW f \in Vectors, NEW order \in Seq(Limb)
  PROVE  /\ Chain(f, order) \in Vectors
         /\ Congruent(Integer(Chain(f, order)), Integer(f), p)
<1> DEFINE V == {g \in Vectors : Congruent(Integer(g), Integer(f), p)}
<1>1. f \in V
  <2>1. Integer(f) = Integer(f) + p * 0
    BY IntegerIsSum, Modulus
  <2> QED
    BY <2>1 DEF Congruent
<1>2. \A g \in V, i \in Limb : Carry(g, i) \in V
  <2> TAKE g \in V, i \in Limb
  <2>1. Carry(g, i) \in Vectors /\ Congruent(Integer(Carry(g, i)), Integer(g), p)
    BY CarryExact
  <2>2. Congruent(Integer(g), Integer(f), p) /\ Integer(f) \in Int /\ p \in Int
    BY IntegerIsSum, Modulus
  <2>3. Congruent(Integer(Carry(g, i)), Integer(f), p)
    BY <2>1, <2>2, CongruentTransitive
  <2> QED
    BY <2>1, <2>3
<1> HIDE DEF V
<1>3. PICK run \in [0..Len(order) -> V] :
        /\ run[0] = f
        /\ run[Len(order)] = Chain(f, order)
        /\ \A k \in 1..Len(order) : run[k] = Carry(run[k - 1], order[k])
  BY <1>1, <1>2, CarryRuns
<1>4. Len(order) \in 0..Len(order)
  OBVIOUS
<1>5. Chain(f, order) \in V
  BY <1>3, <1>4
<1> QED
  BY <1>5 DEF V
-----------------------------------------------------------------------------
(* Products.  Term(f, g, i, j): what f_i g_j contributes to limb i + j, or *)
(* to limb i + j - N.                                                      *)
At(i, j) == IF i + j < N THEN i + j ELSE i + j - N
Term(f, g, i, j) == Doubled(i, j) * (IF i + j < N THEN 1 ELSE C) * f[i] * g[j]
Other(k, i) == IF i <= k THEN k - i ELSE k - i + N

(* Limbs i and j weigh as much as limb i + j, or twice that if both are    *)
(* odd; past the last limb they weigh 2^K more.                            *)
LEMMA DoublingExact ==
  ASSUME NEW i \in Limb, NEW j \in Limb
  PROVE  /\ Doubled(i, j) \in Nat
         /\ i + j < N => 2^Pos(i) * 2^Pos(j) = Doubled(i, j) * 2^Pos(i + j)
         /\ i + j >= N => 2^Pos(i) * 2^Pos(j) = Doubled(i, j) * (2^Pos(i + j - N) * 2^K)
<1>1. i \in Nat /\ j \in Nat /\ i < N /\ j < N /\ i \in 0..N /\ j \in 0..N
  BY LimbFacts DEF Limb
<1> DEFINE d == IF i % 2 = 1 /\ j % 2 = 1 THEN 1 ELSE 0
<1>2. Doubled(i, j) = 2^d
  <2>1. 2^0 = 1 /\ 2^1 = 2
    BY SMT
  <2> QED
    BY <2>1 DEF Doubled
<1>3. (i + 1) \div 2 + (j + 1) \div 2 = (i + j + 1) \div 2 + d
  BY <1>1
<1> HIDE DEF d
<1>d. d \in Nat
  BY DEF d
<1>4. W * i + W * j = W * (i + j) /\ W * i \in Nat /\ W * j \in Nat
  BY <1>1, LimbFacts
<1>5. Pos(i) + Pos(j) = d + Pos(i + j) /\ Pos(i + j) \in Nat
  <2>1. (i + 1) \div 2 \in Nat /\ (j + 1) \div 2 \in Nat /\ (i + j + 1) \div 2 \in Nat
    BY <1>1
  <2> QED
    BY <1>3, <1>4, <1>d, <2>1 DEF Pos
<1>6. 2^Pos(i) * 2^Pos(j) = 2^d * 2^Pos(i + j)
  <2>1. Pos(i) \in Nat /\ Pos(j) \in Nat
    BY <1>1, Positions
  <2>2. 2^(Pos(i) + Pos(j)) = 2^Pos(i) * 2^Pos(j)
    BY <2>1, PowerSum
  <2>3. 2^(d + Pos(i + j)) = 2^d * 2^Pos(i + j)
    BY <1>5, <1>d, PowerSum
  <2> QED
    BY <1>5, <2>2, <2>3
<1>7. ASSUME i + j >= N
      PROVE  2^Pos(i + j) = 2^Pos(i + j - N) * 2^K
  <2> DEFINE k == i + j - N
  <2>1. k \in 0..N /\ k \in Nat /\ i + j = k + N
    BY <1>1, <1>7, LimbFacts
  <2>2. (k + N + 1) \div 2 = (k + 1) \div 2 + (N + 1) \div 2
    BY <2>1, LimbFacts
  <2>3. W * (k + N) = W * k + W * N /\ W * k \in Nat /\ W * N \in Nat
    BY <2>1, LimbFacts
  <2> HIDE DEF k
  <2>4. Pos(k + N) = Pos(k) + K
    BY <2>1, <2>2, <2>3, LimbFacts DEF Pos, K
  <2>5. 2^Pos(k + N) = 2^Pos(k) * 2^K
    BY <2>1, <2>4, Positions, PowerSum
  <2> QED
    BY <2>1, <2>5 DEF k
<1> QED
  BY <1>2, <1>6, <1>7, <1>d, PowerPositive

(* For every limb k and i there is one j whose product with i goes to k.   *)
LEMMA OtherFacts ==
  ASSUME NEW k \in Limb, NEW i \in Limb
  PROVE  /\ Other(k, i) \in Limb /\ At(i, Other(k, i)) = k /\ Other(k, Other(k, i)) = i
         /\ i + Other(k, i) < N <=> i <= k
         /\ At(i, k) \in Limb /\ Other(At(i, k), i) = k /\ At(i, k) = At(k, i)
BY LimbFacts DEF Other, At, Limb

(* A term weighs, modulo p, what the two limbs it multiplies weigh.        *)
LEMMA TermExact ==
  ASSUME NEW f \in Vectors, NEW g \in Vectors, NEW i \in Limb, NEW j \in Limb
  PROVE  /\ Term(f, g, i, j) \in Int
         /\ Congruent(Term(f, g, i, j) * 2^Pos(At(i, j)), Terms(f)[i] * Terms(g)[j], p)
<1> DEFINE a == f[i]
           b == g[j]
           x == 2^Pos(i)
           y == 2^Pos(j)
           d == Doubled(i, j)
           z == 2^Pos(At(i, j))
<1>1. a \in Int /\ b \in Int /\ d \in Nat /\ x \in Nat /\ y \in Nat /\ z \in Nat
  <2>1. At(i, j) \in Limb
    BY OtherFacts
  <2>2. \A k \in Limb : 2^Pos(k) \in Nat
    BY Weights, LimbFacts DEF Limb
  <2> QED
    BY <2>1, <2>2, DoublingExact DEF Vectors
<1>2. Term(f, g, i, j) = d * (IF i + j < N THEN 1 ELSE C) * a * b
  BY DEF Term
<1>3. Terms(f)[i] * Terms(g)[j] = (a * x) * (b * y)
  BY DEF Terms
<1>4. i + j < N \/ i + j >= N
  BY LimbFacts DEF Limb
<1>5. ASSUME i + j < N
      PROVE  x * y = d * z
  BY <1>5, DoublingExact DEF At
<1>6. ASSUME i + j >= N
      PROVE  x * y = d * (z * (p + C)) /\ ~(i + j < N)
  BY <1>6, DoublingExact, Modulus, LimbFacts DEF At, Limb
<1> HIDE DEF a, b, x, y, d, z
<1>7. Term(f, g, i, j) \in Int
  <2>1. d * 1 * a * b \in Int /\ d * C * a * b \in Int
    BY <1>1, LimbFacts
  <2> QED
    BY <1>2, <2>1
<1>8. (a * x) * (b * y) = (a * b) * (x * y)
  BY <1>1
<1>9. CASE i + j < N
  <2>1. Term(f, g, i, j) * z = (d * 1 * a * b) * z
    BY <1>2, <1>9
  <2>2. (d * 1 * a * b) * z = (a * b) * (d * z)
    BY <1>1
  <2>3. (a * b) * (d * z) \in Int
    BY <1>1
  <2>4. Term(f, g, i, j) * z = Terms(f)[i] * Terms(g)[j] + p * 0
    BY <1>3, <1>5, <1>8, <1>9, <2>1, <2>2, <2>3, Modulus
  <2> QED
    BY <1>7, <2>4 DEF Congruent, z
<1>10. CASE i + j >= N
  <2> DEFINE m == (a * b) * (d * z)
  <2>1. Term(f, g, i, j) * z = (d * C * a * b) * z
    BY <1>2, <1>6, <1>10
  <2>2. (d * C * a * b) * z = C * m
    BY <1>1, LimbFacts
  <2>3. (a * b) * (d * (z * (p + C))) = (p + C) * m
    BY <1>1, LimbFacts, Modulus
  <2>4. m \in Int
    BY <1>1
  <2> HIDE DEF m
  <2>5. C * m = (p + C) * m + p * (-m)
    BY <2>4, LimbFacts, Modulus
  <2>6. Term(f, g, i, j) * z = Terms(f)[i] * Terms(g)[j] + p * (-m) /\ -m \in Int
    BY <1>3, <1>6, <1>8, <1>10, <2>1, <2>2, <2>3, <2>4, <2>5
  <2> QED
    BY <1>7, <2>6 DEF Congruent, z
<1> QED
  BY <1>4, <1>9, <1>10

(* h_k of fe_mul is the sum of the terms that go to k.                     *)
LEMMA MulProductsAreTerms ==
  ASSUME NEW f, NEW g, NEW k \in Limb
  PROVE  MulProducts(f, g)[k]
           = SumFunctionOnSet([i \in Limb |-> Term(f, g, i, Other(k, i))], Limb)
<1> DEFINE model == [i \in Limb |->
                       IF i <= k THEN Doubled(i, k - i) * f[i] * g[k - i]
                       ELSE Doubled(i, k - i + N) * C * f[i] * g[k - i + N]]
           terms == [i \in Limb |-> Term(f, g, i, Other(k, i))]
<1>1. MulProducts(f, g)[k] = SumFunction(model)
  BY DEF MulProducts
<1>2. SumFunction(model) = SumFunctionOnSet(model, Limb)
  <2>1. DOMAIN model = Limb
    OBVIOUS
  <2> HIDE DEF model
  <2> QED
    BY <2>1, Zenon DEF SumFunction
<1>3. model = terms
  <2>1. ASSUME NEW i \in Limb
        PROVE  model[i] = terms[i]
    <3>1. i + Other(k, i) < N <=> i <= k
      BY OtherFacts
    <3>2. \A d \in {1, 2} : d * 1 = d
      OBVIOUS
    <3>3. Doubled(i, Other(k, i)) \in {1, 2}
      BY DEF Doubled
    <3> QED
      BY <3>1, <3>2, <3>3 DEF Other, Term
  <2> QED
    BY <2>1
<1> QED
  BY <1>1, <1>2, <1>3

(* MulProducts(f, g) stands for the product: the sum over limbs k of sums  *)
(* over i is taken over i first, and in the row of i limb k is the place   *)
(* of f_i g_j.                                                             *)
LEMMA MulProductsExact ==
  ASSUME NEW f \in Vectors, NEW g \in Vectors
  PROVE  /\ MulProducts(f, g) \in Vectors
         /\ Congruent(Integer(MulProducts(f, g)), Integer(f) * Integer(g), p)
<1> DEFINE F == [ik \in Limb \X Limb |-> Term(f, g, ik[1], Other(ik[2], ik[1])) * 2^Pos(ik[2])]
           products == MulProducts(f, g)
           cols == Terms(products)
           rows == [i \in Limb |-> SumFunctionOnSet([k \in Limb |-> F[<< i, k >>]], Limb)]
           fi == Terms(f)
           gj == Terms(g)
<1>1. IsFiniteSet(Limb) /\ p \in Int /\ \A k \in Limb : 2^Pos(k) \in Int
  BY LimbFacts, Modulus, Weights DEF Limb
<1>2. \A i, k \in Limb : Term(f, g, i, Other(k, i)) \in Int /\ F[<< i, k >>] \in Int
  <2> TAKE i, k \in Limb
  <2>1. Term(f, g, i, Other(k, i)) \in Int
    BY OtherFacts, TermExact
  <2>2. F[<< i, k >>] = Term(f, g, i, Other(k, i)) * 2^Pos(k)
    OBVIOUS
  <2> QED
    BY <1>1, <2>1, <2>2
<1>3. \A i, k \in Limb : F[<< i, k >>] = Term(f, g, i, Other(k, i)) * 2^Pos(k)
  OBVIOUS
<1> HIDE DEF F
<1>4. ASSUME NEW k \in Limb
      PROVE  /\ products[k] \in Int
             /\ cols[k] = SumFunctionOnSet([i \in Limb |-> F[<< i, k >>]], Limb)
  <2> DEFINE t == [i \in Limb |-> Term(f, g, i, Other(k, i))]
             c == [i \in Limb |-> F[<< i, k >>]]
             w == 2^Pos(k)
  <2>1. products[k] = SumFunctionOnSet(t, Limb)
    BY MulProductsAreTerms
  <2>2. \A i \in Limb : t[i] \in Int /\ c[i] = w * t[i] /\ w \in Int
    BY <1>1, <1>2, <1>3
  <2>3. cols[k] = products[k] * w
    BY DEF Terms
  <2> HIDE DEF t, c, w
  <2>4. products[k] \in Int
    BY <1>1, <2>1, <2>2, SumIsInteger
  <2>w. w \in Int
    BY <1>1 DEF w
  <2>5. SumFunctionOnSet(c, Limb) = w * SumFunctionOnSet(t, Limb)
    BY <1>1, <2>w, <2>2, SumScaled
  <2>6. cols[k] = SumFunctionOnSet(c, Limb)
    BY <2>1, <2>3, <2>4, <2>5, <2>w
  <2> QED
    BY <2>4, <2>6 DEF c
<1>5. products \in Vectors
  BY <1>4 DEF Vectors, MulProducts
<1>6. Integer(products) = SumFunctionOnSet(cols, Limb)
  BY <1>5, IntegerIsSum
<1> HIDE DEF products, cols
<1>7. SumFunctionOnSet(rows, Limb) = SumFunctionOnSet(cols, Limb)
  <2>1. RowSums(rows, F, Limb, Limb)
    BY DEF RowSums
  <2>2. ColumnSums(cols, F, Limb, Limb)
    BY <1>4 DEF ColumnSums
  <2>3. IntegerTable(F, Limb, Limb)
    BY <1>2 DEF IntegerTable
  <2> HIDE DEF rows
  <2> QED
    BY <1>1, <2>1, <2>2, <2>3, SumExchanged, SMTT(60)
<1>8. /\ \A i \in Limb : fi[i] \in Int /\ gj[i] \in Int
      /\ Integer(f) = SumFunctionOnSet(fi, Limb) /\ Integer(f) \in Int
      /\ Integer(g) = SumFunctionOnSet(gj, Limb) /\ Integer(g) \in Int
  BY IntegerIsSum
<1>9. ASSUME NEW i \in Limb
      PROVE  rows[i] \in Int /\ Congruent(rows[i], Integer(g) * fi[i], p)
  <2> DEFINE row == [k \in Limb |-> F[<< i, k >>]]
             byJ == [j \in Limb |-> F[<< i, At(i, j) >>]]
             whole == [j \in Limb |-> fi[i] * gj[j]]
             to == [k \in Limb |-> Other(k, i)]
  <2>1. Renumbers(to, Limb, Limb)
    <3>1. \A k \in Limb : to[k] \in Limb /\ At(i, to[k]) = k
      BY OtherFacts
    <3>2. \A j \in Limb : At(i, j) \in Limb /\ to[At(i, j)] = j
      BY OtherFacts
    <3> HIDE DEF to
    <3> QED
      BY <3>1, <3>2 DEF Renumbers
  <2>2. /\ \A j \in Limb : byJ[j] \in Int
        /\ \A k \in Limb : row[k] = byJ[to[k]]
    BY <1>2, OtherFacts
  <2>3. rows[i] = SumFunctionOnSet(row, Limb)
    OBVIOUS
  <2>4. ASSUME NEW j \in Limb
        PROVE  byJ[j] \in Int /\ Congruent(byJ[j], whole[j], p) /\ whole[j] \in Int
    <3>1. byJ[j] = Term(f, g, i, j) * 2^Pos(At(i, j))
      BY <1>3, OtherFacts
    <3>2. Congruent(byJ[j], fi[i] * gj[j], p)
      BY <3>1, TermExact
    <3> QED
      BY <1>8, <2>2, <3>2
  <2>5. \A j \in Limb : whole[j] = fi[i] * gj[j]
    OBVIOUS
  <2> HIDE DEF row, byJ, whole, to, rows, fi, gj
  <2>6. SumFunctionOnSet(row, Limb) = SumFunctionOnSet(byJ, Limb)
    BY <1>1, <2>1, <2>2, SumReindexed
  <2>7. Congruent(SumFunctionOnSet(byJ, Limb), SumFunctionOnSet(whole, Limb), p)
    BY <1>1, <2>4, SumCongruent, Zenon
  <2>8. SumFunctionOnSet(whole, Limb) = fi[i] * SumFunctionOnSet(gj, Limb)
    BY <1>1, <1>8, <2>5, SumScaled, ZenonT(60)
  <2>9. rows[i] \in Int
    BY <1>1, <2>2, <2>3, <2>6, SumIsInteger
  <2>10. fi[i] * Integer(g) = Integer(g) * fi[i]
    BY <1>8
  <2> QED
    BY <1>8, <2>3, <2>6, <2>7, <2>8, <2>9, <2>10
<1> HIDE DEF rows, fi, gj
<1> DEFINE scaled == [i \in Limb |-> Integer(g) * fi[i]]
<1>10. \A i \in Limb : scaled[i] = Integer(g) * fi[i] /\ scaled[i] \in Int
  BY <1>8
<1>11. \A i \in Limb : rows[i] \in Int /\ Congruent(rows[i], scaled[i], p)
  BY <1>9, <1>10
<1> HIDE DEF scaled
<1>12. Congruent(SumFunctionOnSet(rows, Limb), SumFunctionOnSet(scaled, Limb), p)
  BY <1>1, <1>10, <1>11, SumCongruent, Zenon
<1>13. SumFunctionOnSet(scaled, Limb) = Integer(g) * SumFunctionOnSet(fi, Limb)
  BY <1>1, <1>8, <1>10, SumScaled, Zenon
<1>14. Integer(g) * Integer(f) = Integer(f) * Integer(g)
  BY <1>8
<1> QED
  BY <1>5, <1>6, <1>7, <1>8, <1>12, <1>13, <1>14 DEF products

(* The square is the product of a vector with itself: the terms above the  *)
(* middle of limb k mirror those below it.                                 *)
LEMMA OtherIsRemainder ==
  ASSUME NEW k \in Limb, NEW i \in Limb
  PROVE  (k - i) % N = Other(k, i)
<1>1. k \in Nat /\ i \in Nat /\ k < N /\ i < N /\ N \in Nat /\ N > 0
  BY LimbFacts DEF Limb
<1>2. Other(k, i) \in 0..(N - 1)
  BY OtherFacts DEF Limb
<1>3. CASE i <= k
  <2>1. k - i = N * 0 + Other(k, i) /\ 0 \in Int
    BY <1>1, <1>3 DEF Other
  <2>2. (N * 0 + Other(k, i)) % N = Other(k, i)
    BY <1>1, <1>2, <2>1, DivisionUnique
  <2> QED
    BY <2>1, <2>2
<1>4. CASE ~(i <= k)
  <2>1. k - i = N * (-1) + Other(k, i) /\ -1 \in Int
    BY <1>1, <1>4 DEF Other
  <2>2. (N * (-1) + Other(k, i)) % N = Other(k, i)
    BY <1>1, <1>2, <2>1, DivisionUnique
  <2> QED
    BY <2>1, <2>2
<1> QED
  BY <1>3, <1>4

(* f_i f_j and f_j f_i contribute the same.                                *)
LEMMA TermSymmetric ==
  ASSUME NEW f \in Vectors, NEW i \in Limb, NEW j \in Limb
  PROVE  Term(f, f, i, j) = Term(f, f, j, i)
<1>1. i + j = j + i /\ Doubled(i, j) = Doubled(j, i)
  BY LimbFacts DEF Limb, Doubled
<1>2. f[i] \in Int /\ f[j] \in Int /\ Doubled(j, i) \in Nat
  BY DoublingExact DEF Vectors
<1>3. \A d, c, x, y \in Int : d * c * x * y = d * c * y * x
  OBVIOUS
<1>4. (IF i + j < N THEN 1 ELSE C) \in Int
  BY LimbFacts
<1> QED
  BY <1>1, <1>2, <1>3, <1>4 DEF Term

(* fe_sq computes what fe_mul(f, f) does, with about half the products.    *)
LEMMA SquareProductsExact ==
  ASSUME NEW f \in Vectors
  PROVE  SquareProducts(f) = MulProducts(f, f)
<1> SUFFICES ASSUME NEW k \in Limb
             PROVE  SquareProducts(f)[k] = MulProducts(f, f)[k]
  BY DEF SquareProducts, MulProducts
<1> DEFINE t == [i \in Limb |-> Term(f, f, i, Other(k, i))]
           to == [i \in Limb |-> Other(k, i)]
           paired == [i \in Limb |-> Paired(i, to[i]) * t[i]]
           low == [i \in Limb |-> IF i < to[i] THEN t[i] ELSE 0]
           mid == [i \in Limb |-> IF i = to[i] THEN t[i] ELSE 0]
           high == [i \in Limb |-> IF i > to[i] THEN t[i] ELSE 0]
           rest == [i \in Limb |-> low[i] + mid[i]]
<1>1. MulProducts(f, f)[k] = SumFunctionOnSet(t, Limb)
  BY MulProductsAreTerms
<1>2. /\ \A i \in Limb : to[i] \in Limb /\ to[to[i]] = i
      /\ \A i \in Limb : t[i] \in Int /\ t[to[i]] = t[i]
  <2>1. \A i \in Limb : to[i] \in Limb /\ to[to[i]] = i
    BY OtherFacts
  <2>2. \A i \in Limb : t[i] \in Int
    BY OtherFacts, TermExact
  <2>3. ASSUME NEW i \in Limb PROVE t[to[i]] = t[i]
    <3>1. t[to[i]] = Term(f, f, to[i], to[to[i]])
      BY <2>1
    <3>2. t[to[i]] = Term(f, f, to[i], i)
      BY <2>1, <3>1
    <3>3. t[i] = Term(f, f, i, to[i])
      OBVIOUS
    <3> HIDE DEF t, to
    <3> QED
      BY <2>1, <3>2, <3>3, TermSymmetric
  <2> QED
    BY <2>1, <2>2, <2>3
<1>3. SquareProducts(f)[k] = SumFunctionOnSet(paired, Limb)
  <2> DEFINE model == [i \in Limb |->
               LET j == (k - i) % N
               IN  Paired(i, j) * Doubled(i, j) * (IF i + j >= N THEN C ELSE 1) * f[i] * f[j]]
  <2>1. SquareProducts(f)[k] = SumFunction(model)
    BY DEF SquareProducts
  <2>2. SumFunction(model) = SumFunctionOnSet(model, Limb)
    <3>1. DOMAIN model = Limb
      OBVIOUS
    <3> HIDE DEF model
    <3> QED
      BY <3>1, Zenon DEF SumFunction
  <2>3. ASSUME NEW i \in Limb
        PROVE  model[i] = paired[i]
    <3> DEFINE j == Other(k, i)
               c == IF i + j < N THEN 1 ELSE C
    <3>1. j \in Limb /\ (k - i) % N = j
      BY OtherFacts, OtherIsRemainder
    <3> HIDE DEF j
    <3>2. c = IF i + j >= N THEN C ELSE 1
      BY <3>1, LimbFacts DEF Limb
    <3>3. model[i] = Paired(i, j) * Doubled(i, j) * c * f[i] * f[j]
      BY <3>1, <3>2
    <3>4. paired[i] = Paired(i, j) * (Doubled(i, j) * c * f[i] * f[j])
      BY DEF j, Term
    <3>5. Paired(i, j) \in Int /\ Doubled(i, j) \in Int /\ c \in Int /\ f[i] \in Int /\ f[j] \in Int
      <4>1. i < j \/ i = j \/ i > j
        BY <3>1, LimbFacts DEF Limb
      <4> QED
        BY <3>1, <4>1, DoublingExact, LimbFacts DEF Paired, Vectors
    <3>6. \A q, d, e, x, y \in Int : q * d * e * x * y = q * (d * e * x * y)
      OBVIOUS
    <3> HIDE DEF c
    <3> QED
      BY <3>3, <3>4, <3>5, <3>6
  <2>4. model = paired
    BY <2>3
  <2> QED
    BY <2>1, <2>2, <2>4
<1>4. ASSUME NEW i \in Limb
      PROVE  /\ low[i] \in Int /\ mid[i] \in Int /\ high[i] \in Int /\ rest[i] \in Int
             /\ t[i] = rest[i] + high[i] /\ paired[i] = rest[i] + low[i]
             /\ rest[i] = low[i] + mid[i] /\ high[i] = low[to[i]]
  <2>1. i \in Int /\ to[i] \in Limb /\ to[i] \in Int /\ t[i] \in Int
    <3>1. to[i] \in Limb /\ t[i] \in Int
      BY <1>2
    <3>2. \A j \in Limb : j \in Int
      BY LimbFacts DEF Limb
    <3> QED
      BY <3>1, <3>2
  <2>2. i < to[i] \/ i = to[i] \/ i > to[i]
    BY <2>1
  <2>3. high[i] = low[to[i]]
    BY <1>2, <2>1
  <2>4. paired[i] = Paired(i, to[i]) * t[i]
    OBVIOUS
  <2> HIDE DEF t, to, paired
  <2> QED
    BY <2>1, <2>2, <2>3, <2>4 DEF Paired
<1>5. Renumbers(to, Limb, Limb)
  BY <1>2 DEF Renumbers
<1> HIDE DEF t, to, paired, low, mid, high, rest
<1>6. SumFunctionOnSet(high, Limb) = SumFunctionOnSet(low, Limb)
  BY <1>4, <1>5, LimbFacts, SumReindexed
<1>7. SumFunctionOnSet(t, Limb) = SumFunctionOnSet(rest, Limb) + SumFunctionOnSet(high, Limb)
  BY <1>4, LimbFacts, SumOfSums
<1>8. SumFunctionOnSet(paired, Limb) = SumFunctionOnSet(rest, Limb) + SumFunctionOnSet(low, Limb)
  BY <1>4, LimbFacts, SumOfSums
<1> QED
  BY <1>1, <1>3, <1>6, <1>7, <1>8
-----------------------------------------------------------------------------
(* The load.                                                               *)
LEMMA RemainderSplit ==
  ASSUME NEW s \in Nat, NEW a \in Nat, a > 0, NEW b \in Nat, b > 0
  PROVE  s % (a * b) = (s % a) + (((s \div a) % b) * a)
<1> DEFINE q == s \div a
           r == s % a
           q2 == q \div b
           r2 == q % b
<1>1. s = a * q + r /\ r \in 0..(a - 1) /\ q \in Int
  BY Division
<1> HIDE DEF q, r
<1>2. q = b * q2 + r2 /\ r2 \in 0..(b - 1) /\ q2 \in Int
  BY <1>1, Division
<1> HIDE DEF q2, r2
<1> DEFINE m == r + r2 * a
<1>3. s = (a * b) * q2 + m
  BY <1>1, <1>2
<1>4. m \in 0..(a * b - 1) /\ a * b \in Nat /\ a * b > 0
  <2>1. r2 * a \in Nat /\ r2 * a <= (b - 1) * a /\ (b - 1) * a = a * b - a
    BY <1>2
  <2>2. a * b \in Nat /\ a * b >= a
    OBVIOUS
  <2> QED
    BY <1>1, <2>1, <2>2
<1> HIDE DEF m
<1>5. s % (a * b) = m
  BY <1>2, <1>3, <1>4, DivisionUnique
<1> QED
  BY <1>5 DEF m, q, r, r2

(* fe_frombytes: the groups of bits that load_3 and load_4 take, shifted   *)
(* to their limbs, are the number, without the bit above the K of an       *)
(* element.                                                                *)
LEMMA LoadExact ==
  ASSUME NEW s \in Nat
  PROVE  LoadLimbs(s) \in Vectors /\ Integer(LoadLimbs(s)) = s % 2^K
<1> DEFINE bits(i) == Cut[i + 1] - Cut[i]
           digit(i) == (s \div 2^Cut[i]) % 2^bits(i)
           load == LoadLimbs(s)
           t == Terms(load)
<1>1. /\ Cut[0] = 0 /\ Cut[N] = K
      /\ \A i \in Limb : /\ Cut[i] \in Nat /\ Cut[i + 1] \in Nat /\ bits(i) \in Nat
                         /\ Cut[i] - Pos(i) \in Nat /\ Pos(i) \in Nat
  <2>1. \A i \in Limb : i \in 0..N /\ i + 1 \in 0..N
    BY LimbFacts DEF Limb
  <2> QED
    BY <2>1, Positions, LimbsAssumption
<1>2. \A i \in 0..N : Cut[i] \in Nat
  BY LimbsAssumption
<1> HIDE DEF bits
<1>3. ASSUME NEW i \in Limb
      PROVE  /\ digit(i) \in Nat /\ load[i] \in Int /\ t[i] = digit(i) * 2^Cut[i] /\ t[i] \in Int
             /\ s % 2^Cut[i + 1] = (s % 2^Cut[i]) + t[i]
  <2> DEFINE a == 2^Cut[i]
             b == 2^bits(i)
             w == 2^(Cut[i] - Pos(i))
             x == 2^Pos(i)
  <2>1. a \in Nat /\ a > 0 /\ b \in Nat /\ b > 0 /\ w \in Nat /\ x \in Nat
    BY <1>1, PowerPositive
  <2>2. a = w * x
    <3>1. Cut[i] = (Cut[i] - Pos(i)) + Pos(i)
      BY <1>1
    <3> QED
      BY <1>1, <3>1, PowerSum
  <2>3. 2^Cut[i + 1] = a * b
    <3>1. Cut[i + 1] = Cut[i] + bits(i)
      BY <1>1 DEF bits
    <3> QED
      BY <1>1, <3>1, PowerSum
  <2>4. load[i] = digit(i) * w
    BY DEF LoadLimbs, bits
  <2>5. t[i] = load[i] * x
    BY DEF Terms
  <2>d. digit(i) = (s \div a) % b
    OBVIOUS
  <2> HIDE DEF a, b, w, x, digit, load, t
  <2>6. digit(i) \in Nat
    <3>1. s \div a \in Int
      BY <2>1, Division
    <3> QED
      BY <2>1, <2>d, <3>1, Division
  <2>7. t[i] = digit(i) * a /\ t[i] \in Int /\ load[i] \in Int
    BY <2>1, <2>2, <2>4, <2>5, <2>6
  <2>8. s % (a * b) = (s % a) + (((s \div a) % b) * a)
    BY <2>1, RemainderSplit
  <2> QED
    BY <2>3, <2>6, <2>7, <2>8, <2>d DEF a
<1> HIDE DEF digit
<1>4. load \in Vectors
  BY <1>3 DEF Vectors, LoadLimbs
<1> HIDE DEF load, t
<1> DEFINE P == {m \in Nat : m <= N => SumFunctionOnSet(t, 0..(m - 1)) = s % 2^Cut[m]}
<1>5. 0 \in P
  <2>1. 2^0 = 1
    BY SMT
  <2>2. s % 1 = 0
    <3>1. s % 1 \in 0..0
      BY Division
    <3> QED
      BY <3>1
  <2>3. 0..(0 - 1) = {}
    OBVIOUS
  <2> QED
    BY <1>1, <2>1, <2>2, <2>3, SumOfNone
<1>6. ASSUME NEW m \in Nat, m \in P
      PROVE  m + 1 \in P
  <2> SUFFICES ASSUME m + 1 <= N
               PROVE  SumFunctionOnSet(t, 0..m) = s % 2^Cut[m + 1]
    OBVIOUS
  <2>1. m \in Limb /\ m \in 0..m /\ (0..m) \ {m} = 0..(m - 1) /\ \A i \in 0..m : i \in Limb
    BY LimbFacts DEF Limb
  <2>2. IsFiniteSet(0..m) /\ \A i \in 0..m : t[i] \in Int
    BY <1>3, <2>1, FS_Interval
  <2>3. SumFunctionOnSet(t, 0..m) = t[m] + SumFunctionOnSet(t, 0..(m - 1))
    BY <2>1, <2>2, SumSplit
  <2>4. SumFunctionOnSet(t, 0..(m - 1)) = s % 2^Cut[m]
    BY <1>6, LimbFacts
  <2>5. s % 2^Cut[m] \in Int
    <3>1. m \in 0..N
      BY <2>1, LimbFacts DEF Limb
    <3>2. 2^Cut[m] \in Nat /\ 2^Cut[m] > 0
      BY <1>2, <3>1, PowerPositive
    <3> QED
      BY <3>2, Division
  <2> QED
    BY <1>3, <2>1, <2>3, <2>4, <2>5
<1>7. Nat \subseteq P
  <2> HIDE DEF P
  <2> QED
    BY <1>5, <1>6, NaturalInduction
<1>8. SumFunctionOnSet(t, 0..(N - 1)) = s % 2^Cut[N]
  BY <1>7, LimbFacts
<1>9. Integer(load) = SumFunctionOnSet(t, Limb)
  BY <1>4, IntegerIsSum DEF t
<1> QED
  BY <1>1, <1>4, <1>8, <1>9 DEF Limb, load
-----------------------------------------------------------------------------
(* The orders of the carries name limbs.                                   *)
LEMMA OrdersAreSequences ==
  MulCarryOrder \in Seq(Limb) /\ LoadCarryOrder \in Seq(Limb)
<1> DEFINE half == N \div 2
<1>1. half \in Nat /\ half >= 1 /\ N = 2 * half
  BY LimbFacts
<1> HIDE DEF half
<1>2. MulCarryOrder \in Seq(Limb)
  <2> DEFINE chains == [n \in 1..N |-> IF n % 2 = 1 THEN n \div 2 ELSE n \div 2 + half - 2]
             wrap == << N - 1, 0 >>
  <2>1. \A n \in 1..N : chains[n] \in Limb
    <3> TAKE n \in 1..N
    <3>1. n \in Nat /\ n >= 1 /\ n <= 2 * half
      BY <1>1, LimbFacts
    <3>2. n % 2 = 1 => n \div 2 >= 0 /\ n \div 2 <= half - 1 /\ n \div 2 \in Int
      BY <1>1, <3>1
    <3>3. n % 2 # 1 => n \div 2 >= 1 /\ n \div 2 <= half /\ n \div 2 \in Int
      BY <1>1, <3>1
    <3> QED
      BY <1>1, <3>1, <3>2, <3>3 DEF Limb
  <2>2. chains \in Seq(Limb)
    <3> HIDE DEF chains
    <3>1. chains \in [1..N -> Limb]
      BY <2>1 DEF chains
    <3> QED
      BY <3>1, LimbFacts
  <2>3. wrap \in Seq(Limb)
    BY LimbFacts
  <2>4. MulCarryOrder = chains \o wrap
    BY DEF MulCarryOrder, half
  <2> HIDE DEF chains, wrap
  <2> QED
    BY <2>2, <2>3, <2>4
<1>3. LoadCarryOrder \in Seq(Limb)
  <2> DEFINE odd == [n \in 1..(half - 1) |-> 2 * n - 1]
             even == [n \in 1..half |-> 2 * n - 2]
  <2>1. odd \in [1..(half - 1) -> Limb] /\ even \in [1..half -> Limb]
    BY <1>1 DEF Limb
  <2>2. << N - 1 >> \in Seq(Limb)
    BY LimbFacts
  <2>3. LoadCarryOrder = (<< N - 1 >> \o odd) \o even
    BY DEF LoadCarryOrder, half
  <2> HIDE DEF odd, even
  <2>4. odd \in Seq(Limb) /\ even \in Seq(Limb)
    <3>1. half - 1 \in Nat
      BY <1>1
    <3> QED
      BY <1>1, <2>1, <3>1
  <2> QED
    BY <2>2, <2>3, <2>4
<1> QED
  BY <1>2, <1>3

(* The results: each operation stands for the operation of the field.      *)
Means(f, v) == f \in Vectors /\ Congruent(Integer(f), v, p)

(* The element that such a vector stands for.                              *)
LEMMA MeansElement ==
  ASSUME NEW f, NEW v \in Int, Means(f, v)
  PROVE  Element(f) = v % p
BY Modulus, IntegerIsSum, CongruentRemainders DEF Means, Element

(* fe_frombytes: a string of any length is loaded as the element that its  *)
(* K low bits are.                                                         *)
THEOREM LoadMeans ==
  ASSUME NEW s \in Nat
  PROVE  Means(fe_frombytes(s), s % 2^K)
<1>1. fe_frombytes(s) = Chain(LoadLimbs(s), LoadCarryOrder)
  BY DEF fe_frombytes, Chain
<1> QED
  BY <1>1, LoadExact, CarryChainExact, OrdersAreSequences DEF Means

(* fe_mul: the products of limbs, C times those past the last limb and     *)
(* twice those of odd limbs, and the chain of carries with its wrap        *)
(* around, are the product in the field, for any limbs, reduced or not.    *)
THEOREM ProductMeans ==
  ASSUME NEW f, NEW v \in Int, Means(f, v), NEW g, NEW w \in Int, Means(g, w)
  PROVE  Means(fe_mul(f, g), v * w)
<1> DEFINE h == MulProducts(f, g)
           a == Integer(f)
           b == Integer(g)
<1>1. fe_mul(f, g) = Chain(h, MulCarryOrder)
  BY DEF fe_mul, MulCarries, Chain
<1>2. h \in Vectors /\ Congruent(Integer(h), a * b, p) /\ a \in Int /\ b \in Int /\ a * b \in Int
  BY MulProductsExact, IntegerIsSum DEF Means
<1>3. Congruent(a, v, p) /\ Congruent(b, w, p)
  BY DEF Means
<1> HIDE DEF h, a, b
<1>4. fe_mul(f, g) \in Vectors /\ Congruent(Integer(fe_mul(f, g)), Integer(h), p)
  BY <1>1, <1>2, CarryChainExact, OrdersAreSequences
<1>5. Congruent(a * b, v * w, p)
  BY <1>2, <1>3, Modulus, CongruentProducts
<1> QED
  BY <1>2, <1>4, <1>5, Modulus, CongruentTransitive DEF Means

(* fe_sq: the square.                                                      *)
THEOREM SquareMeans ==
  ASSUME NEW f, NEW v \in Int, Means(f, v)
  PROVE  Means(fe_sq(f), v * v)
<1>1. f \in Vectors
  BY DEF Means
<1>2. fe_sq(f) = fe_mul(f, f)
  BY <1>1, SquareProductsExact DEF fe_sq, fe_mul
<1> QED
  BY <1>2, ProductMeans

(* fe_sq2: twice the square.                                               *)
THEOREM SquareTwiceMeans ==
  ASSUME NEW f, NEW v \in Int, Means(f, v)
  PROVE  Means(fe_sq2(f), 2 * (v * v))
<1> DEFINE h == MulProducts(f, f)
           a == Integer(f)
           twice == fe_add(h, h)
<1>1. f \in Vectors /\ Congruent(a, v, p) /\ a \in Int /\ a * a \in Int
  BY IntegerIsSum DEF Means
<1>2. fe_sq2(f) = Chain(twice, MulCarryOrder)
  BY <1>1, SquareProductsExact DEF fe_sq2, MulCarries, Chain
<1>3. h \in Vectors /\ Congruent(Integer(h), a * a, p) /\ Integer(h) \in Int
  BY <1>1, MulProductsExact, IntegerIsSum
<1> HIDE DEF h, a
<1>4. twice \in Vectors /\ Integer(twice) = Integer(h) + Integer(h)
  BY <1>3, AddExact
<1> HIDE DEF twice
<1>5. fe_sq2(f) \in Vectors /\ Congruent(Integer(fe_sq2(f)), Integer(twice), p)
  BY <1>2, <1>4, CarryChainExact, OrdersAreSequences
<1>6. Congruent(a * a, v * v, p)
  BY <1>1, Modulus, CongruentProducts
<1>7. Congruent(Integer(h), v * v, p)
  BY <1>3, <1>6, Modulus, CongruentTransitive
<1>8. Congruent(Integer(h) + Integer(h), (v * v) + (v * v), p)
  BY <1>3, <1>7, Modulus, CongruentSums
<1>9. (v * v) + (v * v) = 2 * (v * v) /\ 2 * (v * v) \in Int
  OBVIOUS
<1> QED
  BY <1>4, <1>5, <1>8, <1>9, Modulus, CongruentTransitive DEF Means

(* fe_add, fe_neg and fe_sub, which do not carry.                          *)
THEOREM AddMeans ==
  ASSUME NEW f, NEW v \in Int, Means(f, v), NEW g, NEW w \in Int, Means(g, w)
  PROVE  /\ Means(fe_add(f, g), v + w)
         /\ Means(fe_neg(f), -v)
         /\ Means(fe_sub(f, g), v - w)
<1> DEFINE a == Integer(f)
           b == Integer(g)
           nb == -b
           nw == -w
<1>1. f \in Vectors /\ g \in Vectors /\ Congruent(a, v, p) /\ Congruent(b, w, p)
  BY DEF Means
<1>2. a \in Int /\ b \in Int /\ p \in Int /\ nb \in Int /\ nw \in Int
  BY <1>1, IntegerIsSum, Modulus
<1>3. /\ fe_add(f, g) \in Vectors /\ Integer(fe_add(f, g)) = a + b
      /\ fe_neg(f) \in Vectors /\ Integer(fe_neg(f)) = -a
      /\ fe_sub(f, g) \in Vectors /\ Integer(fe_sub(f, g)) = a + nb /\ v - w = v + nw
  BY <1>1, <1>2, AddExact, NegateExact, SubtractExact
<1> HIDE DEF a, b
<1>4. Congruent(-a, -v, p) /\ Congruent(nb, nw, p)
  BY <1>1, <1>2, CongruentNegations
<1> HIDE DEF nb, nw
<1>5. Congruent(a + b, v + w, p)
  BY <1>1, <1>2, CongruentSums, Zenon
<1>6. Congruent(a + nb, v + nw, p)
  BY <1>1, <1>2, <1>4, CongruentSums, Zenon
<1> QED
  BY <1>3, <1>4, <1>5, <1>6 DEF Means
-----------------------------------------------------------------------------
(* The powers of two in a byte and a group of 24 bits.                     *)
LEMMA SmallPowers ==
  /\ 2^0 = 1 /\ 2^1 = 2 /\ 2^2 = 4 /\ 2^3 = 8 /\ 2^4 = 16 /\ 2^5 = 32 /\ 2^6 = 64
  /\ 2^7 = 128 /\ 2^8 = 256 /\ 2^12 = 4096 /\ 2^18 = 262144
<1>1. 2^0 = 1
  OBVIOUS
<1>2. \A k \in Nat : 2^(k + 1) = 2^k + 2^k /\ 2^k \in Int
  BY PowerSuccessor, PowerPositive
<1>3. 2^1 = 2
  BY <1>1, <1>2
<1>4. 2^2 = 4
  BY <1>2, <1>3
<1>5. 2^3 = 8
  BY <1>2, <1>4
<1>6. 2^4 = 16
  BY <1>2, <1>5
<1>7. 2^5 = 32
  BY <1>2, <1>6
<1>8. 2^6 = 64
  BY <1>2, <1>7
<1>9. 2^7 = 128
  BY <1>2, <1>8
<1>10. 2^8 = 256
  BY <1>2, <1>9
<1>11. \A m, k \in Nat : 2^(m + k) = 2^m * 2^k
  BY PowerSum
<1>12. 2^12 = 2^6 * 2^6 /\ 2^18 = 2^12 * 2^6
  <2>1. 6 + 6 = 12 /\ 12 + 6 = 18
    OBVIOUS
  <2> QED
    BY <1>11, <2>1
<1> QED
  BY <1>1, <1>3, <1>4, <1>5, <1>6, <1>7, <1>8, <1>9, <1>10, <1>12

(* The digit at position j is what the remainder gains there. *)
LEMMA DigitIsGain ==
  ASSUME NEW a \in Nat, NEW j \in Nat, NEW w \in Nat
  PROVE  /\ ((a \div 2^j) % 2^w) * 2^j = (a % 2^(j + w)) - (a % 2^j)
         /\ (a \div 2^j) % 2^w \in 0..(2^w - 1)
         /\ a % 2^j \in Nat /\ a % 2^(j + w) \in Nat
<1>1. /\ 2^j \in Nat /\ 2^j > 0 /\ 2^w \in Nat /\ 2^w > 0 /\ 2^(j + w) = 2^j * 2^w
      /\ 2^(j + w) \in Nat /\ 2^(j + w) > 0
  BY PowerPositive, PowerSum
<1>2. a % (2^j * 2^w) = (a % 2^j) + (((a \div 2^j) % 2^w) * 2^j)
  BY <1>1, RemainderSplit
<1>3. a % 2^j \in Nat /\ a % 2^(j + w) \in Nat /\ a \div 2^j \in Int
  BY <1>1, Division
<1>4. (a \div 2^j) % 2^w \in 0..(2^w - 1)
  BY <1>1, <1>3, Division
<1>5. ((a \div 2^j) % 2^w) * 2^j \in Int
  BY <1>1, <1>4
<1> QED
  BY <1>1, <1>2, <1>3, <1>4, <1>5
-----------------------------------------------------------------------------
(***************************************************************************)
(* The size of the limbs.  A carry leaves a limb within half its width and *)
(* carries no more than the limb holds of its width, and one.              *)
(***************************************************************************)
AtMost(x, b) == 0 - b <= x /\ x <= b
Following(i) == IF i = N - 1 THEN 0 ELSE i + 1
Gained(i, c) == IF i = N - 1 THEN C * c ELSE c
Carries(f, i, g, c) ==
  /\ g \in Vectors /\ c \in Int
  /\ AtMost(2 * g[i], 2^Width(i))
  /\ g[Following(i)] = f[Following(i)] + Gained(i, c)
  /\ \A j \in Limb : j # i /\ j # Following(i) => g[j] = f[j]
  /\ \A x \in Nat : AtMost(f[i], x * 2^Width(i)) => AtMost(c, x + 1)

(* The limb after the last is the first.                                   *)
LEMMA FollowingFacts ==
  ASSUME NEW i \in Limb
  PROVE  (i + 1) % N = Following(i) /\ Following(i) \in Limb /\ Following(i) # i
<1>1. i \in Nat /\ i < N
  BY LimbFacts DEF Limb
<1>2. CASE i = N - 1
  <2>1. N * 1 + 0 = i + 1 /\ 0 \in 0..(N - 1) /\ 1 \in Int
    BY <1>2, LimbFacts
  <2>2. (N * 1 + 0) % N = 0
    BY <2>1, LimbFacts, DivisionUnique
  <2> QED
    BY <1>2, <2>1, <2>2, LimbFacts DEF Following
<1>3. CASE i # N - 1
  <2>1. N * 0 + (i + 1) = i + 1 /\ i + 1 \in 0..(N - 1) /\ 0 \in Int
    BY <1>1, <1>3, LimbFacts
  <2>2. (N * 0 + (i + 1)) % N = i + 1
    BY <2>1, LimbFacts, DivisionUnique
  <2> QED
    BY <1>3, <2>1, <2>2, LimbFacts DEF Limb, Following
<1> QED
  BY <1>2, <1>3

(* Half a width is half of it.                                             *)
LEMMA HalfWidths ==
  ASSUME NEW i \in Limb
  PROVE  /\ 2^Width(i) = 2 * 2^(Width(i) - 1)
         /\ 2^(Width(i) - 1) \in Nat /\ 2^(Width(i) - 1) > 0
<1>1. Width(i) - 1 \in Nat /\ (Width(i) - 1) + 1 = Width(i)
  BY Positions
<1> QED
  BY <1>1, PowerSuccessor, PowerPositive

(* What a carry leaves and what it carries.                                *)
LEMMA CarrySizes ==
  ASSUME NEW f \in Vectors, NEW i \in Limb
  PROVE  \E c : Carries(f, i, Carry(f, i), c)
<1> DEFINE w == 2^Width(i)
           v == 2^(Width(i) - 1)
           c == (f[i] + v) \div w
           r == (f[i] + v) % w
           next == (i + 1) % N
           g == Carry(f, i)
<1>1. w \in Nat /\ v \in Nat /\ v > 0 /\ w = 2 * v /\ f[i] \in Int
  BY HalfWidths DEF Vectors
<1>2. next = Following(i) /\ Following(i) \in Limb /\ Following(i) # i
  BY FollowingFacts
<1>3. g = [f EXCEPT ![i] = f[i] - c * w, ![next] = f[next] + Gained(i, c)]
  BY DEF Carry, Gained
<1> HIDE DEF w, v
<1>4. f[i] + v = w * c + r /\ r \in 0..(w - 1) /\ c \in Int
  <2>1. f[i] + v \in Int /\ w > 0
    BY <1>1
  <2> QED
    BY <1>1, <2>1, Division
<1> HIDE DEF c, r, next, g
<1>5. g \in Vectors
  BY CarryExact DEF g
<1>6. c * w \in Int /\ c * w = w * c
  BY <1>1, <1>4
<1>7. /\ g[i] = f[i] - c * w
      /\ g[Following(i)] = f[Following(i)] + Gained(i, c)
      /\ \A j \in Limb : j # i /\ j # Following(i) => g[j] = f[j]
  BY <1>2, <1>3 DEF Vectors
<1>8. AtMost(2 * g[i], w)
  <2> DEFINE cw == c * w
  <2>1. cw \in Int /\ f[i] + v = cw + r /\ g[i] = f[i] - cw
    BY <1>4, <1>6, <1>7
  <2> HIDE DEF cw
  <2> QED
    BY <1>1, <1>4, <2>1 DEF AtMost
<1>9. ASSUME NEW x \in Nat, AtMost(f[i], x * w)
      PROVE  AtMost(c, x + 1)
  <2> DEFINE cw == c * w
             xw == x * w
  <2>1. cw \in Int /\ xw \in Int /\ f[i] + v = cw + r /\ 0 - xw <= f[i] /\ f[i] <= xw
    BY <1>1, <1>4, <1>6, <1>9 DEF AtMost
  <2>2. (x + 1) * w = xw + w /\ (0 - (x + 1)) * w = 0 - (xw + w)
    BY <1>1
  <2> HIDE DEF cw, xw
  <2>3. cw < xw + w /\ 0 - (xw + w) < cw
    BY <1>1, <1>4, <2>1
  <2>4. c * w < (x + 1) * w /\ (0 - (x + 1)) * w < c * w
    BY <2>2, <2>3 DEF cw
  <2>5. \A a, b \in Int : a * w < b * w => a < b
    <3> TAKE a, b \in Int
    <3>1. CASE a >= b
      <4>1. PICK y \in Nat : a = b + y
        BY <3>1
      <4>2. a * w = b * w + y * w /\ y * w >= 0 /\ b * w \in Int /\ y * w \in Int
        BY <1>1, <4>1
      <4> QED
        BY <4>2
    <3> QED
      BY <3>1
  <2>6. x + 1 \in Int /\ 0 - (x + 1) \in Int
    OBVIOUS
  <2>7. c < x + 1 /\ 0 - (x + 1) < c
    BY <1>4, <2>4, <2>5, <2>6, Zenon
  <2> QED
    BY <1>4, <2>7 DEF AtMost
<1> QED
  BY <1>4, <1>5, <1>7, <1>8, <1>9 DEF Carries, w, g

(* Half of the limbs.                                                      *)
Side == N \div 2

(* There are as many even limbs as odd.                                    *)
LEMMA SideFacts ==
  Side \in Nat /\ N = 2 * Side /\ Side >= 1
BY LimbFacts DEF Side

(* One sequence and another.                                               *)
Joins(c, a, b) ==
  /\ Len(c) = Len(a) + Len(b)
  /\ \A k \in 1..Len(a) : c[k] = a[k]
  /\ \A k \in 1..Len(b) : c[Len(a) + k] = b[k]

(* The concatenation of two sequences is the one and then the other.       *)
LEMMA JoinFacts ==
  ASSUME NEW S, NEW a \in Seq(S), NEW b \in Seq(S)
  PROVE  Joins(a \o b, a, b)
<1>1. Len(a \o b) = Len(a) + Len(b)
  OBVIOUS
<1>2. \A k \in 1..Len(a) : (a \o b)[k] = a[k]
  OBVIOUS
<1>3. \A k \in 1..Len(b) : (a \o b)[Len(a) + k] = b[k]
  OBVIOUS
<1> QED
  BY <1>1, <1>2, <1>3 DEF Joins

(* The order of the carries after a product: two chains side by side.      *)
LEMMA MulOrder ==
  /\ MulCarryOrder \in Seq(Limb) /\ Len(MulCarryOrder) = N + 2
  /\ \A m \in 0..(Side - 1) :
       /\ 2 * m + 1 \in 1..(N + 2) /\ 2 * m + 2 \in 1..(N + 2)
       /\ MulCarryOrder[2 * m + 1] = m /\ MulCarryOrder[2 * m + 2] = m + Side - 1
  /\ MulCarryOrder[N + 1] = N - 1 /\ MulCarryOrder[N + 2] = 0
<1> DEFINE a == [n \in 1..N |-> IF n % 2 = 1 THEN n \div 2 ELSE n \div 2 + N \div 2 - 2]
           b == << N - 1, 0 >>
<1>1. MulCarryOrder \in Seq(Limb)
  BY OrdersAreSequences
<1>2. MulCarryOrder = a \o b
  BY DEF MulCarryOrder
<1>3. N \in Nat /\ N = 2 * Side /\ Side \in Nat /\ Side >= 1
  BY SideFacts
<1>4. a \in Seq(Int) /\ Len(a) = N
  <2>1. \A n \in 1..N : n \div 2 \in Int /\ N \div 2 \in Int
    BY <1>3
  <2>2. \A n \in 1..N : a[n] \in Int
    BY <2>1
  <2>3. a \in [1..N -> Int]
    BY <2>2
  <2> HIDE DEF a
  <2> QED
    BY <1>3, <2>3
<1>5. b \in Seq(Int) /\ Len(b) = 2 /\ b[1] = N - 1 /\ b[2] = 0
  BY <1>3
<1>6. ASSUME NEW m \in 0..(Side - 1)
      PROVE  /\ 2 * m + 1 \in 1..N /\ 2 * m + 2 \in 1..N
             /\ a[2 * m + 1] = m /\ a[2 * m + 2] = m + Side - 1
  <2>1. m \in Nat /\ 2 * m + 1 \in 1..N /\ 2 * m + 2 \in 1..N
    BY <1>3
  <2>2. (2 * m + 1) % 2 = 1 /\ (2 * m + 1) \div 2 = m
    BY <2>1
  <2>3. (2 * m + 2) % 2 = 0 /\ (2 * m + 2) \div 2 = m + 1
    BY <2>1
  <2>4. N \div 2 = Side
    BY DEF Side
  <2> QED
    BY <1>3, <2>1, <2>2, <2>3, <2>4
<1> HIDE DEF a, b
<1>7. /\ Len(a \o b) = N + 2
      /\ \A k \in 1..N : (a \o b)[k] = a[k]
      /\ (a \o b)[N + 1] = b[1] /\ (a \o b)[N + 2] = b[2]
  <2>1. Joins(a \o b, a, b)
    BY <1>4, <1>5, JoinFacts
  <2>2. 1 \in 1..2 /\ 2 \in 1..2
    OBVIOUS
  <2> QED
    BY <1>4, <1>5, <2>1, <2>2 DEF Joins
<1>8. \A m \in 0..(Side - 1) :
        /\ 2 * m + 1 \in 1..(N + 2) /\ 2 * m + 2 \in 1..(N + 2)
        /\ (a \o b)[2 * m + 1] = m /\ (a \o b)[2 * m + 2] = m + Side - 1
  <2> TAKE m \in 0..(Side - 1)
  <2>1. 2 * m + 1 \in 1..(N + 2) /\ 2 * m + 2 \in 1..(N + 2)
    BY <1>3
  <2>2. /\ (a \o b)[2 * m + 1] = a[2 * m + 1]
        /\ (a \o b)[2 * m + 2] = a[2 * m + 2]
    BY <1>6, <1>7, Zenon
  <2> QED
    BY <1>6, <2>1, <2>2, Zenon
<1> QED
  BY <1>1, <1>2, <1>5, <1>7, <1>8

(***************************************************************************)
(* How large the limbs of a product may be: Mass times a square of the     *)
(* radix, and what a carry then carries.  With room in a limb for the      *)
(* carries of the last pass they leave it within 1.01 of half its width.   *)
(***************************************************************************)
Mass == 22 * (N * C)
Base == 2^W
Big == Mass * (Base * Base)
Load == (Mass + 1) * Base
Extra == C * (Mass + 1) + 2
RoomyElements ==
  /\ N >= 6 /\ 200 * Extra <= Base
  /\ \A i \in Limb : 2^(Cut[i + 1] - Pos(i + 1)) <= Mass

(* What the room in a limb says of these numbers.                          *)
LEMMA RoomFacts ==
  ASSUME RoomyElements
  PROVE  /\ Mass \in Nat /\ Base \in Nat /\ Big \in Nat /\ Load \in Nat /\ Extra \in Nat
         /\ Mass + 3 <= Extra /\ 200 * Extra <= Base /\ Side >= 3
         /\ Load = Mass * Base + Base
         /\ \A i \in Limb : 2^Width(i) \in Nat /\ Base <= 2^Width(i)
         /\ 2^Width(0) = 2 * Base
<1>1. N * C \in Nat
  BY LimbFacts
<1>2. Mass \in Nat
  BY <1>1 DEF Mass
<1>3. Base \in Nat
  BY LimbFacts, PowerPositive DEF Base
<1>4. Base * Base \in Nat
  BY <1>3
<1>5. Big \in Nat /\ Load \in Nat
  BY <1>2, <1>3, <1>4 DEF Big, Load
<1>6. C * (Mass + 1) \in Nat /\ C * (Mass + 1) >= Mass + 1
  <2>1. C \in Nat /\ C >= 1 /\ Mass + 1 \in Nat
    BY <1>2, LimbFacts
  <2>2. PICK y \in Nat : C = 1 + y
    BY <2>1
  <2>3. (1 + y) * (Mass + 1) = (Mass + 1) + y * (Mass + 1) /\ y * (Mass + 1) \in Nat
    BY <2>1, <2>2
  <2> QED
    BY <2>1, <2>2, <2>3
<1>7. Extra \in Nat /\ Mass + 3 <= Extra
  <2> DEFINE cm == C * (Mass + 1)
  <2>1. cm \in Nat /\ cm >= Mass + 1 /\ Extra = cm + 2
    BY <1>6 DEF Extra
  <2> HIDE DEF cm
  <2> QED
    BY <1>2, <2>1
<1>8. Load = Mass * Base + Base
  BY <1>2, <1>3 DEF Load
<1>9. ASSUME NEW i \in Limb
      PROVE  2^Width(i) \in Nat /\ Base <= 2^Width(i)
  <2>1. W \in Nat /\ W <= Width(i) /\ Width(i) \in Nat
    BY LimbFacts, Positions DEF Width
  <2> QED
    BY <2>1, PowersGrow, Weights DEF Base
<1>10. 2^Width(0) = 2 * Base
  <2>1. Width(0) = W + 1 /\ W \in Nat
    BY LimbFacts DEF Width
  <2>2. 2^(W + 1) = 2^W + 2^W /\ 2^W \in Nat
    BY <2>1, PowerSuccessor, PowerPositive
  <2> QED
    BY <2>1, <2>2 DEF Base
<1>11. 200 * Extra <= Base /\ Side >= 3
  BY LimbFacts, SideFacts DEF RoomyElements
<1> QED
  BY <1>2, <1>3, <1>5, <1>7, <1>8, <1>9, <1>10, <1>11

(* A carry by what its limb is at most.                                    *)
LEMMA CarriedFew ==
  ASSUME RoomyElements, NEW f, NEW i \in Limb, NEW g, NEW c, Carries(f, i, g, c),
         f[i] \in Int, NEW x \in Nat, AtMost(f[i], x * Base)
  PROVE  AtMost(c, x + 1)
<1>1. 2^Width(i) \in Nat /\ Base \in Nat /\ Base <= 2^Width(i)
  BY RoomFacts
<1>2. PICK y \in Nat : 2^Width(i) = Base + y
  <2>1. \A a, b \in Nat : a <= b => b - a \in Nat /\ b = a + (b - a)
    OBVIOUS
  <2> QED
    BY <1>1, <2>1, Zenon
<1>3. x * (Base + y) = x * Base + x * y /\ x * y \in Nat /\ x * Base \in Nat
  BY <1>1
<1>4. AtMost(f[i], x * (Base + y))
  <2> DEFINE a == x * Base
             b == x * y
  <2>1. a \in Nat /\ b \in Nat /\ x * (Base + y) = a + b /\ AtMost(f[i], a)
    BY <1>3
  <2> HIDE DEF a, b
  <2>2. AtMost(f[i], a + b)
    BY <2>1 DEF AtMost
  <2> QED
    BY <2>1, <2>2, Zenon
<1>5. AtMost(f[i], x * 2^Width(i))
  BY <1>2, <1>4, Zenon
<1> QED
  BY <1>5, Zenon DEF Carries

(* No carry of these chains is larger than Load.                           *)
LEMMA CarriedLoad ==
  ASSUME RoomyElements, NEW f, NEW i \in Limb, NEW g, NEW c, Carries(f, i, g, c),
         f[i] \in Int, AtMost(f[i], Big + Load)
  PROVE  AtMost(c, Load)
<1> DEFINE mb == Mass * Base
           x == mb + Mass + 1
<1>1. /\ Mass \in Nat /\ Base \in Nat /\ mb \in Nat /\ x \in Nat
      /\ Load = mb + Base /\ Mass + 3 <= Extra /\ 200 * Extra <= Base /\ Extra \in Nat
  BY RoomFacts
<1>2. Big + Load = x * Base
  <2>1. Big = mb * Base
    BY <1>1 DEF Big
  <2>2. (mb + Mass + 1) * Base = mb * Base + mb + Base
    BY <1>1
  <2>3. mb * Base \in Nat
    BY <1>1
  <2> HIDE DEF mb
  <2> QED
    BY <1>1, <2>1, <2>2, <2>3
<1> HIDE DEF mb
<1>3. x \in Nat /\ AtMost(f[i], x * Base)
  BY <1>1, <1>2
<1> HIDE DEF x
<1>4. AtMost(c, x + 1)
  BY <1>3, CarriedFew, Zenon
<1>5. x + 1 <= Load
  BY <1>1 DEF x
<1>6. c \in Int
  BY DEF Carries
<1> QED
  BY <1>1, <1>3, <1>4, <1>5, <1>6 DEF AtMost

(* After m carries of either chain.                                        *)
Stage(m, g) ==
  /\ g \in Vectors
  /\ \A j \in Limb :
       /\ AtMost(g[j], Big + Load)
       /\ j \in (m + 1)..(Side - 2) \/ j >= Side + m => AtMost(g[j], Big)
       /\ j < m \/ (j \in (Side - 1)..(Side + m - 2) /\ j # m) => AtMost(2 * g[j], 2^Width(j))
  /\ m = Side - 1 => AtMost(g[m], Base + Load)
  /\ m = Side => AtMost(2 * g[m], 2^Width(m) + 2 * (Mass + 3))

(* What every stage of the carries rests on.                               *)
LEMMA StageFacts ==
  ASSUME RoomyElements
  PROVE  /\ Limb = 0..(2 * Side - 1) /\ Side \in Nat /\ Side >= 3 /\ N = 2 * Side
         /\ Big \in Nat /\ Load \in Nat /\ Mass \in Nat /\ Base \in Nat
         /\ \A j \in Limb : 2^Width(j) \in Nat /\ Base <= 2^Width(j) /\ 2^Width(j) <= 2 * Base
         /\ 2 * Base <= Big /\ Mass + 3 <= Base /\ 2 * Base <= Load
<1>1. Limb = 0..(2 * Side - 1) /\ Side \in Nat /\ N = 2 * Side
  BY SideFacts DEF Limb
<1>2. ASSUME NEW j \in Limb PROVE 2^Width(j) <= 2 * Base
  <2>1. Width(j) <= W + 1 /\ W \in Nat /\ Width(j) \in Nat
    BY LimbFacts, Positions DEF Width
  <2>2. 2^(W + 1) = 2^W + 2^W /\ 2^W \in Nat /\ 2^(W + 1) \in Nat
    BY <2>1, PowerSuccessor, PowerPositive
  <2>3. 2^Width(j) <= 2^(W + 1)
    BY <2>1, PowersGrow
  <2> QED
    BY <2>2, <2>3, RoomFacts DEF Base
<1>3. Mass >= 2
  <2>1. N * C >= 1 /\ N * C \in Nat
    BY LimbFacts
  <2> QED
    BY <2>1 DEF Mass
<1>4. 2 * Base <= Big /\ 2 * Base <= Load
  <2>1. /\ Mass \in Nat /\ Base \in Nat /\ Load = Mass * Base + Base /\ Mass + 3 <= Extra
        /\ 200 * Extra <= Base /\ Extra \in Nat
    BY RoomFacts
  <2>2. PICK y \in Nat : Mass = 2 + y
    BY <1>3, <2>1
  <2>3. (2 + y) * Base = 2 * Base + y * Base /\ y * Base \in Nat
    BY <2>1
  <2>4. PICK z \in Nat : Base = 1 + z
    BY <2>1
  <2>5. Mass * Base \in Nat /\ 2 * Base <= Mass * Base
    BY <2>1, <2>2, <2>3
  <2>6. (Mass * Base) * Base = Mass * Base + (Mass * Base) * z /\ (Mass * Base) * z \in Nat
    BY <2>4, <2>5
  <2>7. Big = (Mass * Base) * Base
    BY <2>1 DEF Big
  <2> DEFINE mb == Mass * Base
             rest == (Mass * Base) * z
  <2>8. mb \in Nat /\ rest \in Nat /\ 2 * Base <= mb /\ Big = mb + rest /\ Load = mb + Base
    BY <2>1, <2>5, <2>6, <2>7
  <2> HIDE DEF mb, rest
  <2> QED
    BY <2>1, <2>8
<1> QED
  BY <1>1, <1>2, <1>4, RoomFacts

(* The first carry of a pair.                                              *)
Between(m, g, e) ==
  /\ e \in Vectors
  /\ \A j \in Limb : j # m /\ j # m + 1 => e[j] = g[j]
  /\ AtMost(2 * e[m], 2^Width(m))
  /\ AtMost(e[m + 1], Big + Load)
  /\ m + 1 = Side - 1 => AtMost(e[m + 1], Base + Load)
  /\ m + 1 = Side => AtMost(2 * e[m + 1], 2^Width(m + 1) + 2 * (Mass + 3))

(* It leaves the limbs between two stages.                                 *)
LEMMA FirstOfPair ==
  ASSUME RoomyElements, NEW m \in 0..(Side - 1), NEW g, Stage(m, g)
  PROVE  Between(m, g, Carry(g, m))
<1> DEFINE e == Carry(g, m)
<1>1. /\ Limb = 0..(2 * Side - 1) /\ Side \in Nat /\ Side >= 3 /\ N = 2 * Side
      /\ Big \in Nat /\ Load \in Nat /\ Mass \in Nat /\ Base \in Nat
      /\ 2 * Base <= Big
  BY StageFacts
<1>2. m \in Limb /\ m + 1 \in Limb /\ Following(m) = m + 1 /\ m # N - 1 /\ m \in Nat
  BY <1>1 DEF Following
<1>3. g \in Vectors /\ g[m] \in Int /\ g[m + 1] \in Int
  BY <1>2 DEF Stage, Vectors
<1>4. PICK c : Carries(g, m, e, c)
  BY <1>2, <1>3, CarrySizes
<1>5. /\ e \in Vectors /\ c \in Int /\ AtMost(2 * e[m], 2^Width(m))
      /\ e[m + 1] = g[m + 1] + c
      /\ \A j \in Limb : j # m /\ j # m + 1 => e[j] = g[j]
  BY <1>2, <1>4 DEF Carries, Gained
<1> HIDE DEF e
<1>6. AtMost(c, Load)
  <2>1. AtMost(g[m], Big + Load)
    BY <1>2 DEF Stage
  <2> QED
    BY <1>2, <1>3, <1>4, <2>1, CarriedLoad, Zenon
<1>7. m = Side - 1 => AtMost(c, Mass + 3)
  <2> SUFFICES ASSUME m = Side - 1 PROVE AtMost(c, Mass + 3)
    OBVIOUS
  <2>1. AtMost(g[m], Base + Load)
    BY DEF Stage
  <2>2. Load = Mass * Base + Base
    BY RoomFacts
  <2>3. (Mass + 2) * Base = Mass * Base + 2 * Base
    BY <1>1
  <2>4. Base + Load = (Mass + 2) * Base
    BY <1>1, <2>2, <2>3
  <2>5. Mass + 2 \in Nat /\ (Mass + 2) + 1 = Mass + 3
    BY <1>1
  <2>6. AtMost(g[m], (Mass + 2) * Base)
    BY <2>1, <2>4, Zenon
  <2>7. AtMost(c, (Mass + 2) + 1)
    BY <1>2, <1>3, <1>4, <2>5, <2>6, CarriedFew, Zenon
  <2> QED
    BY <2>5, <2>7, Zenon
<1>8. 2^Width(m + 1) \in Nat /\ 2^Width(m + 1) <= 2 * Base
  BY <1>2, StageFacts
<1>9. /\ m + 1 <= Side - 2 => AtMost(g[m + 1], Big)
      /\ m + 1 >= Side - 1 => AtMost(2 * g[m + 1], 2^Width(m + 1))
  <2>1. m + 1 <= Side - 2 => m + 1 \in (m + 1)..(Side - 2)
    BY <1>1, <1>2
  <2>2. m + 1 >= Side - 1 => m + 1 \in (Side - 1)..(Side + m - 2) /\ m + 1 # m
    BY <1>1, <1>2
  <2> QED
    BY <1>2, <2>1, <2>2 DEF Stage
<1>10. AtMost(e[m + 1], Big + Load) /\ (m + 1 = Side - 1 => AtMost(e[m + 1], Base + Load))
  <2>1. CASE m + 1 <= Side - 2
    BY <1>1, <1>2, <1>3, <1>5, <1>6, <1>9, <2>1 DEF AtMost
  <2>2. CASE m + 1 >= Side - 1
    BY <1>1, <1>2, <1>3, <1>5, <1>6, <1>8, <1>9, <2>2, SMTT(60) DEF AtMost
  <2> QED
    BY <1>1, <1>2, <2>1, <2>2
<1>11. m + 1 = Side => AtMost(2 * e[m + 1], 2^Width(m + 1) + 2 * (Mass + 3))
  <2> SUFFICES ASSUME m + 1 = Side
      PROVE  AtMost(2 * e[m + 1], 2^Width(m + 1) + 2 * (Mass + 3))
    OBVIOUS
  <2>1. m = Side - 1 /\ m + 1 >= Side - 1
    BY <1>1, <1>2
  <2>2. AtMost(c, Mass + 3) /\ AtMost(2 * g[m + 1], 2^Width(m + 1))
    BY <1>7, <1>9, <2>1
  <2> QED
    BY <1>1, <1>3, <1>5, <1>8, <2>2 DEF AtMost
<1> QED
  BY <1>5, <1>10, <1>11 DEF Between, e

(* The second carry of a pair ends the stage.                              *)
LEMMA SecondOfPair ==
  ASSUME RoomyElements, NEW m \in 0..(Side - 1), NEW g, Stage(m, g), NEW e, Between(m, g, e)
  PROVE  Stage(m + 1, Carry(e, m + Side - 1))
<1> DEFINE i == m + Side - 1
           u == Carry(e, i)
<1>1. /\ Limb = 0..(2 * Side - 1) /\ Side \in Nat /\ Side >= 3 /\ N = 2 * Side
      /\ Big \in Nat /\ Load \in Nat /\ Mass \in Nat /\ Base \in Nat
  BY StageFacts
<1>2. /\ i \in Limb /\ i + 1 \in Limb /\ Following(i) = i + 1 /\ i # N - 1 /\ i # m /\ i # m + 1
      /\ i + 1 # m /\ i + 1 # m + 1 /\ m \in Nat /\ m \in Limb /\ m + 1 \in Limb
  BY <1>1 DEF Following
<1>3. /\ g \in Vectors /\ e \in Vectors /\ e[i] \in Int /\ e[i + 1] \in Int
      /\ e[i] = g[i] /\ e[i + 1] = g[i + 1]
  <2>1. g \in Vectors /\ e \in Vectors /\ e[i] = g[i] /\ e[i + 1] = g[i + 1]
    BY <1>2 DEF Stage, Between
  <2> QED
    BY <1>2, <2>1 DEF Vectors
<1>4. PICK c : Carries(e, i, u, c)
  BY <1>2, <1>3, CarrySizes
<1>5. /\ u \in Vectors /\ c \in Int /\ AtMost(2 * u[i], 2^Width(i))
      /\ u[i + 1] = e[i + 1] + c
      /\ \A j \in Limb : j # i /\ j # i + 1 => u[j] = e[j]
  BY <1>2, <1>4 DEF Carries, Gained
<1>6. AtMost(e[i], Big + Load) /\ AtMost(g[i + 1], Big)
  <2>1. AtMost(g[i], Big + Load)
    BY <1>2 DEF Stage
  <2>2. i + 1 >= Side + m
    BY <1>1, <1>2
  <2>3. AtMost(g[i + 1], Big)
    BY <1>2, <2>2 DEF Stage
  <2> QED
    BY <1>3, <2>1, <2>3
<1> HIDE DEF u
<1>7. AtMost(c, Load)
  BY <1>2, <1>3, <1>4, <1>6, CarriedLoad, Zenon
<1>8. AtMost(u[i + 1], Big + Load)
  BY <1>1, <1>3, <1>5, <1>6, <1>7 DEF AtMost
<1>9. 2^Width(i) \in Nat /\ 2^Width(i) <= 2 * Base /\ 2 * Base <= Big /\ u[i] \in Int
  BY <1>2, <1>5, StageFacts DEF Vectors
<1>10. AtMost(u[i], Big + Load)
  BY <1>1, <1>5, <1>9 DEF AtMost
<1>11. 2^Width(m) \in Nat /\ 2^Width(m) <= 2 * Base /\ e[m] \in Int
  BY <1>2, <1>3, StageFacts DEF Vectors
<1>12. AtMost(e[m], Big + Load)
  BY <1>1, <1>9, <1>11 DEF AtMost, Between
<1>13. ASSUME NEW j \in Limb
       PROVE  AtMost(u[j], Big + Load)
  <2>1. CASE j = i
    BY <1>10, <2>1
  <2>2. CASE j = i + 1
    BY <1>8, <2>2
  <2>3. CASE j = m
    BY <1>2, <1>5, <1>12, <2>3
  <2>4. CASE j = m + 1
    BY <1>2, <1>5, <2>4 DEF Between
  <2>5. CASE j # i /\ j # i + 1 /\ j # m /\ j # m + 1
    BY <1>5, <2>5 DEF Between, Stage
  <2> QED
    BY <2>1, <2>2, <2>3, <2>4, <2>5
<1>14. ASSUME NEW j \in Limb, j \in ((m + 1) + 1)..(Side - 2) \/ j >= Side + (m + 1)
       PROVE  AtMost(u[j], Big)
  <2>1. /\ j # i /\ j # i + 1 /\ j # m /\ j # m + 1
        /\ j \in (m + 1)..(Side - 2) \/ j >= Side + m
    BY <1>1, <1>14, <1>2
  <2>2. u[j] = g[j]
    BY <1>5, <2>1 DEF Between
  <2> QED
    BY <2>1, <2>2 DEF Stage
<1>15. ASSUME NEW j \in Limb,
              j < m + 1 \/ (j \in (Side - 1)..(Side + (m + 1) - 2) /\ j # m + 1)
       PROVE  AtMost(2 * u[j], 2^Width(j))
  <2>1. CASE j = i
    BY <1>5, <2>1
  <2>2. CASE j = m
    BY <1>2, <1>5, <2>2 DEF Between
  <2>3. CASE j # i /\ j # m
    <3>1. /\ j # i + 1 /\ j # m + 1
          /\ j < m \/ (j \in (Side - 1)..(Side + m - 2) /\ j # m)
      BY <1>1, <1>2, <1>15, <2>3
    <3>2. u[j] = g[j]
      BY <1>5, <2>3, <3>1 DEF Between
    <3> QED
      BY <3>1, <3>2 DEF Stage
  <2> QED
    BY <2>1, <2>2, <2>3
<1>16. u[m + 1] = e[m + 1]
  BY <1>2, <1>5
<1>17. /\ m + 1 = Side - 1 => AtMost(u[m + 1], Base + Load)
       /\ m + 1 = Side => AtMost(2 * u[m + 1], 2^Width(m + 1) + 2 * (Mass + 3))
  BY <1>16 DEF Between
<1> QED
  BY <1>5, <1>13, <1>14, <1>15, <1>17 DEF Stage, u

(* The bounds of the library's comments, in hundredths of half a width.    *)
Fits(f, bound) == \A j \in Limb : AtMost(200 * f[j], bound * 2^Width(j))

(* The last two carries, of the last limb into the first and on.           *)
LEMMA LastCarries ==
  ASSUME RoomyElements, NEW g, Stage(Side, g)
  PROVE  Fits(Carry(Carry(g, N - 1), 0), 101)
<1> DEFINE e == Carry(g, N - 1)
           u == Carry(e, 0)
<1>1. /\ Limb = 0..(2 * Side - 1) /\ Side \in Nat /\ Side >= 3 /\ N = 2 * Side
      /\ Big \in Nat /\ Load \in Nat /\ Mass \in Nat /\ Base \in Nat
  BY StageFacts
<1>2. /\ 0 \in Limb /\ 1 \in Limb /\ Side \in Limb /\ N - 1 \in Limb
      /\ Following(N - 1) = 0 /\ Following(0) = 1 /\ 0 # N - 1 /\ Side # 0 /\ Side # 1
      /\ Side # N - 1 /\ 1 # N - 1
  BY <1>1 DEF Following
<1>3. g \in Vectors /\ \A j \in Limb : g[j] \in Int
  BY DEF Stage, Vectors
<1>4. PICK c : Carries(g, N - 1, e, c)
  BY <1>2, <1>3, CarrySizes
<1>5. /\ e \in Vectors /\ c \in Int /\ AtMost(2 * e[N - 1], 2^Width(N - 1))
      /\ e[0] = g[0] + C * c
      /\ \A j \in Limb : j # N - 1 /\ j # 0 => e[j] = g[j]
  BY <1>2, <1>4 DEF Carries, Gained
<1>6. \A j \in Limb : e[j] \in Int
  BY <1>5 DEF Vectors
<1> HIDE DEF e
<1>7. PICK d : Carries(e, 0, u, d)
  BY <1>2, <1>5, CarrySizes
<1>8. /\ u \in Vectors /\ d \in Int /\ AtMost(2 * u[0], 2^Width(0))
      /\ u[1] = e[1] + d
      /\ \A j \in Limb : j # 0 /\ j # 1 => u[j] = e[j]
  BY <1>2, <1>7 DEF Carries, Gained
<1>9. \A j \in Limb : u[j] \in Int
  BY <1>8 DEF Vectors
<1> HIDE DEF u
<1>10. AtMost(c, Load)
  <2>1. AtMost(g[N - 1], Big + Load)
    BY <1>2 DEF Stage
  <2> QED
    BY <1>2, <1>3, <1>4, <2>1, CarriedLoad, Zenon
<1>11. /\ \A j \in Limb : 2^Width(j) \in Nat /\ Base <= 2^Width(j)
       /\ 2^Width(0) = 2 * Base /\ 200 * Extra <= Base /\ Extra \in Nat /\ Mass + 3 <= Extra
  BY RoomFacts
<1>12. AtMost(d, Extra)
  <2> DEFINE cm == C * (Mass + 1)
             cl == cm * Base
             cc == C * c
  <2>1. C \in Nat /\ cm \in Nat /\ cl \in Nat /\ cc \in Int /\ cm + 2 = Extra
    BY <1>1, <1>5, LimbFacts DEF Extra
  <2>2. C * Load = cl
    BY <1>1, <2>1, LimbFacts DEF Load
  <2>3. AtMost(cc, cl)
    <3>1. \A a, b, x \in Nat : b <= x => a * b <= a * x
      <4> TAKE a, b, x \in Nat
      <4> HAVE b <= x
      <4>1. PICK y \in Nat : x = b + y
        <5>1. x - b \in Nat /\ x = b + (x - b)
          OBVIOUS
        <5> QED
          BY <5>1
      <4>2. a * (b + y) = a * b + a * y /\ a * y \in Nat /\ a * b \in Nat
        OBVIOUS
      <4> QED
        BY <4>1, <4>2
    <3>2. CASE c >= 0
      <4>1. c \in Nat /\ c <= Load /\ Load \in Nat
        BY <1>1, <1>5, <1>10, <3>2 DEF AtMost
      <4>2. C * c <= C * Load /\ C * c >= 0
        BY <2>1, <3>1, <4>1
      <4> QED
        BY <2>1, <2>2, <4>2 DEF AtMost
    <3>3. CASE c < 0
      <4>1. 0 - c \in Nat /\ 0 - c <= Load /\ Load \in Nat
        BY <1>1, <1>5, <1>10, <3>3 DEF AtMost
      <4>2. C * (0 - c) <= C * Load /\ C * (0 - c) >= 0
        BY <2>1, <3>1, <4>1
      <4>3. C * (0 - c) = 0 - cc
        BY <1>5, <2>1
      <4> HIDE DEF cc, cl
      <4> QED
        BY <2>1, <2>2, <4>2, <4>3 DEF AtMost
    <3> QED
      BY <1>5, <3>2, <3>3
  <2>4. AtMost(2 * g[0], 2 * Base)
    <3>1. 0 < Side
      BY <1>1
    <3>2. AtMost(2 * g[0], 2^Width(0))
      BY <1>2, <3>1 DEF Stage
    <3> QED
      BY <1>11, <3>2
  <2>5. (cm + 1) * Base = cl + Base
    BY <1>1, <2>1
  <2>6. e[0] = g[0] + cc /\ g[0] \in Int
    BY <1>2, <1>3, <1>5
  <2> HIDE DEF cc, cl, cm
  <2>7. AtMost(e[0], cl + Base)
    BY <1>1, <2>1, <2>3, <2>4, <2>6 DEF AtMost
  <2>8. AtMost(e[0], (cm + 1) * Base) /\ cm + 1 \in Nat
    BY <2>1, <2>5, <2>7
  <2>9. AtMost(d, (cm + 1) + 1)
    BY <1>2, <1>6, <1>7, <2>8, CarriedFew, Zenon
  <2>10. (cm + 1) + 1 = Extra
    BY <2>1
  <2> QED
    BY <2>9, <2>10, Zenon
<1>13. ASSUME NEW j \in Limb
       PROVE  AtMost(2 * u[j], 2^Width(j) + 2 * Extra)
  <2>1. 2^Width(j) \in Nat /\ u[j] \in Int
    BY <1>9, <1>11
  <2>2. ASSUME AtMost(2 * u[j], 2^Width(j)) PROVE AtMost(2 * u[j], 2^Width(j) + 2 * Extra)
    BY <1>11, <2>1, <2>2 DEF AtMost
  <2>3. CASE j = 0
    BY <1>8, <2>2, <2>3
  <2>4. CASE j = N - 1
    <3>1. u[j] = e[j] /\ AtMost(2 * e[j], 2^Width(j))
      BY <1>2, <1>5, <1>8, <2>4
    <3> QED
      BY <2>2, <3>1
  <2>5. CASE j = Side
    <3>1. u[j] = g[j]
      BY <1>2, <1>5, <1>8, <2>5
    <3>2. AtMost(2 * g[j], 2^Width(j) + 2 * (Mass + 3))
      BY <2>5 DEF Stage
    <3> QED
      BY <1>1, <1>11, <2>1, <3>1, <3>2, SMTT(60) DEF AtMost
  <2>6. CASE j # 0 /\ j # N - 1 /\ j # Side
    <3>1. j < Side \/ (j \in (Side - 1)..(Side + Side - 2) /\ j # Side)
      BY <1>1, <2>6
    <3>2. AtMost(2 * g[j], 2^Width(j)) /\ e[j] = g[j] /\ g[j] \in Int
      BY <1>3, <1>5, <2>6, <3>1 DEF Stage
    <3>3. CASE j = 1
      <4>1. u[j] = g[j] + d
        BY <1>8, <3>2, <3>3
      <4> QED
        BY <1>8, <1>11, <1>12, <2>1, <3>2, <4>1 DEF AtMost
    <3>4. CASE j # 1
      <4>1. u[j] = g[j]
        BY <1>8, <2>6, <3>2, <3>4
      <4> QED
        BY <2>2, <3>2, <4>1
    <3> QED
      BY <3>3, <3>4
  <2> QED
    BY <2>3, <2>4, <2>5, <2>6
<1>14. \A j \in Limb : AtMost(200 * u[j], 101 * 2^Width(j))
  <2> TAKE j \in Limb
  <2> DEFINE w == 2^Width(j)
             x == u[j]
  <2>1. w \in Nat /\ Base <= w /\ x \in Int
    BY <1>9, <1>11
  <2>2. AtMost(2 * x, w + 2 * Extra)
    BY <1>13
  <2> HIDE DEF w, x
  <2>3. AtMost(200 * x, 101 * w)
    BY <1>1, <1>11, <2>1, <2>2, SMT DEF AtMost
  <2> QED
    BY <2>3 DEF w, x
<1> QED
  BY <1>14 DEF Fits, u, e

(* The limbs of a product after its carries are within 1.01 of half their  *)
(* width, if before them they were at most Big.                            *)
LEMMA MulCarriesFit ==
  ASSUME RoomyElements, NEW h \in Vectors, \A j \in Limb : AtMost(h[j], Big)
  PROVE  Fits(MulCarries(h), 101)
<1>1. /\ Limb = 0..(2 * Side - 1) /\ Side \in Nat /\ Side >= 3 /\ N = 2 * Side
      /\ Big \in Nat /\ Load \in Nat
  BY StageFacts
<1>2. /\ MulCarryOrder \in Seq(Limb) /\ Len(MulCarryOrder) = N + 2
      /\ \A m \in 0..(Side - 1) :
           /\ 2 * m + 1 \in 1..(N + 2) /\ 2 * m + 2 \in 1..(N + 2)
           /\ MulCarryOrder[2 * m + 1] = m /\ MulCarryOrder[2 * m + 2] = m + Side - 1
      /\ MulCarryOrder[N + 1] = N - 1 /\ MulCarryOrder[N + 2] = 0
  BY MulOrder
<1> DEFINE V == Vectors
<1>3. h \in V /\ \A g \in V, i \in Limb : Carry(g, i) \in V
  BY CarryExact
<1> HIDE DEF V
<1>4. PICK run \in [0..Len(MulCarryOrder) -> V] :
        /\ run[0] = h
        /\ run[Len(MulCarryOrder)] = Chain(h, MulCarryOrder)
        /\ \A k \in 1..Len(MulCarryOrder) : run[k] = Carry(run[k - 1], MulCarryOrder[k])
  BY <1>2, <1>3, CarryRuns
<1>5. /\ run[0] = h /\ run[N + 2] = MulCarries(h)
      /\ \A k \in 1..(N + 2) : run[k] = Carry(run[k - 1], MulCarryOrder[k])
  BY <1>2, <1>4 DEF MulCarries, Chain
<1> DEFINE S == {m \in Nat : m <= Side => Stage(m, run[2 * m])}
<1>6. 0 \in S
  <2>1. 2 * 0 = 0 /\ 0 # Side - 1 /\ 0 # Side
    BY <1>1
  <2>2. \A j \in Limb : AtMost(h[j], Big + Load) /\ h[j] \in Int
    BY <1>1 DEF AtMost, Vectors
  <2>3. \A j \in Limb : ~(j < 0 \/ (j \in (Side - 1)..(Side + 0 - 2) /\ j # 0))
    BY <1>1
  <2>4. Stage(0, h)
    BY <2>1, <2>2, <2>3 DEF Stage
  <2> QED
    BY <1>5, <2>1, <2>4
<1>7. \A m \in Nat : m \in S => m + 1 \in S
  <2> SUFFICES ASSUME NEW m \in Nat, m \in S, m + 1 <= Side
               PROVE  Stage(m + 1, run[2 * (m + 1)])
    OBVIOUS
  <2>1. m \in 0..(Side - 1) /\ m <= Side
    BY <1>1
  <2>2. Stage(m, run[2 * m])
    BY <2>1
  <2>3. /\ (2 * m + 1) - 1 = 2 * m /\ (2 * m + 2) - 1 = 2 * m + 1 /\ 2 * (m + 1) = 2 * m + 2
    OBVIOUS
  <2>4. run[2 * m + 1] = Carry(run[2 * m], m)
    <3>1. run[2 * m + 1] = Carry(run[(2 * m + 1) - 1], MulCarryOrder[2 * m + 1])
      BY <1>2, <1>5, <2>1, Zenon
    <3> QED
      BY <1>2, <2>1, <2>3, <3>1, Zenon
  <2>5. run[2 * m + 2] = Carry(run[2 * m + 1], m + Side - 1)
    <3>1. run[2 * m + 2] = Carry(run[(2 * m + 2) - 1], MulCarryOrder[2 * m + 2])
      BY <1>2, <1>5, <2>1, Zenon
    <3> QED
      BY <1>2, <2>1, <2>3, <3>1, Zenon
  <2> HIDE DEF S
  <2>6. Between(m, run[2 * m], run[2 * m + 1])
    BY <2>1, <2>2, <2>4, FirstOfPair
  <2>7. Stage(m + 1, run[2 * m + 2])
    BY <2>1, <2>2, <2>5, <2>6, SecondOfPair
  <2> QED
    BY <2>3, <2>7, Zenon
<1>8. Stage(Side, run[N])
  <2> HIDE DEF S
  <2>1. Side \in S
    BY <1>1, <1>6, <1>7, NaturalInduction
  <2> QED
    BY <1>1, <2>1 DEF S
<1>9. run[N + 1] = Carry(run[N], N - 1) /\ run[N + 2] = Carry(run[N + 1], 0)
  <2>1. /\ N + 1 \in 1..(N + 2) /\ N + 2 \in 1..(N + 2) /\ (N + 1) - 1 = N
        /\ (N + 2) - 1 = N + 1
    BY <1>1
  <2> QED
    BY <1>2, <1>5, <2>1, Zenon
<1> QED
  BY <1>5, <1>8, <1>9, LastCarries, Zenon

(* Sizes multiply and add.                                                 *)
LEMMA AtMostSum ==
  ASSUME NEW x \in Int, NEW a \in Int, NEW y \in Int, NEW b \in Int,
         AtMost(x, a), AtMost(y, b)
  PROVE  AtMost(x + y, a + b) /\ AtMost(0 - x, a) /\ AtMost(x - y, a + b)
BY DEF AtMost

(* What is within a, and within b of that.                                 *)
LEMMA AtMostMore ==
  ASSUME NEW x \in Int, NEW y \in Int, NEW a \in Int, NEW b \in Int, NEW c \in Int, b <= c
  PROVE  /\ AtMost(x, a) /\ AtMost(y - x, b) => AtMost(y, a + c)
         /\ AtMost(x, b) => AtMost(x, c)
         /\ AtMost(2 * x, a) /\ AtMost(y - x, b) => AtMost(2 * y, a + 2 * c)
BY DEF AtMost

(* The size of a product.                                                  *)
LEMMA AtMostProduct ==
  ASSUME NEW x \in Int, NEW a \in Nat, NEW y \in Int, NEW b \in Nat,
         AtMost(x, a), AtMost(y, b)
  PROVE  AtMost(x * y, a * b)
<1>1. \A m, k, r, s \in Nat : m <= r /\ k <= s => m * k <= r * s /\ m * k >= 0
  <2> TAKE m, k, r, s \in Nat
  <2> HAVE m <= r /\ k <= s
  <2>1. PICK d \in Nat : r = m + d
    <3>1. r - m \in Nat /\ r = m + (r - m)
      OBVIOUS
    <3> QED
      BY <3>1
  <2>2. PICK e \in Nat : s = k + e
    <3>1. s - k \in Nat /\ s = k + (s - k)
      OBVIOUS
    <3> QED
      BY <3>1
  <2>3. (m + d) * (k + e) = m * k + m * e + d * k + d * e
    OBVIOUS
  <2>4. m * k \in Nat /\ m * e \in Nat /\ d * k \in Nat /\ d * e \in Nat
    OBVIOUS
  <2> QED
    BY <2>1, <2>2, <2>3, <2>4
<1>2. \E m \in Nat : m <= a /\ (x = m \/ x = 0 - m)
  <2>1. x >= 0 => x \in Nat /\ x <= a
    BY DEF AtMost
  <2>2. x < 0 => 0 - x \in Nat /\ 0 - x <= a /\ x = 0 - (0 - x)
    BY DEF AtMost
  <2> QED
    BY <2>1, <2>2
<1>3. \E k \in Nat : k <= b /\ (y = k \/ y = 0 - k)
  <2>1. y >= 0 => y \in Nat /\ y <= b
    BY DEF AtMost
  <2>2. y < 0 => 0 - y \in Nat /\ 0 - y <= b /\ y = 0 - (0 - y)
    BY DEF AtMost
  <2> QED
    BY <2>1, <2>2
<1>4. PICK m \in Nat : m <= a /\ (x = m \/ x = 0 - m)
  BY <1>2
<1>5. PICK k \in Nat : k <= b /\ (y = k \/ y = 0 - k)
  BY <1>3
<1>6. m * k <= a * b /\ m * k >= 0 /\ m * k \in Int /\ a * b \in Int
  BY <1>1, <1>4, <1>5
<1>7. m * (0 - k) = 0 - m * k /\ (0 - m) * k = 0 - m * k /\ (0 - m) * (0 - k) = m * k
  OBVIOUS
<1>8. x * y = m * k \/ x * y = 0 - m * k
  BY <1>4, <1>5, <1>7
<1> QED
  BY <1>6, <1>8 DEF AtMost

(* A sum of terms of one size.                                             *)
LEMMA AtMostSums ==
  ASSUME NEW t, \A i \in Limb : t[i] \in Int, NEW b \in Nat,
         \A i \in Limb : AtMost(t[i], b)
  PROVE  AtMost(SumFunctionOnSet(t, Limb), N * b)
<1> DEFINE Sum(m) == SumFunctionOnSet(t, 0..(m - 1))
           S == {m \in Nat : m <= N => Sum(m) \in Int /\ AtMost(Sum(m), m * b)}
<1>1. 0 \in S
  <2>1. 0..(0 - 1) = {}
    OBVIOUS
  <2>2. Sum(0) = 0
    BY <2>1, SumOfNone
  <2>3. 0 * b = 0
    OBVIOUS
  <2> QED
    BY <2>2, <2>3 DEF AtMost
<1>2. ASSUME NEW m \in Nat, m \in S
      PROVE  m + 1 \in S
  <2> SUFFICES ASSUME m + 1 <= N
               PROVE  Sum(m + 1) \in Int /\ AtMost(Sum(m + 1), (m + 1) * b)
    OBVIOUS
  <2>1. /\ m \in Limb /\ m \in 0..m /\ (0..m) \ {m} = 0..(m - 1) /\ (m + 1) - 1 = m
        /\ \A i \in 0..m : i \in Limb
    BY LimbFacts DEF Limb
  <2>2. IsFiniteSet(0..m) /\ \A i \in 0..m : t[i] \in Int
    BY <2>1, FS_Interval
  <2>3. Sum(m + 1) = t[m] + Sum(m)
    BY <2>1, <2>2, SumSplit
  <2>4. Sum(m) \in Int /\ AtMost(Sum(m), m * b)
    BY <1>2, LimbFacts
  <2>5. (m + 1) * b = b + m * b /\ m * b \in Int
    OBVIOUS
  <2>6. t[m] \in Int /\ AtMost(t[m], b) /\ b \in Int
    BY <2>1
  <2> HIDE DEF Sum
  <2>7. AtMost(t[m] + Sum(m), b + m * b)
    BY <2>4, <2>5, <2>6, AtMostSum, Zenon
  <2> QED
    BY <2>3, <2>4, <2>5, <2>6, <2>7
<1>3. Nat \subseteq S
  <2> HIDE DEF S
  <2> QED
    BY <1>1, <1>2, NaturalInduction
<1>4. AtMost(Sum(N), N * b)
  BY <1>3, LimbFacts
<1> QED
  BY <1>4 DEF Limb

(* A term of limbs that fit 330 hundredths.                                *)
LEMMA TermSize ==
  ASSUME RoomyElements, NEW f \in Vectors, Fits(f, 330), NEW g \in Vectors, Fits(g, 330),
         NEW i \in Limb, NEW j \in Limb
  PROVE  AtMost(Term(f, g, i, j), 11 * (C * (Base * Base)))
<1> DEFINE x == 2^Width(i)
           y == 2^Width(j)
           d == Doubled(i, j)
           c == IF i + j < N THEN 1 ELSE C
           bb == Base * Base
<1>1. Base \in Nat /\ bb \in Nat /\ C \in Nat /\ C >= 1 /\ c \in Nat /\ c <= C
  BY RoomFacts, LimbFacts
<1>2. /\ x \in Nat /\ y \in Nat /\ d \in {1, 2} /\ f[i] \in Int /\ g[j] \in Int
  BY RoomFacts DEF Doubled, Vectors
<1>3. d * (x * y) <= 4 * bb /\ x * y \in Nat
  <2>1. \A k \in Limb : 2^Width(k) = IF k % 2 = 0 THEN 2 * Base ELSE Base
    <3> TAKE k \in Limb
    <3>1. W \in Nat /\ 2^(W + 1) = 2^W + 2^W /\ 2^W \in Nat
      BY LimbFacts, PowerSuccessor, PowerPositive
    <3> QED
      BY <3>1 DEF Width, Base
  <2>2. i \in Nat /\ j \in Nat
    BY LimbFacts DEF Limb
  <2>3. x = (IF i % 2 = 0 THEN 2 * Base ELSE Base) /\ y = IF j % 2 = 0 THEN 2 * Base ELSE Base
    BY <2>1
  <2>4. (i % 2 = 0 \/ i % 2 = 1) /\ (j % 2 = 0 \/ j % 2 = 1)
    BY <2>2
  <2>5. /\ (2 * Base) * (2 * Base) = 4 * bb /\ Base * (2 * Base) = 2 * bb
        /\ (2 * Base) * Base = 2 * bb
    BY <1>1
  <2> HIDE DEF x, y, bb
  <2>6. CASE i % 2 = 0 /\ j % 2 = 0
    BY <1>1, <2>3, <2>5, <2>6 DEF Doubled
  <2>7. CASE i % 2 = 0 /\ j % 2 = 1
    BY <1>1, <2>3, <2>5, <2>7 DEF Doubled
  <2>8. CASE i % 2 = 1 /\ j % 2 = 0
    BY <1>1, <2>3, <2>5, <2>8 DEF Doubled
  <2>9. CASE i % 2 = 1 /\ j % 2 = 1
    BY <1>1, <2>3, <2>5, <2>9 DEF Doubled, bb
  <2> QED
    BY <2>4, <2>6, <2>7, <2>8, <2>9
<1>4. AtMost(20 * f[i], 33 * x) /\ AtMost(20 * g[j], 33 * y)
  <2>1. AtMost(200 * f[i], 330 * x) /\ AtMost(200 * g[j], 330 * y)
    BY DEF Fits
  <2> HIDE DEF x, y
  <2> QED
    BY <1>2, <2>1, SMT DEF AtMost
<1>5. AtMost((20 * f[i]) * (20 * g[j]), (33 * x) * (33 * y))
  <2>1. 20 * f[i] \in Int /\ 33 * x \in Nat /\ 20 * g[j] \in Int /\ 33 * y \in Nat
    BY <1>2
  <2> QED
    BY <1>4, <2>1, AtMostProduct, Zenon
<1> DEFINE fg == f[i] * g[j]
           xy == x * y
           dc == d * c
<1>6. (20 * f[i]) * (20 * g[j]) = 400 * fg /\ (33 * x) * (33 * y) = 1089 * xy /\ fg \in Int
  BY <1>2
<1>7. AtMost(400 * fg, 1089 * xy) /\ fg \in Int /\ xy \in Nat
  BY <1>3, <1>5, <1>6
<1>8. dc \in Nat
  BY <1>1, <1>2
<1>9. Term(f, g, i, j) = dc * fg
  <2>1. Term(f, g, i, j) = d * c * f[i] * g[j]
    BY DEF Term
  <2>2. \A s, t, u, v \in Int : s * t * u * v = (s * t) * (u * v)
    OBVIOUS
  <2>3. d \in Int /\ c \in Int
    BY <1>1, <1>2
  <2> HIDE DEF d, c
  <2> QED
    BY <1>2, <2>1, <2>2, <2>3
<1>10. dc * xy <= 4 * (C * bb)
  <2>1. dc * xy = c * (d * xy)
    <3>1. \A s, t, u \in Int : (s * t) * u = t * (s * u)
      OBVIOUS
    <3>2. d \in Int /\ c \in Int /\ xy \in Int
      BY <1>1, <1>2, <1>3
    <3> HIDE DEF d, c, xy
    <3> QED
      BY <3>1, <3>2
  <2>2. d * xy \in Nat /\ d * xy <= 4 * bb /\ 4 * bb \in Nat
    BY <1>1, <1>2, <1>3
  <2> HIDE DEF d, c, xy, bb
  <2>3. AtMost(c, C) /\ AtMost(d * xy, 4 * bb)
    BY <1>1, <2>2 DEF AtMost
  <2>4. AtMost(c * (d * xy), C * (4 * bb))
    BY <1>1, <2>2, <2>3, AtMostProduct
  <2>5. C * (4 * bb) = 4 * (C * bb)
    BY <1>1
  <2> QED
    BY <2>1, <2>4, <2>5 DEF AtMost
<1> HIDE DEF dc, fg, xy, bb, c, d, x, y
<1>11. AtMost(dc * (400 * fg), dc * (1089 * xy))
  <2>1. 400 * fg \in Int /\ 1089 * xy \in Nat /\ dc \in Int /\ AtMost(dc, dc)
    BY <1>7, <1>8 DEF AtMost
  <2> QED
    BY <1>7, <1>8, <2>1, AtMostProduct
<1> DEFINE prod == dc * fg
           size == dc * xy
           most == C * bb
<1>12. /\ dc * (400 * fg) = 400 * prod /\ dc * (1089 * xy) = 1089 * size
       /\ prod \in Int /\ size \in Int /\ most \in Int
  BY <1>1, <1>7, <1>8
<1> HIDE DEF prod, size, most
<1>13. AtMost(400 * prod, 1089 * size) /\ size <= 4 * most
  BY <1>10, <1>11, <1>12 DEF size, most
<1>14. AtMost(prod, 11 * most)
  BY <1>12, <1>13, SMT DEF AtMost
<1> QED
  BY <1>9, <1>14 DEF prod, most, bb

(* So the sums of the products are half of what MulCarries takes.          *)
LEMMA ProductsSize ==
  ASSUME RoomyElements, NEW f \in Vectors, Fits(f, 330), NEW g \in Vectors, Fits(g, 330)
  PROVE  /\ MulProducts(f, g) \in Vectors
         /\ \A k \in Limb : AtMost(2 * MulProducts(f, g)[k], Big)
<1>1. MulProducts(f, g) \in Vectors
  BY MulProductsExact
<1>2. ASSUME NEW k \in Limb
      PROVE  AtMost(2 * MulProducts(f, g)[k], Big)
  <2> DEFINE t == [i \in Limb |-> Term(f, g, i, Other(k, i))]
             b == 11 * (C * (Base * Base))
             s == SumFunctionOnSet(t, Limb)
  <2>1. MulProducts(f, g)[k] = s
    BY MulProductsAreTerms
  <2>2. b \in Nat
    <3>1. Base * Base \in Nat /\ C \in Nat
      BY RoomFacts, LimbFacts
    <3>2. C * (Base * Base) \in Nat
      BY <3>1
    <3> QED
      BY <3>2
  <2>3. \A i \in Limb : t[i] \in Int /\ AtMost(t[i], b)
    <3> TAKE i \in Limb
    <3>1. Other(k, i) \in Limb
      BY OtherFacts
    <3> QED
      BY <3>1, TermExact, TermSize
  <2>4. Big = 2 * (N * b)
    <3> DEFINE bb == Base * Base
    <3>1. bb \in Nat /\ C \in Nat /\ N \in Nat
      BY RoomFacts, LimbFacts
    <3>2. Big = (22 * (N * C)) * bb
      BY DEF Big, Mass
    <3> HIDE DEF bb
    <3>3. \A x, y, z \in Nat : (22 * (x * y)) * z = 2 * (x * (11 * (y * z)))
      <4> TAKE x, y, z \in Nat
      <4>1. (22 * (x * y)) * z = 22 * ((x * y) * z) /\ x * y \in Nat /\ y * z \in Nat
        OBVIOUS
      <4>2. (x * y) * z = x * (y * z)
        OBVIOUS
      <4>3. x * (11 * (y * z)) = 11 * (x * (y * z))
        OBVIOUS
      <4> QED
        BY <4>1, <4>2, <4>3
    <3> QED
      BY <3>1, <3>2, <3>3 DEF bb
  <2> HIDE DEF t, b
  <2>5. AtMost(s, N * b)
    BY <2>2, <2>3, AtMostSums
  <2>6. s \in Int /\ N * b \in Int
    BY <1>1, <2>1, <2>2, LimbFacts DEF Vectors
  <2> HIDE DEF s
  <2>7. AtMost(2 * s, 2 * (N * b))
    BY <2>5, <2>6 DEF AtMost
  <2> QED
    BY <2>1, <2>4, <2>7
<1> QED
  BY <1>1, <1>2

(* fe_mul, fe_sq and fe_sq2, of limbs within 1.65 of their width, leave    *)
(* limbs within 1.01 of half of it.                                        *)
THEOREM ProductsFit ==
  ASSUME RoomyElements, NEW f \in Vectors, Fits(f, 330), NEW g \in Vectors, Fits(g, 330)
  PROVE  Fits(fe_mul(f, g), 101) /\ Fits(fe_sq(f), 101) /\ Fits(fe_sq2(f), 101)
<1>1. ASSUME NEW e \in Vectors, Fits(e, 330)
      PROVE  Fits(MulCarries(MulProducts(f, e)), 101)
  <2> DEFINE h == MulProducts(f, e)
  <2>1. h \in Vectors /\ Big \in Nat /\ \A k \in Limb : h[k] \in Int /\ AtMost(2 * h[k], Big)
    BY <1>1, ProductsSize, RoomFacts DEF Vectors
  <2> HIDE DEF h
  <2>2. \A k \in Limb : AtMost(h[k], Big)
    BY <2>1 DEF AtMost
  <2>3. Fits(MulCarries(h), 101)
    BY <2>1, <2>2, MulCarriesFit
  <2> QED
    BY <2>3 DEF h
<1>2. SquareProducts(f) = MulProducts(f, f)
  BY SquareProductsExact
<1>3. Fits(MulCarries(fe_add(MulProducts(f, f), MulProducts(f, f))), 101)
  <2> DEFINE h == MulProducts(f, f)
             s == fe_add(h, h)
  <2>1. h \in Vectors /\ \A k \in Limb : h[k] \in Int /\ AtMost(2 * h[k], Big)
    BY ProductsSize DEF Vectors
  <2>2. \A k \in Limb : s[k] = h[k] + h[k]
    BY DEF fe_add
  <2>3. s \in Vectors
    BY <2>1, AddExact
  <2> HIDE DEF h, s
  <2>4. \A k \in Limb : AtMost(s[k], Big)
    <3> TAKE k \in Limb
    <3>1. h[k] + h[k] = 2 * h[k]
      BY <2>1
    <3> QED
      BY <2>1, <2>2, <3>1
  <2>5. Fits(MulCarries(s), 101)
    BY <2>3, <2>4, MulCarriesFit
  <2> QED
    BY <2>5 DEF s, h
<1> QED
  BY <1>1, <1>2, <1>3 DEF fe_mul, fe_sq, fe_sq2

(* The order of the carries after a load: the last limb, the other odd     *)
(* ones, the even ones.                                                    *)
LEMMA LoadOrder ==
  /\ LoadCarryOrder \in Seq(Limb) /\ Len(LoadCarryOrder) = 2 * Side
  /\ LoadCarryOrder[1] = N - 1
  /\ \A m \in 1..(Side - 1) : LoadCarryOrder[m + 1] = 2 * m - 1
  /\ \A m \in 0..(Side - 1) : LoadCarryOrder[Side + m + 1] = 2 * m
<1> DEFINE half == N \div 2
           first == << N - 1 >>
           odd == [k \in 1..(Side - 1) |-> 2 * k - 1]
           even == [k \in 1..Side |-> 2 * k - 2]
<1>1. N \in Nat /\ N = 2 * Side /\ Side \in Nat /\ Side >= 1
  BY SideFacts
<1>2. LoadCarryOrder = (first \o odd) \o even
  BY DEF LoadCarryOrder, Side
<1>3. first \in Seq(Int) /\ Len(first) = 1 /\ first[1] = N - 1
  BY <1>1
<1>4. odd \in Seq(Int) /\ Len(odd) = Side - 1 /\ \A m \in 1..(Side - 1) : odd[m] = 2 * m - 1
  <2>1. odd \in [1..(Side - 1) -> Int] /\ Side - 1 \in Nat /\ DOMAIN odd = 1..(Side - 1)
    BY <1>1
  <2>2. \A m \in 1..(Side - 1) : odd[m] = 2 * m - 1
    OBVIOUS
  <2> HIDE DEF odd
  <2> QED
    BY <2>1, <2>2
<1>5. even \in Seq(Int) /\ Len(even) = Side /\ \A m \in 1..Side : even[m] = 2 * m - 2
  <2>1. even \in [1..Side -> Int] /\ DOMAIN even = 1..Side
    BY <1>1
  <2>2. \A m \in 1..Side : even[m] = 2 * m - 2
    OBVIOUS
  <2> HIDE DEF even
  <2> QED
    BY <1>1, <2>1, <2>2
<1> HIDE DEF first, odd, even
<1> DEFINE both == first \o odd
<1>6. Joins(both, first, odd) /\ both \in Seq(Int)
  BY <1>3, <1>4, JoinFacts
<1> HIDE DEF both
<1>7. Joins(both \o even, both, even)
  BY <1>5, <1>6, JoinFacts
<1>8. Len(both) = Side /\ Len(both \o even) = 2 * Side
  BY <1>1, <1>3, <1>4, <1>5, <1>6, <1>7 DEF Joins
<1>9. (both \o even)[1] = N - 1
  <2>1. 1 \in 1..Len(both) /\ 1 \in 1..Len(first)
    BY <1>1, <1>3, <1>8
  <2> QED
    BY <1>3, <1>6, <1>7, <2>1, Zenon DEF Joins
<1>10. ASSUME NEW m \in 1..(Side - 1)
       PROVE  (both \o even)[m + 1] = 2 * m - 1
  <2>1. m + 1 \in 1..Len(both) /\ m \in 1..Len(odd) /\ m + 1 = Len(first) + m
    BY <1>1, <1>3, <1>4, <1>8
  <2>2. (both \o even)[m + 1] = both[m + 1]
    BY <1>7, <2>1, Zenon DEF Joins
  <2>3. both[m + 1] = odd[m]
    BY <1>6, <2>1, Zenon DEF Joins
  <2> QED
    BY <1>4, <2>2, <2>3
<1>11. ASSUME NEW m \in 0..(Side - 1)
       PROVE  (both \o even)[Side + m + 1] = 2 * m
  <2>1. m + 1 \in 1..Len(even) /\ Side + m + 1 = Len(both) + (m + 1)
    BY <1>1, <1>5, <1>8
  <2>2. (both \o even)[Len(both) + (m + 1)] = even[m + 1]
    BY <1>7, <2>1, Zenon DEF Joins
  <2>3. m + 1 \in 1..Side /\ 2 * (m + 1) - 2 = 2 * m
    BY <1>1
  <2> QED
    BY <1>5, <2>1, <2>2, <2>3
<1> QED
  BY <1>2, <1>8, <1>9, <1>10, <1>11, OrdersAreSequences DEF both

(* What is loaded into a limb is at most Mass times its width.             *)
LEMMA LoadSize ==
  ASSUME RoomyElements, NEW s \in Nat, NEW i \in Limb
  PROVE  LoadLimbs(s)[i] \in Int /\ AtMost(LoadLimbs(s)[i], Mass * 2^Width(i))
<1> DEFINE bits == Cut[i + 1] - Cut[i]
           up == Cut[i] - Pos(i)
           over == Cut[i + 1] - Pos(i + 1)
           d == (s \div 2^Cut[i]) % 2^bits
<1>1. /\ i \in 0..N /\ i + 1 \in 0..N /\ Cut[i] \in Nat /\ Cut[i + 1] \in Nat
      /\ bits \in Nat /\ up \in Nat /\ Pos(i) \in Nat /\ Pos(i + 1) = Pos(i) + Width(i)
      /\ Width(i) \in Nat /\ bits + up = over + Width(i)
  <2>1. i \in 0..N /\ i + 1 \in 0..N
    BY LimbFacts DEF Limb
  <2> QED
    BY <2>1, Positions, LimbsAssumption, SMTT(60)
<1>2. over \in Nat
  <2>1. CASE i + 1 = N
    BY <2>1, LimbsAssumption, Positions DEF K
  <2>2. CASE i + 1 # N
    <3>1. i + 1 \in Limb
      BY <1>1, <2>2, LimbFacts DEF Limb
    <3>2. Pos(i + 1) <= Cut[i + 1] /\ Pos(i + 1) \in Nat
      BY <1>1, <3>1, Positions, LimbsAssumption
    <3> QED
      BY <1>1, <3>2
  <2> QED
    BY <2>1, <2>2
<1>3. 2^over <= Mass /\ Mass \in Nat
  BY RoomFacts DEF RoomyElements
<1>4. LoadLimbs(s)[i] = d * 2^up
  BY DEF LoadLimbs
<1> HIDE DEF over, up, bits
<1>5. /\ 2^Cut[i] \in Nat /\ 2^Cut[i] > 0 /\ 2^bits \in Nat /\ 2^bits > 0 /\ 2^up \in Nat
      /\ 2^over \in Nat /\ 2^Width(i) \in Nat
  BY <1>1, <1>2, PowerPositive
<1>6. d \in 0..(2^bits - 1)
  <2>1. s \div 2^Cut[i] \in Int
    BY <1>5, Division
  <2> QED
    BY <1>5, <2>1, Division
<1>7. 2^bits * 2^up = 2^over * 2^Width(i)
  <2>1. 2^(bits + up) = 2^bits * 2^up
    BY <1>1, PowerSum
  <2>2. 2^(over + Width(i)) = 2^over * 2^Width(i)
    BY <1>1, <1>2, PowerSum
  <2> QED
    BY <1>1, <2>1, <2>2
<1> DEFINE b == 2^bits
           u == 2^up
           o == 2^over
           w == 2^Width(i)
<1>8. b \in Nat /\ u \in Nat /\ o \in Nat /\ w \in Nat /\ b * u = o * w /\ o <= Mass /\ d \in 0..(b - 1)
  BY <1>3, <1>5, <1>6, <1>7
<1> HIDE DEF b, u, o, w, d
<1>9. AtMost(d * u, b * u) /\ AtMost(o * w, Mass * w) /\ d * u \in Int
  <2>1. AtMost(d, b) /\ AtMost(u, u) /\ AtMost(o, Mass) /\ AtMost(w, w) /\ d \in Int
    BY <1>3, <1>8 DEF AtMost
  <2>2. AtMost(d * u, b * u)
    BY <1>8, <2>1, AtMostProduct
  <2>3. AtMost(o * w, Mass * w)
    BY <1>3, <1>8, <2>1, AtMostProduct
  <2>4. d * u \in Int
    BY <1>8, <2>1
  <2> QED
    BY <2>2, <2>3, <2>4
<1>10. AtMost(d * u, Mass * w)
  <2> DEFINE x == d * u
             y == o * w
             z == Mass * w
  <2>1. x \in Int /\ y \in Int /\ z \in Int /\ AtMost(x, y) /\ AtMost(y, z)
    BY <1>3, <1>8, <1>9
  <2> HIDE DEF x, y, z
  <2>2. AtMost(x, z)
    BY <2>1 DEF AtMost
  <2> QED
    BY <2>2 DEF x, z
<1> QED
  BY <1>4, <1>9, <1>10 DEF u, w

(* After the last limb and m - 1 of the other odd limbs were carried.      *)
OddStage(m, g) ==
  /\ g \in Vectors
  /\ \A j \in Limb :
       IF j % 2 = 1
       THEN IF j = N - 1 \/ j < 2 * m - 2 THEN AtMost(2 * g[j], 2^Width(j))
            ELSE AtMost(g[j], Mass * 2^Width(j))
       ELSE AtMost(g[j], Mass * 2^Width(j) + C * (Mass + 1))
  /\ \A j \in Limb : j % 2 = 0 /\ j > 2 * m - 2 => AtMost(g[j], Mass * 2^Width(j))

(* After the odd limbs and m of the even ones.                             *)
EvenStage(m, g) ==
  /\ g \in Vectors
  /\ \A j \in Limb :
       IF j % 2 = 0
       THEN IF j < 2 * m THEN AtMost(2 * g[j], 2^Width(j))
            ELSE AtMost(g[j], (Mass + 1) * 2^Width(j))
       ELSE AtMost(2 * g[j], 2^Width(j) + (IF j < 2 * m THEN 2 * Extra ELSE 0))

(* The carry of a limb that is at most x times its width.                  *)
LEMMA CarriedOnce ==
  ASSUME RoomyElements, NEW g \in Vectors, NEW i \in Limb, NEW x \in Nat,
         AtMost(g[i], x * 2^Width(i))
  PROVE  LET u == Carry(g, i)
             f == Following(i)
         IN  /\ u \in Vectors /\ f \in Limb /\ f # i
             /\ AtMost(2 * u[i], 2^Width(i))
             /\ AtMost(u[f] - g[f], Gained(i, x + 1))
             /\ \A j \in Limb : j # i /\ j # f => u[j] = g[j]
<1> DEFINE u == Carry(g, i)
           f == Following(i)
<1>1. PICK c : Carries(g, i, u, c)
  BY CarrySizes
<1>2. f \in Limb /\ f # i
  BY FollowingFacts
<1> HIDE DEF u, f
<1>3. /\ u \in Vectors /\ c \in Int /\ AtMost(2 * u[i], 2^Width(i)) /\ AtMost(c, x + 1)
      /\ u[f] = g[f] + Gained(i, c)
      /\ \A j \in Limb : j # i /\ j # f => u[j] = g[j]
  BY <1>1 DEF Carries, f
<1>4. Gained(i, c) \in Int /\ AtMost(Gained(i, c), Gained(i, x + 1)) /\ Gained(i, x + 1) \in Int
  <2>1. CASE i = N - 1
    <3>1. C \in Nat /\ AtMost(C, C) /\ C \in Int /\ x + 1 \in Nat
      BY LimbFacts DEF AtMost
    <3>2. AtMost(C * c, C * (x + 1))
      BY <1>3, <3>1, AtMostProduct
    <3>3. C * c \in Int /\ C * (x + 1) \in Int
      BY <1>3, <3>1
    <3> QED
      BY <2>1, <3>2, <3>3 DEF Gained
  <2>2. CASE i # N - 1
    BY <1>3, <2>2 DEF Gained
  <2> QED
    BY <2>1, <2>2
<1>5. AtMost(u[f] - g[f], Gained(i, x + 1))
  <2>1. g[f] \in Int
    BY <1>2 DEF Vectors
  <2>2. u[f] - g[f] = Gained(i, c)
    BY <1>3, <1>4, <2>1
  <2> QED
    BY <1>4, <2>2
<1> QED
  BY <1>2, <1>3, <1>5, Zenon DEF u, f

(* The limbs of the load, their widths and what is known of Mass.          *)
LEMMA LoadFacts ==
  ASSUME RoomyElements
  PROVE  /\ Limb = 0..(2 * Side - 1) /\ Side \in Nat /\ Side >= 3 /\ N = 2 * Side
         /\ Mass \in Nat /\ Extra \in Nat /\ C * (Mass + 1) \in Nat
         /\ Mass + 1 <= C * (Mass + 1) /\ C * (Mass + 1) + 2 = Extra /\ Mass + 3 <= Extra
         /\ \A j \in Limb : /\ 2^Width(j) \in Nat /\ 200 * Extra <= 2^Width(j)
                            /\ Mass * 2^Width(j) \in Nat
                            /\ (Mass + 1) * 2^Width(j) = Mass * 2^Width(j) + 2^Width(j)
<1>1. /\ Limb = 0..(2 * Side - 1) /\ Side \in Nat /\ Side >= 3 /\ N = 2 * Side /\ Mass \in Nat
  BY StageFacts
<1>2. C \in Nat /\ C >= 1 /\ Extra \in Nat
  BY LimbFacts, RoomFacts
<1>3. C * (Mass + 1) \in Nat /\ Mass + 1 <= C * (Mass + 1)
  <2>1. PICK y \in Nat : C = 1 + y
    BY <1>2
  <2>2. (1 + y) * (Mass + 1) = (Mass + 1) + y * (Mass + 1) /\ y * (Mass + 1) \in Nat
    BY <1>1
  <2> QED
    BY <1>1, <2>1, <2>2
<1>4. ASSUME NEW j \in Limb
      PROVE  /\ 2^Width(j) \in Nat /\ 200 * Extra <= 2^Width(j)
             /\ Mass * 2^Width(j) \in Nat
             /\ (Mass + 1) * 2^Width(j) = Mass * 2^Width(j) + 2^Width(j)
  <2>1. 2^Width(j) \in Nat /\ Base <= 2^Width(j) /\ 200 * Extra <= Base /\ Base \in Nat
    BY RoomFacts
  <2>2. 200 * Extra <= 2^Width(j)
    BY <1>2, <2>1
  <2> QED
    BY <1>1, <2>1, <2>2
<1>5. C * (Mass + 1) + 2 = Extra
  BY DEF Extra
<1>6. Mass + 3 <= Extra
  BY RoomFacts
<1> QED
  BY <1>1, <1>2, <1>3, <1>4, <1>5, <1>6

(* The first carry of a load is that of the last limb into the first.      *)
LEMMA OddStart ==
  ASSUME RoomyElements, NEW g \in Vectors, \A j \in Limb : AtMost(g[j], Mass * 2^Width(j))
  PROVE  OddStage(1, Carry(g, N - 1))
<1> DEFINE u == Carry(g, N - 1)
           gain == C * (Mass + 1)
<1>1. /\ Limb = 0..(2 * Side - 1) /\ Side \in Nat /\ Side >= 3 /\ N = 2 * Side
      /\ Mass \in Nat /\ gain \in Nat
      /\ \A j \in Limb : 2^Width(j) \in Nat /\ Mass * 2^Width(j) \in Nat
  BY LoadFacts
<1>2. N - 1 \in Limb /\ 0 \in Limb /\ Following(N - 1) = 0 /\ (N - 1) % 2 = 1 /\ 0 % 2 = 0
  BY <1>1 DEF Following
<1>3. /\ u \in Vectors /\ AtMost(2 * u[N - 1], 2^Width(N - 1)) /\ AtMost(u[0] - g[0], gain)
      /\ \A j \in Limb : j # N - 1 /\ j # 0 => u[j] = g[j]
  BY <1>1, <1>2, CarriedOnce DEF Gained
<1> HIDE DEF u, gain
<1>4. ASSUME NEW j \in Limb, j % 2 # 1
      PROVE  AtMost(u[j], Mass * 2^Width(j) + gain)
  <2> DEFINE m == Mass * 2^Width(j)
  <2>1. m \in Nat /\ AtMost(g[j], m) /\ g[j] \in Int /\ u[j] \in Int /\ j # N - 1
    BY <1>1, <1>2, <1>3, <1>4 DEF Vectors
  <2> HIDE DEF m
  <2>2. CASE j = 0
    <3>1. AtMost(u[j] - g[j], gain) /\ m \in Int /\ gain \in Int /\ gain <= gain
      BY <1>1, <1>3, <2>1, <2>2
    <3>2. AtMost(u[j], m + gain)
      BY <2>1, <3>1, AtMostMore, Zenon
    <3> QED
      BY <3>2 DEF m
  <2>3. CASE j # 0
    <3>1. u[j] = g[j] /\ m \in Int /\ m + gain \in Int /\ m <= m + gain
      BY <1>1, <1>3, <2>1, <2>3
    <3>2. AtMost(u[j], m + gain)
      BY <2>1, <3>1, AtMostMore, Zenon
    <3> QED
      BY <3>2 DEF m
  <2> QED
    BY <2>2, <2>3
<1>5. ASSUME NEW j \in Limb, j # 0, j # N - 1
      PROVE  AtMost(u[j], Mass * 2^Width(j))
  BY <1>3, <1>5
<1>6. \A j \in Limb : j % 2 = 1 => j # 0 /\ ~(j < 2 * 1 - 2)
  BY <1>1, <1>2
<1>7. \A j \in Limb : j % 2 = 0 /\ j > 2 * 1 - 2 => j # 0 /\ j # N - 1
  BY <1>1, <1>2
<1> QED
  BY <1>2, <1>3, <1>4, <1>5, <1>6, <1>7 DEF OddStage, u, gain

(* Then the other odd limbs, from the lowest up.                           *)
LEMMA OddStep ==
  ASSUME RoomyElements, NEW m \in 1..(Side - 1), NEW g, OddStage(m, g)
  PROVE  OddStage(m + 1, Carry(g, 2 * m - 1))
<1> DEFINE i == 2 * m - 1
           u == Carry(g, i)
           gain == C * (Mass + 1)
<1>1. /\ Limb = 0..(2 * Side - 1) /\ Side \in Nat /\ Side >= 3 /\ N = 2 * Side
      /\ Mass \in Nat /\ gain \in Nat /\ Mass + 1 <= gain
      /\ \A j \in Limb : 2^Width(j) \in Nat /\ Mass * 2^Width(j) \in Nat
  BY LoadFacts
<1>2. /\ m \in Nat /\ i \in Limb /\ i + 1 \in Limb /\ Following(i) = i + 1 /\ i # N - 1
      /\ i % 2 = 1 /\ (i + 1) % 2 = 0 /\ i + 1 = 2 * m /\ ~(i < 2 * m - 2)
  BY <1>1 DEF Following
<1>3. g \in Vectors /\ AtMost(g[i], Mass * 2^Width(i)) /\ AtMost(g[i + 1], Mass * 2^Width(i + 1))
  <2>1. i + 1 > 2 * m - 2
    BY <1>2
  <2> QED
    BY <1>2, <2>1 DEF OddStage
<1>4. /\ u \in Vectors /\ AtMost(2 * u[i], 2^Width(i)) /\ AtMost(u[i + 1] - g[i + 1], Mass + 1)
      /\ \A j \in Limb : j # i /\ j # i + 1 => u[j] = g[j]
  <2>1. /\ u \in Vectors /\ AtMost(2 * u[i], 2^Width(i))
        /\ AtMost(u[i + 1] - g[i + 1], Gained(i, Mass + 1))
        /\ \A j \in Limb : j # i /\ j # i + 1 => u[j] = g[j]
    BY <1>1, <1>2, <1>3, CarriedOnce, ZenonT(60)
  <2>2. Gained(i, Mass + 1) = Mass + 1
    BY <1>2 DEF Gained
  <2> QED
    BY <2>1, <2>2, Zenon
<1> HIDE DEF u, gain
<1>5. AtMost(u[i + 1], Mass * 2^Width(i + 1) + gain)
  <2> DEFINE w == Mass * 2^Width(i + 1)
  <2>1. w \in Nat /\ AtMost(g[i + 1], w) /\ g[i + 1] \in Int /\ u[i + 1] \in Int
    BY <1>1, <1>2, <1>3, <1>4 DEF Vectors
  <2> HIDE DEF w, i
  <2>2. w \in Int /\ gain \in Int /\ Mass + 1 \in Int /\ Mass + 1 <= gain
    BY <1>1, <2>1
  <2>3. AtMost(u[i + 1], w + gain)
    BY <1>4, <2>1, <2>2, AtMostMore, ZenonT(60)
  <2> QED
    BY <2>3 DEF w
<1>6. ASSUME NEW j \in Limb, j % 2 = 1
      PROVE  IF j = N - 1 \/ j < 2 * (m + 1) - 2 THEN AtMost(2 * u[j], 2^Width(j))
             ELSE AtMost(u[j], Mass * 2^Width(j))
  <2>1. CASE j = i
    <3>1. j < 2 * (m + 1) - 2
      BY <1>2, <2>1
    <3> QED
      BY <1>4, <2>1, <3>1
  <2>2. CASE j # i
    <3>1. j # i + 1 /\ (j < 2 * (m + 1) - 2 => j < 2 * m - 2)
      <4>1. j # i + 1
        BY <1>2, <1>6
      <4>2. j \in Nat /\ j # 2 * m - 1 /\ j # 2 * m /\ j % 2 = 1 /\ m \in Nat
        BY <1>1, <1>2, <1>6, <2>2, <4>1
      <4>3. j # 2 * m - 2
        BY <4>2
      <4>4. j < 2 * (m + 1) - 2 => j < 2 * m - 2
        BY <4>2, <4>3
      <4> QED
        BY <4>1, <4>4
    <3>2. u[j] = g[j] /\ (j < 2 * m - 2 => j < 2 * (m + 1) - 2)
      BY <1>1, <1>2, <1>4, <2>2, <3>1, SMTT(60)
    <3>3. IF j = N - 1 \/ j < 2 * m - 2 THEN AtMost(2 * g[j], 2^Width(j))
          ELSE AtMost(g[j], Mass * 2^Width(j))
      BY <1>6 DEF OddStage
    <3> QED
      BY <3>1, <3>2, <3>3
  <2> QED
    BY <2>1, <2>2
<1>7. ASSUME NEW j \in Limb, j % 2 # 1
      PROVE  AtMost(u[j], Mass * 2^Width(j) + gain)
  <2>1. CASE j = i + 1
    BY <1>5, <2>1
  <2>2. CASE j # i + 1
    <3>1. u[j] = g[j]
      BY <1>2, <1>4, <1>7, <2>2
    <3> QED
      BY <1>7, <3>1 DEF OddStage, gain
  <2> QED
    BY <2>1, <2>2
<1>8. ASSUME NEW j \in Limb, j % 2 = 0, j > 2 * (m + 1) - 2
      PROVE  AtMost(u[j], Mass * 2^Width(j))
  <2>1. j # i /\ j # i + 1 /\ j > 2 * m - 2
    BY <1>1, <1>2, <1>8
  <2> QED
    BY <1>4, <1>8, <2>1 DEF OddStage
<1> QED
  BY <1>4, <1>6, <1>7, <1>8 DEF OddStage, u, gain

(* The odd limbs are done when the even ones begin.                        *)
LEMMA EvenStart ==
  ASSUME RoomyElements, NEW g, OddStage(Side, g)
  PROVE  EvenStage(0, g)
<1>1. /\ Limb = 0..(2 * Side - 1) /\ Side \in Nat /\ Side >= 3 /\ N = 2 * Side
      /\ Mass \in Nat /\ Extra \in Nat /\ C * (Mass + 1) \in Nat /\ C * (Mass + 1) + 2 = Extra
      /\ \A j \in Limb : /\ 2^Width(j) \in Nat /\ 200 * Extra <= 2^Width(j)
                         /\ Mass * 2^Width(j) \in Nat
                         /\ (Mass + 1) * 2^Width(j) = Mass * 2^Width(j) + 2^Width(j)
  BY LoadFacts
<1>2. g \in Vectors /\ \A j \in Limb : g[j] \in Int /\ ~(j < 2 * 0)
  <2>1. g \in Vectors
    BY DEF OddStage
  <2>2. \A j \in Limb : ~(j < 2 * 0)
    BY <1>1
  <2> QED
    BY <2>1, <2>2 DEF Vectors
<1>3. ASSUME NEW j \in Limb, j % 2 = 0
      PROVE  AtMost(g[j], (Mass + 1) * 2^Width(j))
  <2> DEFINE w == 2^Width(j)
             mw == Mass * w
             gain == C * (Mass + 1)
  <2>1. j % 2 # 1
    BY <1>3
  <2>2. AtMost(g[j], mw + gain)
    BY <2>1 DEF OddStage
  <2>3. /\ w \in Nat /\ mw \in Nat /\ gain \in Nat /\ gain + 2 = Extra /\ 200 * Extra <= w
        /\ g[j] \in Int /\ (Mass + 1) * w = mw + w
    BY <1>1, <1>2
  <2> HIDE DEF mw, gain, w
  <2>4. mw + gain \in Int /\ mw + w \in Int /\ mw + gain <= mw + w
    BY <1>1, <2>3
  <2>5. AtMost(g[j], mw + w)
    BY <2>2, <2>3, <2>4, AtMostMore, Zenon
  <2> QED
    BY <2>3, <2>5 DEF w
<1>4. ASSUME NEW j \in Limb, j % 2 # 0
      PROVE  AtMost(2 * g[j], 2^Width(j) + 0)
  <2>1. j % 2 = 1 /\ (j = N - 1 \/ j < 2 * Side - 2)
    <3>1. j \in 0..(2 * Side - 1) /\ j % 2 # 0 /\ Side \in Nat /\ N = 2 * Side
      BY <1>1, <1>4
    <3> QED
      BY <3>1, SMT
  <2>3. AtMost(2 * g[j], 2^Width(j))
    BY <2>1 DEF OddStage
  <2>4. 2^Width(j) \in Nat
    BY <1>1
  <2>2. AtMost(2 * g[j], 2^Width(j)) /\ 2^Width(j) + 0 = 2^Width(j)
    BY <2>3, <2>4
  <2> QED
    BY <2>2
<1> QED
  BY <1>2, <1>3, <1>4 DEF EvenStage

(* The even limbs, from the lowest up.                                     *)
LEMMA EvenStep ==
  ASSUME RoomyElements, NEW m \in 0..(Side - 1), NEW g, EvenStage(m, g)
  PROVE  EvenStage(m + 1, Carry(g, 2 * m))
<1> DEFINE i == 2 * m
           u == Carry(g, i)
<1>1. /\ Limb = 0..(2 * Side - 1) /\ Side \in Nat /\ Side >= 3 /\ N = 2 * Side
      /\ Mass \in Nat /\ Extra \in Nat /\ Mass + 3 <= Extra
      /\ \A j \in Limb : 2^Width(j) \in Nat
  BY LoadFacts
<1>2. /\ m \in Nat /\ i \in Limb /\ i + 1 \in Limb /\ Following(i) = i + 1 /\ i # N - 1
      /\ i % 2 = 0 /\ (i + 1) % 2 = 1 /\ ~(i < 2 * m) /\ ~(i + 1 < 2 * m)
  BY <1>1 DEF Following
<1>3. g \in Vectors /\ AtMost(g[i], (Mass + 1) * 2^Width(i)) /\ AtMost(2 * g[i + 1], 2^Width(i + 1))
  <2>1. (i + 1) % 2 # 0 /\ 2^Width(i + 1) + 0 = 2^Width(i + 1)
    BY <1>1, <1>2
  <2> QED
    BY <1>2, <2>1 DEF EvenStage
<1>4. /\ u \in Vectors /\ AtMost(2 * u[i], 2^Width(i)) /\ AtMost(u[i + 1] - g[i + 1], Mass + 2)
      /\ \A j \in Limb : j # i /\ j # i + 1 => u[j] = g[j]
  <2>1. Mass + 1 \in Nat /\ (Mass + 1) + 1 = Mass + 2
    BY <1>1
  <2> QED
    BY <1>2, <1>3, <2>1, CarriedOnce DEF Gained
<1> HIDE DEF u
<1>5. AtMost(2 * u[i + 1], 2^Width(i + 1) + 2 * Extra)
  <2> DEFINE w == 2^Width(i + 1)
  <2>1. w \in Nat /\ AtMost(2 * g[i + 1], w) /\ g[i + 1] \in Int /\ u[i + 1] \in Int
    BY <1>1, <1>2, <1>3, <1>4 DEF Vectors
  <2> HIDE DEF w, i
  <2>3. w \in Int /\ Mass + 2 \in Int /\ Extra \in Int /\ Mass + 2 <= Extra
    BY <1>1, <2>1
  <2>4. AtMost(u[i + 1] - g[i + 1], Mass + 2)
    BY <1>4
  <2>2. AtMost(2 * u[i + 1], w + 2 * Extra)
    BY <2>1, <2>3, <2>4, AtMostMore
  <2> QED
    BY <2>2 DEF w
<1>6. ASSUME NEW j \in Limb, j % 2 = 0
      PROVE  IF j < 2 * (m + 1) THEN AtMost(2 * u[j], 2^Width(j))
             ELSE AtMost(u[j], (Mass + 1) * 2^Width(j))
  <2>1. CASE j = i
    <3>1. j < 2 * (m + 1)
      BY <1>2, <2>1
    <3> QED
      BY <1>4, <2>1, <3>1
  <2>2. CASE j # i
    <3>1. j # i + 1 /\ (j < 2 * (m + 1) <=> j < 2 * m)
      BY <1>1, <1>2, <1>6, <2>2
    <3>2. u[j] = g[j]
      BY <1>4, <2>2, <3>1
    <3> QED
      BY <1>6, <3>1, <3>2 DEF EvenStage
  <2> QED
    BY <2>1, <2>2
<1>7. ASSUME NEW j \in Limb, j % 2 # 0
      PROVE  AtMost(2 * u[j], 2^Width(j) + (IF j < 2 * (m + 1) THEN 2 * Extra ELSE 0))
  <2>1. CASE j = i + 1
    <3>1. j < 2 * (m + 1)
      BY <1>2, <2>1
    <3> QED
      BY <1>5, <2>1, <3>1
  <2>2. CASE j # i + 1
    <3>1. j # i /\ (j < 2 * (m + 1) <=> j < 2 * m)
      BY <1>1, <1>2, <1>7, <2>2
    <3>2. u[j] = g[j]
      BY <1>4, <2>2, <3>1
    <3> QED
      BY <1>7, <3>1, <3>2 DEF EvenStage
  <2> QED
    BY <2>1, <2>2
<1> QED
  BY <1>4, <1>6, <1>7 DEF EvenStage, u

(* fe_frombytes leaves limbs within 1.01 of half their width.              *)
THEOREM LoadFits ==
  ASSUME RoomyElements, NEW s \in Nat
  PROVE  Fits(fe_frombytes(s), 101)
<1> DEFINE h == LoadLimbs(s)
           order == LoadCarryOrder
           V == Vectors
<1>1. /\ Limb = 0..(2 * Side - 1) /\ Side \in Nat /\ Side >= 3 /\ N = 2 * Side
      /\ Extra \in Nat
      /\ \A j \in Limb : 2^Width(j) \in Nat /\ 200 * Extra <= 2^Width(j)
  BY LoadFacts
<1>2. /\ order \in Seq(Limb) /\ Len(order) = 2 * Side /\ order[1] = N - 1
      /\ \A m \in 1..(Side - 1) : order[m + 1] = 2 * m - 1
      /\ \A m \in 0..(Side - 1) : order[Side + m + 1] = 2 * m
  BY LoadOrder
<1>3. h \in V /\ (\A g \in V, i \in Limb : Carry(g, i) \in V)
  BY LoadExact, CarryExact
<1>4. fe_frombytes(s) = Chain(h, order)
  BY DEF fe_frombytes, Chain
<1>5. OddStage(1, Carry(h, N - 1))
  BY <1>3, LoadSize, OddStart
<1> HIDE DEF V, h, order
<1>6. PICK run \in [0..Len(order) -> V] :
        /\ run[0] = h
        /\ run[Len(order)] = Chain(h, order)
        /\ \A k \in 1..Len(order) : run[k] = Carry(run[k - 1], order[k])
  <2>1. order \in Seq(Limb)
    BY <1>2
  <2> QED
    BY <1>3, <2>1, CarryRuns
<1>7. /\ run[0] = h /\ run[2 * Side] = Chain(h, order)
      /\ \A k \in 1..(2 * Side) : run[k] = Carry(run[k - 1], order[k])
  BY <1>2, <1>6
<1> DEFINE Odd == {m \in Nat : m + 1 <= Side => OddStage(m + 1, run[m + 1])}
           Even == {m \in Nat : m <= Side => EvenStage(m, run[Side + m])}
<1>8. 0 \in Odd
  <2>1. 1 \in 1..(2 * Side) /\ 1 - 1 = 0
    BY <1>1
  <2>2. run[1] = Carry(h, N - 1)
    BY <1>2, <1>7, <2>1
  <2>3. OddStage(1, run[1])
    BY <1>5, <2>2
  <2>4. 0 + 1 = 1
    OBVIOUS
  <2> QED
    BY <2>3, <2>4
<1>9. ASSUME NEW m \in Nat, m \in Odd
      PROVE  m + 1 \in Odd
  <2> SUFFICES ASSUME (m + 1) + 1 <= Side
               PROVE  OddStage((m + 1) + 1, run[(m + 1) + 1])
    OBVIOUS
  <2>1. m + 1 \in 1..(Side - 1) /\ (m + 1) + 1 \in 1..(2 * Side) /\ ((m + 1) + 1) - 1 = m + 1
    BY <1>1
  <2>2. OddStage(m + 1, run[m + 1])
    BY <1>1, <1>9
  <2>3. run[(m + 1) + 1] = Carry(run[m + 1], 2 * (m + 1) - 1)
    BY <1>2, <1>7, <2>1
  <2> HIDE DEF Odd
  <2> QED
    BY <2>1, <2>2, <2>3, OddStep
<1>10. Nat \subseteq Odd
  <2> HIDE DEF Odd
  <2> QED
    BY <1>8, <1>9, NaturalInduction
<1>11. OddStage(Side, run[Side])
  <2>1. Side - 1 \in Nat /\ (Side - 1) + 1 = Side
    BY <1>1
  <2>2. OddStage((Side - 1) + 1, run[(Side - 1) + 1])
    BY <1>1, <1>10, <2>1
  <2> QED
    BY <2>1, <2>2
<1>12. 0 \in Even
  <2>1. Side + 0 = Side
    BY <1>1
  <2>2. EvenStage(0, run[Side])
    BY <1>11, EvenStart
  <2> QED
    BY <2>1, <2>2
<1>13. ASSUME NEW m \in Nat, m \in Even
       PROVE  m + 1 \in Even
  <2> SUFFICES ASSUME m + 1 <= Side
               PROVE  EvenStage(m + 1, run[Side + (m + 1)])
    OBVIOUS
  <2>1. /\ m \in 0..(Side - 1) /\ Side + m + 1 \in 1..(2 * Side)
        /\ (Side + m + 1) - 1 = Side + m /\ Side + (m + 1) = Side + m + 1
    BY <1>1
  <2>2. EvenStage(m, run[Side + m])
    BY <1>1, <1>13
  <2>3. run[Side + m + 1] = Carry(run[Side + m], 2 * m)
    <3>1. run[Side + m + 1] = Carry(run[(Side + m + 1) - 1], order[Side + m + 1])
      BY <1>7, <2>1, Zenon
    <3>2. order[Side + m + 1] = 2 * m
      BY <1>2, <2>1, Zenon
    <3> QED
      BY <2>1, <3>1, <3>2, Zenon
  <2> HIDE DEF Even
  <2>4. EvenStage(m + 1, Carry(run[Side + m], 2 * m))
    BY <2>1, <2>2, EvenStep
  <2> QED
    BY <2>1, <2>3, <2>4, Zenon
<1>14. Nat \subseteq Even
  <2> HIDE DEF Even
  <2> QED
    BY <1>12, <1>13, NaturalInduction
<1>15. EvenStage(Side, fe_frombytes(s))
  <2>1. Side + Side = 2 * Side
    BY <1>1
  <2>2. EvenStage(Side, run[Side + Side])
    BY <1>1, <1>14
  <2> QED
    BY <1>4, <1>7, <2>1, <2>2
<1> DEFINE u == fe_frombytes(s)
<1>16. ASSUME NEW j \in Limb
       PROVE  AtMost(200 * u[j], 101 * 2^Width(j))
  <2> DEFINE w == 2^Width(j)
             x == u[j]
  <2>1. w \in Nat /\ 200 * Extra <= w /\ x \in Int
    BY <1>1, <1>15 DEF EvenStage, Vectors
  <2>2. j < 2 * Side
    BY <1>1
  <2>3. AtMost(2 * x, w) \/ AtMost(2 * x, w + 2 * Extra)
    BY <1>15, <2>2 DEF EvenStage
  <2> HIDE DEF w, x
  <2>4. AtMost(200 * x, 101 * w)
    BY <1>1, <2>1, <2>3, SMT DEF AtMost
  <2> QED
    BY <2>4 DEF w, x
<1> QED
  BY <1>16 DEF Fits

(* The limbs from the lowest up.                                           *)
Upwards == [k \in 1..N |-> k - 1]

(* They are all the limbs.                                                 *)
LEMMA UpwardsFacts ==
  /\ DOMAIN Upwards = 1..N
  /\ \A k \in 1..N : Upwards[k] = k - 1 /\ k - 1 \in Limb
BY LimbFacts DEF Upwards, Limb

(* The last of a set, by which a left fold is defined, is its maximum.     *)
LEMMA MaxLargest ==
  ASSUME NEW len \in Nat, NEW last, \A T \in SUBSET (1..len) : last[T] = Max(T)
  PROVE  Largest(last, len)
<1>1. ASSUME NEW T \in SUBSET (1..len), T # {}
      PROVE  last[T] \in T /\ \A x \in T : x <= last[T]
  <2>1. \E x \in T : \A y \in T : x >= y
    BY <1>1, LargestIsMax
  <2>2. Max(T) \in T /\ \A y \in T : Max(T) >= y
    BY <2>1 DEF Max
  <2>3. T \subseteq Int
    OBVIOUS
  <2> QED
    BY <2>2, <2>3
<1> QED
  BY <1>1 DEF Largest

(* The loop that computes the quotient is a run of its steps.              *)
LEMMA QuotientRuns ==
  ASSUME NEW h \in Vectors
  PROVE  \E run \in [0..N -> Int] :
           /\ run[0] = QuotientOfTop(h)
           /\ run[N] = Quotient(h)
           /\ \A k \in 1..N : run[k] = (h[k - 1] + run[k - 1]) \div 2^Width(k - 1)
<1> DEFINE base == QuotientOfTop(h)
           Onward(q, i) == (h[i] + q) \div 2^Width(i)
           last == [T \in SUBSET (1..N) |-> Max(T)]
           step == [vk \in Int \X (1..N) |-> Onward(vk[1], vk[2] - 1)]
           order == Upwards
           Folds(it) == it = [T \in SUBSET DOMAIN order |->
                          IF T = {} THEN base ELSE Onward(it[T \ {Max(T)}], order[Max(T)])]
<1>0. base \in Int /\ N \in Nat
  <2>1. C * h[N - 1] + 2^(W - 1) \in Int /\ 2^W \in Nat /\ 2^W > 0
    <3>1. h[N - 1] \in Int /\ C \in Int /\ W - 1 \in Nat /\ W \in Nat
      BY LimbFacts DEF Vectors
    <3>2. 2^(W - 1) \in Nat /\ 2^W \in Nat /\ 2^W > 0
      BY <3>1, PowerPositive
    <3> QED
      BY <3>1, <3>2
  <2> QED
    BY <2>1, Division, LimbFacts DEF QuotientOfTop
<1>1. DOMAIN order = 1..N /\ \A k \in 1..N : order[k] = k - 1
  BY UpwardsFacts
<1>2. \A v \in Int, k \in 1..N : step[<< v, k >>] = Onward(v, k - 1) /\ step[<< v, k >>] \in Int
  <2>1. ASSUME NEW v \in Int, NEW k \in 1..N
        PROVE  Onward(v, k - 1) \in Int
    <3>1. k - 1 \in Limb
      BY UpwardsFacts
    <3>2. h[k - 1] + v \in Int /\ 2^Width(k - 1) \in Nat /\ 2^Width(k - 1) > 0
      BY <3>1, Weights DEF Vectors
    <3> QED
      BY <3>2, Division
  <2> HIDE DEF Onward
  <2> QED
    BY <2>1
<1>3. \A T \in SUBSET (1..N) : last[T] = Max(T)
  OBVIOUS
<1> HIDE DEF base, step, last, order, Onward
<1>4. Largest(last, N) /\ Stays(step, Int, N)
  BY <1>0, <1>2, <1>3, MaxLargest DEF Stays
<1>5. \A T \in SUBSET (1..N) : T # {} => last[T] \in 1..N /\ last[T] = Max(T)
  BY <1>3, <1>4 DEF Largest
<1>6. PICK it \in [SUBSET (1..N) -> Int] : Solves(it, 1..N, last, step, base)
  BY <1>0, <1>4, FoldExists, Zenon
<1>7. Folds(it)
  <2>1. \A T \in SUBSET (1..N) : T # {} => it[T] = Onward(it[T \ {Max(T)}], order[Max(T)])
    <3> TAKE T \in SUBSET (1..N)
    <3> HAVE T # {}
    <3>1. it[T] = step[<< it[T \ {last[T]}], last[T] >>] /\ it[T \ {last[T]}] \in Int
      BY <1>6 DEF Solves
    <3>2. last[T] \in 1..N /\ last[T] = Max(T) /\ order[last[T]] = last[T] - 1
      BY <1>1, <1>5
    <3>3. it[T] = Onward(it[T \ {last[T]}], last[T] - 1)
      BY <1>2, <3>1, <3>2
    <3> QED
      BY <3>2, <3>3
  <2>2. it[{}] = base
    BY <1>6 DEF Solves
  <2>3. it = [T \in SUBSET (1..N) |-> it[T]]
    OBVIOUS
  <2>4. [T \in SUBSET (1..N) |-> it[T]]
          = [T \in SUBSET (1..N) |->
               IF T = {} THEN base ELSE Onward(it[T \ {Max(T)}], order[Max(T)])]
    BY <2>1, <2>2
  <2> QED
    BY <1>1, <2>3, <2>4, Zenon
<1>8. PICK iter : Folds(iter) /\ Quotient(h) = iter[DOMAIN order]
  <2>1. Quotient(h) = (CHOOSE i : Folds(i))[DOMAIN order]
    BY Zenon DEF Quotient, FoldLeft, MapThenFoldSet, order, Upwards, base, Onward
  <2> HIDE DEF Folds
  <2> QED
    BY <1>7, <2>1, Zenon
<1>9. Follows(iter, N, Int, last, step, base)
  <2>1. \A T \in SUBSET (1..N) : T # {} => iter[T] = Onward(iter[T \ {last[T]}], last[T] - 1)
    <3> TAKE T \in SUBSET (1..N)
    <3> HAVE T # {}
    <3>1. last[T] \in 1..N /\ last[T] = Max(T) /\ order[last[T]] = last[T] - 1
      BY <1>1, <1>5
    <3>2. iter[T] = Onward(iter[T \ {Max(T)}], order[Max(T)])
      BY <1>1, <1>8
    <3> QED
      BY <3>1, <3>2
  <2>2. iter[{}] = base
    BY <1>8
  <2> QED
    BY <1>2, <1>5, <2>1, <2>2 DEF Follows
<1>10. PICK run : IsRun(run, N, Int, step, base, iter[1..N])
  BY <1>0, <1>4, <1>9, FoldRuns, Zenon
<1>11. \A k \in 1..N : run[k] = Onward(run[k - 1], k - 1)
  <2> TAKE k \in 1..N
  <2>1. run[k - 1] \in Int
    BY <1>0, <1>10 DEF IsRun
  <2> QED
    BY <1>2, <1>10, <2>1 DEF IsRun
<1>12. iter[1..N] = Quotient(h)
  BY <1>1, <1>8, Zenon
<1>13. run \in [0..N -> Int] /\ run[0] = base /\ run[N] = iter[1..N]
  BY <1>10 DEF IsRun
<1> QED
  BY <1>11, <1>12, <1>13, Zenon DEF base, Onward

(* The chain of carries of fe_tobytes is a run of them.                    *)
LEMMA DownRuns ==
  ASSUME NEW g \in Vectors, \A f \in Vectors, i \in Limb : CarryDown(f, i) \in Vectors
  PROVE  \E run \in [0..N -> Vectors] :
           /\ run[0] = g
           /\ run[N] = FoldLeft(CarryDown, g, Upwards)
           /\ \A k \in 1..N : run[k] = CarryDown(run[k - 1], k - 1)
<1> DEFINE V == Vectors
           last == [T \in SUBSET (1..N) |-> Max(T)]
           step == [vk \in V \X (1..N) |-> CarryDown(vk[1], vk[2] - 1)]
           order == Upwards
           Folds(it) == it = [T \in SUBSET DOMAIN order |->
                          IF T = {} THEN g ELSE CarryDown(it[T \ {Max(T)}], order[Max(T)])]
<1>0. g \in V /\ N \in Nat
  BY LimbFacts
<1>1. DOMAIN order = 1..N /\ \A k \in 1..N : order[k] = k - 1
  BY UpwardsFacts
<1>2. \A v \in V, k \in 1..N :
        step[<< v, k >>] = CarryDown(v, k - 1) /\ step[<< v, k >>] \in V
  <2>1. \A v \in V, k \in 1..N : CarryDown(v, k - 1) \in V
    BY UpwardsFacts
  <2> HIDE DEF V
  <2> QED
    BY <2>1
<1>3. \A T \in SUBSET (1..N) : last[T] = Max(T)
  OBVIOUS
<1> HIDE DEF V, step, last, order
<1>4. Largest(last, N) /\ Stays(step, V, N)
  BY <1>0, <1>2, <1>3, MaxLargest DEF Stays
<1>5. \A T \in SUBSET (1..N) : T # {} => last[T] \in 1..N /\ last[T] = Max(T)
  BY <1>3, <1>4 DEF Largest
<1>6. PICK it \in [SUBSET (1..N) -> V] : Solves(it, 1..N, last, step, g)
  BY <1>0, <1>4, FoldExists, Zenon
<1>7. Folds(it)
  <2>1. \A T \in SUBSET (1..N) : T # {} => it[T] = CarryDown(it[T \ {Max(T)}], order[Max(T)])
    <3> TAKE T \in SUBSET (1..N)
    <3> HAVE T # {}
    <3>1. it[T] = step[<< it[T \ {last[T]}], last[T] >>] /\ it[T \ {last[T]}] \in V
      BY <1>6 DEF Solves
    <3>2. last[T] \in 1..N /\ last[T] = Max(T) /\ order[last[T]] = last[T] - 1
      BY <1>1, <1>5
    <3>3. it[T] = CarryDown(it[T \ {last[T]}], last[T] - 1)
      BY <1>2, <3>1, <3>2
    <3> QED
      BY <3>2, <3>3
  <2>2. it[{}] = g
    BY <1>6 DEF Solves
  <2>3. it = [T \in SUBSET (1..N) |-> it[T]]
    OBVIOUS
  <2>4. [T \in SUBSET (1..N) |-> it[T]]
          = [T \in SUBSET (1..N) |->
               IF T = {} THEN g ELSE CarryDown(it[T \ {Max(T)}], order[Max(T)])]
    BY <2>1, <2>2
  <2> QED
    BY <1>1, <2>3, <2>4, Zenon
<1>8. PICK iter : Folds(iter) /\ FoldLeft(CarryDown, g, order) = iter[DOMAIN order]
  <2>1. FoldLeft(CarryDown, g, order) = (CHOOSE i : Folds(i))[DOMAIN order]
    BY Zenon DEF FoldLeft, MapThenFoldSet
  <2> HIDE DEF Folds
  <2> QED
    BY <1>7, <2>1, Zenon
<1>9. Follows(iter, N, V, last, step, g)
  <2>1. \A T \in SUBSET (1..N) : T # {} => iter[T] = CarryDown(iter[T \ {last[T]}], last[T] - 1)
    <3> TAKE T \in SUBSET (1..N)
    <3> HAVE T # {}
    <3>1. last[T] \in 1..N /\ last[T] = Max(T) /\ order[last[T]] = last[T] - 1
      BY <1>1, <1>5
    <3>2. iter[T] = CarryDown(iter[T \ {Max(T)}], order[Max(T)])
      BY <1>1, <1>8
    <3> QED
      BY <3>1, <3>2
  <2>2. iter[{}] = g
    BY <1>8
  <2> QED
    BY <1>2, <1>5, <2>1, <2>2 DEF Follows
<1>10. PICK run : IsRun(run, N, V, step, g, iter[1..N])
  BY <1>0, <1>4, <1>9, FoldRuns, Zenon
<1>11. \A k \in 1..N : run[k] = CarryDown(run[k - 1], k - 1)
  <2> TAKE k \in 1..N
  <2>1. run[k - 1] \in V
    BY <1>0, <1>10 DEF IsRun
  <2> QED
    BY <1>2, <1>10, <2>1 DEF IsRun
<1>12. iter[1..N] = FoldLeft(CarryDown, g, Upwards)
  BY <1>1, <1>8, Zenon DEF order
<1>13. run \in [0..N -> V] /\ run[0] = g /\ run[N] = iter[1..N]
  BY <1>10 DEF IsRun
<1> QED
  BY <1>11, <1>12, <1>13, Zenon DEF V

(* The integer that the m lowest limbs stand for.                          *)
LowLimbs(f, m) == SumFunctionOnSet(Terms(f), 0..(m - 1))

(* It grows by one limb at a time, from 0 to the whole integer.            *)
LEMMA LowLimbsFacts ==
  ASSUME NEW f \in Vectors
  PROVE  /\ LowLimbs(f, 0) = 0 /\ LowLimbs(f, N) = Integer(f)
         /\ \A m \in Limb : LowLimbs(f, m + 1) = LowLimbs(f, m) + f[m] * 2^Pos(m)
         /\ \A m \in 0..N : LowLimbs(f, m) \in Int
<1>1. \A i \in Limb : Terms(f)[i] \in Int /\ Terms(f)[i] = f[i] * 2^Pos(i)
  BY IntegerIsSum DEF Terms
<1>2. Integer(f) = LowLimbs(f, N)
  BY IntegerIsSum DEF LowLimbs, Limb
<1>3. LowLimbs(f, 0) = 0
  <2>1. 0..(0 - 1) = {}
    OBVIOUS
  <2> QED
    BY <2>1, SumOfNone DEF LowLimbs
<1>4. ASSUME NEW m \in 0..N
      PROVE  LowLimbs(f, m) \in Int
  <2>1. IsFiniteSet(0..(m - 1))
    BY LimbFacts, FS_Interval
  <2>2. \A i \in 0..(m - 1) : i \in Limb
    BY LimbFacts DEF Limb
  <2>3. \A i \in 0..(m - 1) : Terms(f)[i] \in Int
    BY <1>1, <2>2
  <2> QED
    BY <2>1, <2>3, SumIsInteger DEF LowLimbs
<1>5. ASSUME NEW m \in Limb
      PROVE  LowLimbs(f, m + 1) = LowLimbs(f, m) + f[m] * 2^Pos(m)
  <2> DEFINE t == Terms(f)
  <2>1. /\ m \in 0..m /\ (0..m) \ {m} = 0..(m - 1) /\ (m + 1) - 1 = m /\ m \in 0..N
        /\ \A i \in 0..m : i \in Limb
    BY LimbFacts DEF Limb
  <2>2. IsFiniteSet(0..m) /\ \A i \in 0..m : t[i] \in Int
    BY <1>1, <2>1, LimbFacts, FS_Interval
  <2>3. SumFunctionOnSet(t, 0..m) = t[m] + SumFunctionOnSet(t, 0..(m - 1))
    BY <2>1, <2>2, SumSplit
  <2>4. LowLimbs(f, m + 1) = t[m] + LowLimbs(f, m)
    BY <2>1, <2>3 DEF LowLimbs
  <2>5. t[m] \in Int /\ LowLimbs(f, m) \in Int /\ t[m] = f[m] * 2^Pos(m)
    BY <1>1, <1>4, <2>1
  <2> QED
    BY <2>4, <2>5
<1> QED
  BY <1>2, <1>3, <1>4, <1>5

(* A quotient of a quotient.                                               *)
LEMMA NestedQuotient ==
  ASSUME NEW x \in Int, NEW a \in Int, NEW y \in Nat, y > 0, NEW w \in Nat, w > 0
  PROVE  (a + (x \div y)) \div w = (x + a * y) \div (y * w)
<1> DEFINE k == x \div y
           r == x % y
           t == (a + k) \div w
           s == (a + k) % w
           m == r + y * s
           yw == y * w
<1>1. x = y * k + r /\ r \in 0..(y - 1) /\ k \in Int
  BY Division
<1> HIDE DEF k, r
<1>2. a + k = w * t + s /\ s \in 0..(w - 1) /\ t \in Int
  <2>1. a + k \in Int
    BY <1>1
  <2> QED
    BY <2>1, Division
<1> HIDE DEF t, s
<1>3. x + a * y = yw * t + m
  <2>1. x + a * y = y * (a + k) + r
    BY <1>1
  <2>2. y * (w * t + s) = (y * w) * t + y * s
    BY <1>2
  <2> QED
    BY <1>1, <1>2, <2>1, <2>2
<1>4. m \in 0..(yw - 1) /\ yw \in Nat /\ yw > 0
  <2>1. y * s \in Nat /\ y * s <= y * (w - 1) /\ y * (w - 1) = y * w - y
    BY <1>2
  <2>2. y * w \in Nat /\ y * w >= y
    OBVIOUS
  <2> QED
    BY <1>1, <2>1, <2>2
<1> HIDE DEF m, yw
<1>5. (yw * t + m) \div yw = t
  BY <1>2, <1>4, DivisionUnique
<1> QED
  BY <1>3, <1>5 DEF t, k, yw

(* The loop of fe_tobytes divides the whole number, with q as it is        *)
(* estimated from the last limb, by 2^K.                                   *)
LEMMA QuotientExact ==
  ASSUME NEW h \in Vectors
  PROVE  /\ QuotientOfTop(h) \in Int
         /\ Quotient(h) = (Integer(h) + QuotientOfTop(h)) \div 2^K
<1> DEFINE q == QuotientOfTop(h)
<1>1. PICK run \in [0..N -> Int] :
        /\ run[0] = q
        /\ run[N] = Quotient(h)
        /\ \A k \in 1..N : run[k] = (h[k - 1] + run[k - 1]) \div 2^Width(k - 1)
  BY QuotientRuns
<1>2. q \in Int /\ N \in Nat
  BY <1>1, LimbFacts
<1> HIDE DEF q
<1> DEFINE S == {m \in Nat : m <= N => run[m] = (LowLimbs(h, m) + q) \div 2^Pos(m)}
<1>3. 0 \in S
  <2>1. LowLimbs(h, 0) + q = q /\ 2^Pos(0) = 1
    BY <1>2, LowLimbsFacts, Weights
  <2>2. q \div 1 = q
    <3>1. q = 1 * q + 0 /\ 0 \in 0..(1 - 1)
      BY <1>2
    <3> QED
      BY <1>2, <3>1, DivisionUnique
  <2> QED
    BY <1>1, <2>1, <2>2
<1>4. ASSUME NEW m \in Nat, m \in S
      PROVE  m + 1 \in S
  <2> SUFFICES ASSUME m + 1 <= N
               PROVE  run[m + 1] = (LowLimbs(h, m + 1) + q) \div 2^Pos(m + 1)
    OBVIOUS
  <2>1. m \in Limb /\ m + 1 \in 1..N /\ (m + 1) - 1 = m /\ m \in 0..N /\ m <= N
    BY LimbFacts DEF Limb
  <2>2. run[m] = (LowLimbs(h, m) + q) \div 2^Pos(m)
    BY <1>4, <2>1
  <2>3. run[m + 1] = (h[m] + run[m]) \div 2^Width(m)
    BY <1>1, <2>1
  <2>4. 2^Pos(m + 1) = 2^Pos(m) * 2^Width(m)
    BY <2>1, Weights
  <2>5. LowLimbs(h, m + 1) = LowLimbs(h, m) + h[m] * 2^Pos(m)
    BY <2>1, LowLimbsFacts
  <2> DEFINE x == LowLimbs(h, m)
             y == 2^Pos(m)
             w == 2^Width(m)
             a == h[m]
  <2>6. x \in Int /\ y \in Nat /\ y > 0 /\ w \in Nat /\ w > 0 /\ a \in Int
    BY <2>1, LowLimbsFacts, Weights DEF Vectors
  <2> HIDE DEF x, y, w, a, S
  <2>7. (a + ((x + q) \div y)) \div w = ((x + q) + a * y) \div (y * w)
    <3>1. x + q \in Int
      BY <1>2, <2>6
    <3> QED
      BY <2>6, <3>1, NestedQuotient
  <2>8. (x + q) + a * y = (x + a * y) + q
    <3>1. a * y \in Int
      BY <2>6
    <3> QED
      BY <1>2, <2>6, <3>1
  <2>9. run[m + 1] = ((x + a * y) + q) \div (y * w)
    BY <2>2, <2>3, <2>7, <2>8 DEF x, y, w, a
  <2> QED
    BY <2>4, <2>5, <2>9 DEF x, y, w, a
<1>5. Nat \subseteq S
  <2> HIDE DEF S
  <2> QED
    BY <1>3, <1>4, NaturalInduction
<1>6. run[N] = (LowLimbs(h, N) + q) \div 2^Pos(N)
  BY <1>2, <1>5
<1>7. LowLimbs(h, N) = Integer(h) /\ Pos(N) = K
  BY LowLimbsFacts DEF K
<1> QED
  BY <1>1, <1>2, <1>6, <1>7 DEF q

(* How large the lower limbs are together: at most 2.2 times where the     *)
(* last one begins.                                                        *)
LEMMA LowLimbsSize ==
  ASSUME NEW h \in Vectors, Fits(h, 220)
  PROVE  \A m \in 0..N : AtMost(10 * LowLimbs(h, m), 22 * 2^Pos(m))
<1> DEFINE S == {m \in Nat : m <= N => AtMost(10 * LowLimbs(h, m), 22 * 2^Pos(m))}
<1>1. 0 \in S
  BY LowLimbsFacts, Weights DEF AtMost
<1>2. ASSUME NEW m \in Nat, m \in S
      PROVE  m + 1 \in S
  <2> SUFFICES ASSUME m + 1 <= N
               PROVE  AtMost(10 * LowLimbs(h, m + 1), 22 * 2^Pos(m + 1))
    OBVIOUS
  <2>1. m \in Limb /\ m \in 0..N /\ m <= N
    BY LimbFacts DEF Limb
  <2> DEFINE x == LowLimbs(h, m)
             y == 2^Pos(m)
             w == 2^Width(m)
             a == h[m]
  <2>2. x \in Int /\ y \in Nat /\ y > 0 /\ w \in Nat /\ w >= 2 /\ a \in Int
    <3>1. 2^Width(m) = 2 * 2^(Width(m) - 1) /\ 2^(Width(m) - 1) > 0 /\ 2^(Width(m) - 1) \in Nat
      BY <2>1, HalfWidths
    <3>2. w >= 2 /\ w \in Nat
      BY <3>1
    <3>3. x \in Int /\ y \in Nat /\ y > 0 /\ a \in Int
      BY <2>1, LowLimbsFacts, Weights DEF Vectors
    <3> QED
      BY <3>2, <3>3
  <2>3. 2^Pos(m + 1) = y * w /\ LowLimbs(h, m + 1) = x + a * y
    BY <2>1, LowLimbsFacts, Weights
  <2>4. AtMost(10 * x, 22 * y) /\ AtMost(200 * a, 220 * w)
    BY <1>2, <2>1 DEF Fits
  <2> HIDE DEF x, y, w, a
  <2>5. AtMost(10 * a, 11 * w)
    BY <2>2, <2>4, SMT DEF AtMost
  <2>6. AtMost((10 * a) * y, (11 * w) * y)
    <3>1. 10 * a \in Int /\ 11 * w \in Nat /\ AtMost(y, y) /\ y \in Int
      BY <2>2 DEF AtMost
    <3> QED
      BY <2>2, <2>5, <3>1, AtMostProduct
  <2>7. (10 * a) * y = 10 * (a * y) /\ (11 * w) * y = 11 * (y * w)
    BY <2>2
  <2>8. y * w >= 2 * y /\ y * w \in Nat /\ a * y \in Int
    <3>1. PICK z \in Nat : w = 2 + z
      <4>1. w - 2 \in Nat /\ w = 2 + (w - 2)
        BY <2>2
      <4> QED
        BY <4>1
    <3>2. y * (2 + z) = 2 * y + y * z /\ y * z \in Nat /\ a * y \in Int
      BY <2>2
    <3> QED
      BY <2>2, <3>1, <3>2
  <2> DEFINE ay == a * y
             yw == y * w
  <2>9. AtMost(10 * ay, 11 * yw) /\ ay \in Int /\ yw \in Nat /\ yw >= 2 * y
    BY <2>6, <2>7, <2>8
  <2> HIDE DEF ay, yw, S
  <2>10. AtMost(10 * (x + ay), 22 * yw)
    BY <2>2, <2>4, <2>9, SMT DEF AtMost
  <2> QED
    BY <2>3, <2>10 DEF ay, yw
<1>3. Nat \subseteq S
  <2> HIDE DEF S
  <2> QED
    BY <1>1, <1>2, NaturalInduction
<1> QED
  BY <1>3, LimbFacts

(* The last limb, as fe_tobytes uses it.                                   *)
LEMMA TopFacts ==
  LET T == 2^Pos(N - 1)
      R == 2^W
      H == 2^(W - 1)
      P == 2^K
  IN  /\ T \in Nat /\ R \in Nat /\ H \in Nat /\ P \in Nat /\ C \in Nat /\ C >= 1 /\ p \in Nat /\ p > 0
      /\ R = 2 * H /\ R > 0 /\ P = T * R /\ P = p + C /\ 8 * C + 1 <= R /\ 2 * R <= T
      /\ N - 1 \in Limb /\ N - 1 \in 0..N /\ Width(N - 1) = W
<1> DEFINE T == 2^Pos(N - 1)
           R == 2^W
           H == 2^(W - 1)
           P == 2^K
<1>1. N - 1 \in Limb /\ N - 1 \in 0..N /\ W - 1 \in Nat /\ (W - 1) + 1 = W /\ W \in Nat
  BY LimbFacts
<1>2. Width(N - 1) = W
  <2>1. (N - 1) % 2 # 0
    BY SideFacts
  <2> QED
    BY <2>1 DEF Width
<1>3. T \in Nat /\ P \in Nat /\ H \in Nat /\ R \in Nat /\ R > 0
  BY <1>1, Weights, Positions, PowerPositive
<1>4. R = 2 * H
  <2>1. R = H + H
    BY <1>1, PowerSuccessor
  <2> QED
    BY <1>3, <2>1
<1>5. P = T * R
  <2>1. (N - 1) + 1 = N
    BY LimbFacts
  <2> QED
    BY <1>1, <1>2, <2>1, Weights DEF K
<1>6. P = p + C /\ p \in Nat /\ p > 0 /\ C \in Nat /\ C >= 1
  BY Modulus, LimbFacts
<1>7. 8 * C + 1 <= R
  <2>1. 4 * C < H
    BY LimbsAssumption
  <2> HIDE DEF H, R
  <2> QED
    BY <1>3, <1>4, <1>6, <2>1
<1>8. 2 * R <= T
  <2>1. W + 1 <= Pos(N - 1) /\ Pos(N - 1) \in Nat
    <3>1. N = 2 * Side /\ Side \in Nat /\ Side >= 1 /\ W \in Nat
      BY SideFacts, LimbFacts
    <3>2. PICK z \in Nat : Side = 1 + z
      <4>1. Side - 1 \in Nat /\ Side = 1 + (Side - 1)
        BY <3>1
      <4> QED
        BY <4>1
    <3>3. ((N - 1) + 1) \div 2 = Side
      BY <3>1
    <3>4. W * (N - 1) = W + 2 * (W * z) /\ W * z \in Nat
      <4>1. N - 1 = 1 + 2 * z
        BY <3>1, <3>2
      <4>2. W * (1 + 2 * z) = W + 2 * (W * z) /\ W * z \in Nat
        BY <3>1
      <4> QED
        BY <4>1, <4>2
    <3> QED
      BY <3>1, <3>3, <3>4 DEF Pos
  <2>2. 2^(W + 1) <= T
    BY <1>1, <2>1, PowersGrow
  <2>3. 2^(W + 1) = R + R
    BY <1>1, PowerSuccessor
  <2> HIDE DEF T, R
  <2> QED
    BY <1>3, <2>2, <2>3
<1> QED
  BY <1>1, <1>2, <1>3, <1>4, <1>5, <1>6, <1>7, <1>8

(* What C takes of T and P.                                                *)
LEMMA SmallC ==
  ASSUME NEW T \in Nat, NEW R \in Nat, NEW P \in Nat, C \in Nat, C >= 1,
         P = T * R, 8 * C + 1 <= R, 2 * R <= T
  PROVE  /\ C * T \in Nat /\ C * C \in Nat
         /\ 8 * (C * T) + T <= P /\ 16 * (C * C) <= C * T /\ 9 * T <= P /\ 16 * C <= T
<1>1. PICK y \in Nat : R = (8 * C + 1) + y
  <2>1. R - (8 * C + 1) \in Nat /\ R = (8 * C + 1) + (R - (8 * C + 1))
    OBVIOUS
  <2> QED
    BY <2>1
<1>2. T * ((8 * C + 1) + y) = 8 * (C * T) + T + T * y /\ T * y \in Nat /\ C * T \in Nat
  OBVIOUS
<1>3. 8 * (C * T) + T <= P
  BY <1>1, <1>2
<1>4. PICK z \in Nat : T = 16 * C + z
  <2>1. T - 16 * C \in Nat /\ T = 16 * C + (T - 16 * C)
    OBVIOUS
  <2> QED
    BY <2>1
<1>5. C * (16 * C + z) = 16 * (C * C) + C * z /\ C * z \in Nat /\ C * C \in Nat
  OBVIOUS
<1>6. 16 * (C * C) <= C * T
  BY <1>4, <1>5
<1>7. PICK x \in Nat : C = 1 + x
  <2>1. C - 1 \in Nat /\ C = 1 + (C - 1)
    OBVIOUS
  <2> QED
    BY <2>1
<1>8. (1 + x) * T = T + x * T /\ x * T \in Nat
  OBVIOUS
<1>9. T <= C * T
  BY <1>7, <1>8
<1> DEFINE ct == C * T
           cc == C * C
<1>10. ct \in Nat /\ 8 * ct + T <= P /\ T <= ct
  BY <1>2, <1>3, <1>9
<1> HIDE DEF ct
<1>11. 9 * T <= P
  BY <1>10
<1> QED
  BY <1>2, <1>3, <1>4, <1>5, <1>6, <1>11

(* The quotient of a number that fits is small.                            *)
LEMMA SmallQuotient ==
  ASSUME NEW T \in Nat, NEW P \in Nat, NEW M \in Nat, M > 0, C \in Nat, C >= 1, P = M + C,
         9 * T <= P, 16 * C <= T,
         NEW x \in Int, AtMost(10 * x, 22 * T + 11 * P)
  PROVE  x \div M \in (0 - 2)..1
<1> DEFINE q == x \div M
           r == x % M
<1>1. x = M * q + r /\ r \in 0..(M - 1) /\ q \in Int
  BY Division
<1> HIDE DEF q, r
<1>2. 20 * M > 22 * T + 11 * P
  OBVIOUS
<1>3. x < 2 * M /\ x > 0 - 2 * M
  BY <1>2 DEF AtMost
<1>4. q <= 1
  <2> SUFFICES ASSUME q >= 2 PROVE FALSE
    BY <1>1
  <2>1. PICK y \in Nat : q = 2 + y
    <3>1. q - 2 \in Nat /\ q = 2 + (q - 2)
      BY <1>1
    <3> QED
      BY <3>1
  <2>2. M * (2 + y) = 2 * M + M * y /\ M * y \in Nat
    OBVIOUS
  <2> QED
    BY <1>1, <1>3, <2>1, <2>2
<1>5. q >= 0 - 2
  <2> SUFFICES ASSUME q <= 0 - 3 PROVE FALSE
    BY <1>1
  <2>1. PICK y \in Nat : q = (0 - 3) - y
    <3>1. (0 - 3) - q \in Nat /\ q = (0 - 3) - ((0 - 3) - q)
      BY <1>1
    <3> QED
      BY <3>1
  <2>2. M * ((0 - 3) - y) = (0 - 3 * M) - M * y /\ M * y \in Nat
    OBVIOUS
  <2> QED
    BY <1>1, <1>3, <2>1, <2>2
<1> QED
  BY <1>1, <1>4, <1>5 DEF q

(* Times a positive number, what is between 0 and it is between 0 and its  *)
(* square.                                                                 *)
LEMMA BelowSquare ==
  ASSUME NEW P \in Nat, NEW d \in Int, 0 - P < P * d, P * d < P * P
  PROVE  d \in 0..(P - 1)
<1>1. d >= 0
  <2> SUFFICES ASSUME d < 0 PROVE FALSE
    OBVIOUS
  <2>1. PICK y \in Nat : d = (0 - 1) - y
    <3>1. (0 - 1) - d \in Nat /\ d = (0 - 1) - ((0 - 1) - d)
      OBVIOUS
    <3> QED
      BY <3>1
  <2>2. P * ((0 - 1) - y) = (0 - P) - P * y /\ P * y \in Nat
    OBVIOUS
  <2> QED
    BY <2>1, <2>2
<1>2. d < P
  <2> SUFFICES ASSUME d >= P PROVE FALSE
    OBVIOUS
  <2>1. PICK y \in Nat : d = P + y
    <3>1. d - P \in Nat /\ d = P + (d - P)
      OBVIOUS
    <3> QED
      BY <3>1
  <2>2. P * (P + y) = P * P + P * y /\ P * y \in Nat /\ P * P \in Nat
    OBVIOUS
  <2> QED
    BY <2>1, <2>2
<1> QED
  BY <1>1, <1>2

(* The estimate is near enough: with it the number divided by 2^K is the   *)
(* number divided by p.                                                    *)
LEMMA EstimateExact ==
  ASSUME NEW h \in Vectors, Fits(h, 220)
  PROVE  Quotient(h) = Integer(h) \div p
<1> DEFINE T == 2^Pos(N - 1)
           R == 2^W
           H == 2^(W - 1)
           P == 2^K
           I == Integer(h)
           t == h[N - 1]
           L == LowLimbs(h, N - 1)
           q0 == QuotientOfTop(h)
           e == (C * t + H) % R
           q == I \div p
           r == I % p
           d == r - C * q + q0
<1>1. /\ T \in Nat /\ R \in Nat /\ H \in Nat /\ P \in Nat /\ C \in Nat /\ C >= 1 /\ p \in Nat /\ p > 0
      /\ R = 2 * H /\ R > 0 /\ P = T * R /\ P = p + C /\ 8 * C + 1 <= R /\ 2 * R <= T
      /\ N - 1 \in Limb /\ N - 1 \in 0..N /\ Width(N - 1) = W
  BY TopFacts
<1>2. /\ C * T \in Nat /\ C * C \in Nat
      /\ 8 * (C * T) + T <= P /\ 16 * (C * C) <= C * T /\ 9 * T <= P /\ 16 * C <= T
  <2> HIDE DEF T, R, P
  <2> QED
    BY <1>1, SmallC
<1>3. I \in Int /\ t \in Int /\ L \in Int /\ I = L + t * T
  <2>1. (N - 1) + 1 = N
    BY LimbFacts
  <2> QED
    BY <1>1, <2>1, LowLimbsFacts, IntegerIsSum DEF Vectors
<1>4. AtMost(10 * L, 22 * T) /\ AtMost(200 * t, 220 * R)
  BY <1>1, LowLimbsSize DEF Fits
<1>5. q0 = (C * t + H) \div R /\ q0 \in Int
  BY QuotientExact DEF QuotientOfTop
<1>6. C * t + H = R * q0 + e /\ e \in 0..(R - 1)
  <2> DEFINE x == C * t + H
  <2>1. x \in Int
    BY <1>1, <1>3
  <2>2. q0 = x \div R /\ e = x % R
    BY <1>5
  <2> HIDE DEF x, e, q0, R
  <2>3. x = R * (x \div R) + (x % R) /\ x % R \in 0..(R - 1)
    BY <1>1, <2>1, Division
  <2> QED
    BY <2>2, <2>3 DEF x
<1>7. Quotient(h) = (I + q0) \div P
  BY QuotientExact
<1>8. I = p * q + r /\ r \in 0..(p - 1) /\ q \in Int
  BY <1>1, <1>3, Division
<1> HIDE DEF T, R, H, P, I, t, L, q0, e, q, r
<1>9. q \in (0 - 2)..1
  <2>1. AtMost(10 * I, 22 * T + 11 * P)
    <3>1. AtMost(10 * t, 11 * R)
      BY <1>1, <1>3, <1>4, SMT DEF AtMost
    <3>2. 10 * t \in Int /\ 11 * R \in Nat /\ T \in Int /\ AtMost(T, T)
      BY <1>1, <1>3 DEF AtMost
    <3>3. AtMost((10 * t) * T, (11 * R) * T)
      BY <1>1, <3>1, <3>2, AtMostProduct
    <3>4. (10 * t) * T = 10 * (t * T) /\ (11 * R) * T = 11 * (T * R) /\ t * T \in Int
      BY <1>1, <1>3
    <3> DEFINE x == t * T
    <3>5. AtMost(10 * x, 11 * P) /\ x \in Int /\ I = L + x
      BY <1>1, <1>3, <3>3, <3>4
    <3> HIDE DEF x
    <3> QED
      BY <1>1, <1>3, <1>4, <3>5, SMT DEF AtMost
  <2> QED
    BY <1>1, <1>2, <1>3, <2>1, SmallQuotient DEF q
<1> DEFINE ct == C * T
           cl == C * L
           cr == C * r
           cq == C * q
           cc == C * C
           ccq == C * (C * q)
           pr == P * r
           pcq == P * (C * q)
           et == e * T
           th == T * H
           pq0 == P * q0
           ci == C * I
<1>10. /\ ct \in Nat /\ cl \in Int /\ cr \in Nat /\ cq \in Int /\ cc \in Nat /\ ccq \in Int
       /\ pr \in Nat /\ pcq \in Int /\ et \in Nat /\ th \in Nat /\ pq0 \in Int /\ ci \in Int
  <2>1. C * q \in Int /\ r \in Nat /\ e \in Nat
    BY <1>1, <1>6, <1>8
  <2> QED
    BY <1>1, <1>2, <1>3, <1>5, <1>8, <2>1
<1>11. 2 * th = P
  <2>1. T * (2 * H) = 2 * (T * H)
    BY <1>1
  <2> QED
    BY <1>1, <2>1
<1>12. pq0 = ci - cl + th - et
  <2>1. T * (R * q0 + e) = (T * R) * q0 + e * T
    <3>1. e \in Int
      BY <1>6
    <3> QED
      BY <1>1, <1>5, <3>1
  <2>2. T * (C * t + H) = C * (t * T) + T * H
    BY <1>1, <1>3
  <2>3. C * (L + t * T) = C * L + C * (t * T) /\ C * (t * T) \in Int
    BY <1>1, <1>3
  <2>4. pq0 + et = C * (t * T) + th
    BY <1>1, <1>6, <2>1, <2>2
  <2>5. ci = cl + C * (t * T)
    BY <1>3, <2>3
  <2> HIDE DEF pq0, et, th, ci, cl
  <2> QED
    BY <1>10, <2>3, <2>4, <2>5
<1>13. ci = pcq - ccq + cr
  <2>1. C * (p * q + r) = C * (p * q) + C * r
    BY <1>1, <1>8
  <2>2. C * ((P - C) * q) = P * (C * q) - C * (C * q)
    BY <1>1, <1>8
  <2>3. p = P - C
    BY <1>1
  <2> QED
    BY <1>8, <2>1, <2>2, <2>3
<1>14. P * d = pr - pcq + pq0
  BY <1>1, <1>5, <1>8
<1>15. d \in Int /\ I + q0 = P * q + d
  <2>1. p * q = P * q - C * q /\ P * q \in Int /\ C * q \in Int
    <3>1. p = P - C
      BY <1>1
    <3>2. (P - C) * q = P * q - C * q /\ P * q \in Int /\ C * q \in Int
      BY <1>1, <1>8
    <3> QED
      BY <3>1, <3>2
  <2> QED
    BY <1>5, <1>8, <2>1
<1>16. AtMost(10 * cl, 22 * ct)
  <2>1. 10 * L \in Int /\ 22 * T \in Nat /\ C \in Int /\ AtMost(C, C)
    BY <1>1, <1>3 DEF AtMost
  <2>2. AtMost(C * (10 * L), C * (22 * T))
    BY <1>1, <1>4, <2>1, AtMostProduct
  <2>3. C * (10 * L) = 10 * (C * L) /\ C * (22 * T) = 22 * (C * T)
    BY <1>1, <1>3
  <2> QED
    BY <2>2, <2>3
<1>17. 0 - 2 * cc <= ccq /\ ccq <= cc
  <2>1. ccq = cc * q
    BY <1>1, <1>8
  <2>2. q = 0 - 2 \/ q = 0 - 1 \/ q = 0 \/ q = 1
    BY <1>9
  <2>3. cc * (0 - 2) = 0 - 2 * cc /\ cc * (0 - 1) = 0 - cc /\ cc * 0 = 0 /\ cc * 1 = cc
    BY <1>10
  <2> HIDE DEF cc, ccq
  <2> QED
    BY <1>10, <2>1, <2>2, <2>3
<1>18. et <= P - T
  <2>1. PICK y \in Nat : R = (e + 1) + y
    <3>1. R - (e + 1) \in Nat /\ R = (e + 1) + (R - (e + 1)) /\ e \in Nat
      BY <1>1, <1>6
    <3> QED
      BY <3>1
  <2>2. T * ((e + 1) + y) = e * T + T + T * y /\ T * y \in Nat
    BY <1>1, <1>6
  <2> QED
    BY <1>1, <1>10, <2>1, <2>2
<1>19. pr + cr <= P * P - P - cc - C /\ P * P \in Nat
  <2>1. PICK y \in Nat : p - 1 = r + y
    <3>1. (p - 1) - r \in Nat /\ p - 1 = r + ((p - 1) - r)
      BY <1>1, <1>8
    <3> QED
      BY <3>1
  <2>2. (P + C) * (r + y) = pr + cr + (P + C) * y /\ (P + C) * y \in Nat
    BY <1>1, <1>8
  <2>3. (P + C) * (P - C - 1) = P * P - P - cc - C /\ P * P \in Nat
    BY <1>1
  <2>4. p - 1 = P - C - 1
    BY <1>1
  <2> DEFINE rest == (P + C) * y
             pp == P * P
  <2>5. rest \in Nat /\ pp \in Nat /\ pr + cr + rest = pp - P - cc - C
    BY <2>1, <2>2, <2>3, <2>4
  <2> HIDE DEF rest, pp, pr, cr, cc
  <2>6. pr + cr <= pp - P - cc - C
    BY <1>1, <1>10, <2>5
  <2> QED
    BY <2>5, <2>6 DEF pp
<1> DEFINE pd == P * d
           pp == P * P
<1>20. /\ pd = pr - pcq + pq0 /\ pd \in Int /\ pp \in Nat /\ pr + cr <= pp - P - cc - C
       /\ 8 * ct + T <= P /\ 16 * cc <= ct
  BY <1>1, <1>2, <1>14, <1>15, <1>19
<1> HIDE DEF ct, cl, cr, cq, cc, ccq, pr, pcq, et, th, pq0, ci, pd, pp, d
<1>21. pd = pr + cr - ccq - cl + th - et
  BY <1>10, <1>12, <1>13, <1>20
<1>22. 0 - P < pd
  BY <1>1, <1>10, <1>11, <1>16, <1>17, <1>18, <1>20, <1>21, SMT DEF AtMost
<1>23. pd < pp
  BY <1>1, <1>10, <1>11, <1>16, <1>17, <1>18, <1>20, <1>21, SMT DEF AtMost
<1>24. d \in 0..(P - 1)
  BY <1>1, <1>15, <1>22, <1>23, BelowSquare DEF pd, pp
<1>25. P > 0
  BY <1>1
<1>26. (P * q + d) \div P = q
  BY <1>1, <1>8, <1>24, <1>25, DivisionUnique
<1> QED
  BY <1>7, <1>15, <1>26 DEF q, I

(* A carry upwards leaves a digit, and the integer, modulo 2^K.            *)
LEMMA CarryDownExact ==
  ASSUME NEW f \in Vectors, NEW i \in Limb
  PROVE  /\ CarryDown(f, i) \in Vectors
         /\ CarryDown(f, i)[i] \in 0..(2^Width(i) - 1)
         /\ \A j \in Limb : j # i /\ j # i + 1 => CarryDown(f, i)[j] = f[j]
         /\ Congruent(Integer(CarryDown(f, i)), Integer(f), 2^K)
<1> DEFINE w == 2^Width(i)
           c == f[i] \div w
           g == CarryDown(f, i)
           lost == [f EXCEPT ![i] = f[i] - c * w]
           x == 2^Pos(i)
           P == 2^K
<1>1. /\ i \in Nat /\ i < N /\ i \in 0..N /\ w \in Nat /\ w > 0 /\ x \in Nat /\ f[i] \in Int
      /\ P \in Nat
  <2>1. i \in Nat /\ i < N /\ i \in 0..N
    BY LimbFacts DEF Limb
  <2>2. w \in Nat /\ w > 0 /\ x \in Nat /\ P \in Nat
    BY <2>1, Weights, Positions, PowerPositive
  <2> QED
    BY <2>1, <2>2 DEF Vectors
<1>2. f[i] = w * c + (f[i] % w) /\ f[i] % w \in 0..(w - 1) /\ c \in Int
  BY <1>1, Division
<1>3. g = [j \in Limb |-> CASE j = i -> f[j] - c * w
                            [] j = i + 1 -> f[j] + c
                            [] OTHER -> f[j]]
  BY DEF CarryDown
<1> HIDE DEF w, c, g, x, P
<1>4. c * w \in Int /\ f[i] - c * w \in 0..(w - 1)
  BY <1>1, <1>2
<1>5. /\ g[i] = f[i] - c * w
      /\ \A j \in Limb : j # i /\ j # i + 1 => g[j] = f[j]
      /\ i + 1 \in Limb => g[i + 1] = f[i + 1] + c
  BY <1>1, <1>3
<1>6. g \in Vectors
  <2>1. ASSUME NEW j \in Limb PROVE g[j] \in Int
    <3>1. CASE j = i
      BY <1>1, <1>4, <1>5, <3>1
    <3>2. CASE j = i + 1
      BY <1>2, <1>5, <3>2 DEF Vectors
    <3>3. CASE j # i /\ j # i + 1
      BY <1>5, <3>3 DEF Vectors
    <3> QED
      BY <3>1, <3>2, <3>3
  <2> QED
    BY <1>3, <2>1 DEF Vectors
<1>7. lost \in Vectors /\ lost[i] = f[i] - c * w /\ \A j \in Limb \ {i} : lost[j] = f[j]
  BY <1>1, <1>4 DEF Vectors
<1> DEFINE out == (0 - c * w) * x
<1>8. out \in Int
  BY <1>1, <1>4
<1>9. SumFunctionOnSet(Terms(lost), Limb) = SumFunctionOnSet(Terms(f), Limb) + out
  <2>1. \A j \in Limb \ {i} : Terms(lost)[j] = Terms(f)[j]
    BY <1>7 DEF Terms
  <2>2. Terms(lost)[i] = Terms(f)[i] + out
    <3>1. Terms(lost)[i] = (f[i] - c * w) * x /\ Terms(f)[i] = f[i] * x
      BY <1>7 DEF Terms, x
    <3> DEFINE cw == c * w
    <3>2. (f[i] - cw) * x = f[i] * x + (0 - cw) * x
      BY <1>1, <1>4
    <3> QED
      BY <3>1, <3>2
  <2> DEFINE old == Terms(f)
             new == Terms(lost)
  <2>3. \A j \in Limb : old[j] \in Int
    BY IntegerIsSum
  <2>4. (\A j \in Limb \ {i} : new[j] = old[j]) /\ new[i] = old[i] + out
    BY <2>1, <2>2
  <2>5. IsFiniteSet(Limb)
    BY LimbFacts
  <2> HIDE DEF old, new, out
  <2>6. SumFunctionOnSet(new, Limb) = SumFunctionOnSet(old, Limb) + out
    BY <1>8, <2>3, <2>4, <2>5, SumUpdated, Zenon
  <2> QED
    BY <2>6 DEF old, new
<1>10. CASE i = N - 1
  <2>1. \A j \in Limb : g[j] = lost[j]
    <3>1. \A j \in Limb : j # i + 1
      BY <1>10, LimbFacts DEF Limb
    <3> QED
      BY <1>5, <1>7, <3>1
  <2>2. Integer(g) = Integer(f) + out
    <3>1. Integer(g) = SumFunctionOnSet(Terms(g), Limb)
      BY <1>6, IntegerIsSum
    <3>2. Terms(g) = Terms(lost)
      BY <2>1 DEF Terms
    <3>3. Integer(f) = SumFunctionOnSet(Terms(f), Limb)
      BY IntegerIsSum
    <3> QED
      BY <1>9, <3>1, <3>2, <3>3
  <2>3. x * w = P
    <3>1. (N - 1) + 1 = N
      BY LimbFacts
    <3>2. 2^Pos(i + 1) = 2^Pos(i) * 2^Width(i)
      BY Weights
    <3> QED
      BY <1>10, <3>1, <3>2 DEF x, w, P, K
  <2>4. out = P * (0 - c) /\ 0 - c \in Int
    <3>1. (0 - c * w) * x = (x * w) * (0 - c)
      BY <1>1, <1>2
    <3> QED
      BY <1>2, <2>3, <3>1
  <2>5. Congruent(Integer(g), Integer(f), P)
    BY <2>2, <2>4 DEF Congruent
  <2> QED
    BY <1>4, <1>5, <1>6, <2>5 DEF g, w, P
<1>11. CASE i # N - 1
  <2>1. i + 1 \in Limb /\ i + 1 # i
    BY <1>1, <1>11, LimbFacts DEF Limb
  <2> DEFINE into == c * 2^Pos(i + 1)
  <2>2. into \in Int /\ into = 0 - out
    <3>1. 2^Pos(i + 1) = x * w
      BY Weights DEF x, w
    <3>2. c * (x * w) = 0 - (0 - c * w) * x /\ c * (x * w) \in Int
      BY <1>1, <1>2
    <3> QED
      BY <3>1, <3>2
  <2>3. SumFunctionOnSet(Terms(g), Limb) = SumFunctionOnSet(Terms(lost), Limb) + into
    <3>1. \A j \in Limb \ {i + 1} : Terms(g)[j] = Terms(lost)[j]
      BY <1>5, <1>7 DEF Terms
    <3>2. Terms(g)[i + 1] = Terms(lost)[i + 1] + into
      <4> DEFINE y == 2^Pos(i + 1)
      <4>1. Terms(g)[i + 1] = (f[i + 1] + c) * y /\ Terms(lost)[i + 1] = f[i + 1] * y
        BY <1>5, <1>7, <2>1 DEF Terms
      <4>2. y \in Nat
        <5>1. i + 1 \in 0..N
          BY <2>1, LimbFacts DEF Limb
        <5> QED
          BY <5>1, Weights
      <4>3. f[i + 1] \in Int
        BY <2>1 DEF Vectors
      <4> HIDE DEF y
      <4>4. (f[i + 1] + c) * y = f[i + 1] * y + c * y
        BY <1>2, <4>2, <4>3
      <4> QED
        BY <4>1, <4>4 DEF y
    <3> DEFINE old == Terms(lost)
               new == Terms(g)
    <3>3. \A j \in Limb : old[j] \in Int
      BY <1>7, IntegerIsSum
    <3>4. (\A j \in Limb \ {i + 1} : new[j] = old[j]) /\ new[i + 1] = old[i + 1] + into
      BY <3>1, <3>2
    <3>5. IsFiniteSet(Limb) /\ into \in Int
      BY <2>2, LimbFacts
    <3> HIDE DEF old, new, into
    <3>6. SumFunctionOnSet(new, Limb) = SumFunctionOnSet(old, Limb) + into
      BY <2>1, <3>3, <3>4, <3>5, SumUpdated, Zenon
    <3> QED
      BY <3>6 DEF old, new
  <2>4. Integer(g) = Integer(f)
    <3>1. Integer(g) = SumFunctionOnSet(Terms(g), Limb)
      BY <1>6, IntegerIsSum
    <3>2. Integer(f) = SumFunctionOnSet(Terms(f), Limb) /\ Integer(f) \in Int
      BY IntegerIsSum
    <3> HIDE DEF out, into
    <3> QED
      BY <1>8, <1>9, <2>2, <2>3, <3>1, <3>2
  <2>5. Congruent(Integer(g), Integer(f), P)
    <3>1. Integer(g) = Integer(f) + P * 0
      BY <1>1, <2>4, IntegerIsSum
    <3> QED
      BY <3>1 DEF Congruent
  <2> QED
    BY <1>4, <1>5, <1>6, <2>5 DEF g, w, P
<1> QED
  BY <1>10, <1>11

(* Limbs that are digits are a number below 2^K.                           *)
LEMMA BytesBelow ==
  ASSUME NEW f \in Vectors, \A i \in Limb : f[i] \in 0..(2^Width(i) - 1)
  PROVE  Integer(f) \in 0..(2^K - 1)
<1> DEFINE S == {m \in Nat : m <= N => LowLimbs(f, m) \in 0..(2^Pos(m) - 1)}
<1>1. 0 \in S
  BY LowLimbsFacts, Weights
<1>2. ASSUME NEW m \in Nat, m \in S
      PROVE  m + 1 \in S
  <2> SUFFICES ASSUME m + 1 <= N
               PROVE  LowLimbs(f, m + 1) \in 0..(2^Pos(m + 1) - 1)
    OBVIOUS
  <2>1. m \in Limb /\ m \in 0..N /\ m <= N
    BY LimbFacts DEF Limb
  <2> DEFINE x == LowLimbs(f, m)
             y == 2^Pos(m)
             w == 2^Width(m)
             a == f[m]
  <2>2. y \in Nat /\ w \in Nat /\ x \in 0..(y - 1) /\ a \in 0..(w - 1)
    BY <1>2, <2>1, Weights
  <2>3. 2^Pos(m + 1) = y * w /\ LowLimbs(f, m + 1) = x + a * y
    BY <2>1, LowLimbsFacts, Weights
  <2> HIDE DEF x, y, w, a, S
  <2>4. x + a * y \in 0..(y * w - 1)
    <3>1. PICK z \in Nat : w = (a + 1) + z
      <4>1. w - (a + 1) \in Nat /\ w = (a + 1) + (w - (a + 1)) /\ a \in Nat
        BY <2>2
      <4> QED
        BY <4>1
    <3>2. y * ((a + 1) + z) = a * y + y + y * z /\ y * z \in Nat /\ a * y \in Nat
      BY <2>2
    <3> DEFINE ay == a * y
               yz == y * z
               yw == y * w
    <3>3. ay \in Nat /\ yz \in Nat /\ yw = ay + y + yz
      BY <3>1, <3>2
    <3> HIDE DEF ay, yz, yw
    <3>4. x + ay \in 0..(yw - 1)
      BY <2>2, <3>3
    <3> QED
      BY <3>4 DEF ay, yw
  <2> QED
    BY <2>3, <2>4 DEF x, y, w, a
<1>3. Nat \subseteq S
  <2> HIDE DEF S
  <2> QED
    BY <1>1, <1>2, NaturalInduction
<1>4. LowLimbs(f, N) \in 0..(2^Pos(N) - 1)
  BY <1>3, LimbFacts
<1> QED
  BY <1>4, LowLimbsFacts DEF K

(* fe_tobytes: limbs that fit 220 hundredths are written as the number     *)
(* below p that they stand for.                                            *)
THEOREM BytesExact ==
  ASSUME NEW h \in Vectors, Fits(h, 220)
  PROVE  fe_tobytes(h) = Integer(h) % p
<1> DEFINE q == Quotient(h)
           P == 2^K
           I == Integer(h)
           r == I % p
           g == TakeOut(h)
           u == ReducedLimbs(h)
<1>1. /\ P \in Nat /\ P = p + C /\ p \in Nat /\ p > 0 /\ C \in Nat /\ C >= 1 /\ 0 \in Limb
      /\ I \in Int /\ N \in Nat
  BY TopFacts, LimbFacts, IntegerIsSum
<1>2. q = I \div p
  BY EstimateExact
<1>3. I = p * q + r /\ r \in 0..(p - 1) /\ q \in Int
  BY <1>1, <1>2, Division
<1> HIDE DEF q, P, I, r
<1>4. g \in Vectors /\ Integer(g) = I + C * q
  <2>1. g = [h EXCEPT ![0] = h[0] + C * q]
    BY DEF TakeOut, q
  <2>2. C * q \in Int /\ h[0] \in Int
    BY <1>1, <1>3 DEF Vectors
  <2> HIDE DEF g
  <2>3. g \in Vectors /\ g[0] = h[0] + C * q /\ \A j \in Limb \ {0} : g[j] = h[j]
    BY <1>1, <2>1, <2>2 DEF Vectors
  <2> DEFINE cq == C * q
             old == Terms(h)
             new == Terms(g)
  <2>4. \A j \in Limb \ {0} : new[j] = old[j]
    BY <2>3 DEF Terms
  <2>5. new[0] = old[0] + cq
    <3>1. 2^Pos(0) = 1
      BY Weights
    <3>2. new[0] = (h[0] + cq) * 1 /\ old[0] = h[0] * 1
      BY <1>1, <2>3, <3>1 DEF Terms
    <3> HIDE DEF cq, old, new
    <3> QED
      BY <2>2, <3>2 DEF cq
  <2>6. \A j \in Limb : old[j] \in Int
    BY IntegerIsSum
  <2>7. cq \in Int
    BY <2>2
  <2> HIDE DEF cq, old, new
  <2>8. SumFunctionOnSet(new, Limb) = SumFunctionOnSet(old, Limb) + cq
    BY <1>1, <2>4, <2>5, <2>6, <2>7, SumUpdated, LimbFacts
  <2>9. Integer(g) = SumFunctionOnSet(new, Limb) /\ I = SumFunctionOnSet(old, Limb)
    BY <2>3, IntegerIsSum DEF new, old, I
  <2> QED
    BY <2>3, <2>8, <2>9 DEF cq
<1>5. u = FoldLeft(CarryDown, g, Upwards)
  BY DEF ReducedLimbs, Upwards
<1> HIDE DEF g, u
<1>6. \A f \in Vectors, i \in Limb : CarryDown(f, i) \in Vectors
  BY CarryDownExact
<1>7. PICK run \in [0..N -> Vectors] :
        /\ run[0] = g
        /\ run[N] = u
        /\ \A k \in 1..N : run[k] = CarryDown(run[k - 1], k - 1)
  BY <1>4, <1>5, <1>6, DownRuns
<1> DEFINE Digital(f, m) ==
             /\ \A j \in Limb : j < m => f[j] \in 0..(2^Width(j) - 1)
             /\ Congruent(Integer(f), Integer(g), P)
           S == {m \in Nat : m <= N => Digital(run[m], m)}
<1>8. 0 \in S
  <2>1. Integer(g) = Integer(g) + P * 0
    BY <1>1, <1>4, IntegerIsSum
  <2>2. Congruent(Integer(g), Integer(g), P)
    BY <2>1 DEF Congruent
  <2>3. \A j \in Limb : ~(j < 0)
    BY LimbFacts DEF Limb
  <2> QED
    BY <1>7, <2>2, <2>3
<1>9. ASSUME NEW m \in Nat, m \in S
      PROVE  m + 1 \in S
  <2> SUFFICES ASSUME m + 1 <= N
               PROVE  Digital(run[m + 1], m + 1)
    OBVIOUS
  <2>1. /\ m \in Limb /\ m + 1 \in 1..N /\ (m + 1) - 1 = m /\ m \in 0..N /\ m <= N
    BY LimbFacts DEF Limb
  <2>2. run[m] \in Vectors /\ Digital(run[m], m) /\ run[m + 1] = CarryDown(run[m], m)
    BY <1>7, <1>9, <2>1
  <2> DEFINE f == run[m]
             e == run[m + 1]
  <2>3. /\ e[m] \in 0..(2^Width(m) - 1) /\ e \in Vectors
        /\ \A j \in Limb : j # m /\ j # m + 1 => e[j] = f[j]
        /\ Congruent(Integer(e), Integer(f), P)
    BY <2>1, <2>2, CarryDownExact DEF P
  <2>4. Congruent(Integer(f), Integer(g), P)
    BY <2>2
  <2>5. Integer(f) \in Int /\ Integer(e) \in Int /\ Integer(g) \in Int /\ P \in Int
    BY <1>1, <1>4, <2>2, <2>3, IntegerIsSum
  <2> HIDE DEF e, f
  <2>6. Congruent(Integer(e), Integer(g), P)
    BY <2>3, <2>4, <2>5, CongruentTransitive
  <2>7. ASSUME NEW j \in Limb, j < m + 1
        PROVE  e[j] \in 0..(2^Width(j) - 1)
    <3>1. CASE j = m
      BY <2>3, <3>1
    <3>2. CASE j # m
      <4>1. j < m /\ j # m + 1
        BY <2>1, <2>7, <3>2, LimbFacts DEF Limb
      <4>2. f[j] \in 0..(2^Width(j) - 1)
        BY <2>2, <4>1 DEF f
      <4> QED
        BY <2>3, <3>2, <4>1, <4>2
    <3> QED
      BY <3>1, <3>2
  <2> QED
    BY <2>6, <2>7 DEF e
<1>10. Nat \subseteq S
  <2> HIDE DEF S
  <2> QED
    BY <1>8, <1>9, NaturalInduction
<1>11. Digital(u, N) /\ u \in Vectors
  BY <1>1, <1>7, <1>10
<1>12. \A i \in Limb : u[i] \in 0..(2^Width(i) - 1)
  <2>1. \A i \in Limb : i < N
    BY LimbFacts DEF Limb
  <2> QED
    BY <1>11, <2>1
<1>13. Integer(u) \in 0..(P - 1)
  BY <1>11, <1>12, BytesBelow DEF P
<1>14. Integer(g) = P * q + r
  <2>1. (P - C) * q + r + C * q = P * q + r
    <3>1. (P - C) * q = P * q - C * q /\ P * q \in Int /\ C * q \in Int
      BY <1>1, <1>3
    <3> QED
      BY <1>3, <3>1
  <2>2. p = P - C
    BY <1>1
  <2> QED
    BY <1>3, <1>4, <2>1, <2>2
<1>15. Congruent(Integer(u), P * q + r, P)
  BY <1>11, <1>14
<1>16. PICK k \in Int : Integer(u) = (P * q + r) + P * k
  BY <1>15 DEF Congruent
<1>17. (P * q + r) + P * k = P * (q + k) + r /\ q + k \in Int
  BY <1>1, <1>3
<1>18. r \in 0..(P - 1) /\ P > 0
  BY <1>1, <1>3
<1>19. Integer(u) % P = r
  <2> DEFINE m == q + k
  <2>1. m \in Int /\ Integer(u) = P * m + r
    BY <1>16, <1>17
  <2> HIDE DEF m
  <2>2. (P * m + r) % P = r
    BY <1>1, <1>18, <2>1, DivisionUnique
  <2> QED
    BY <2>1, <2>2
<1>20. Integer(u) % P = Integer(u)
  <2>1. Integer(u) = P * 0 + Integer(u)
    BY <1>1, <1>13
  <2> QED
    BY <1>1, <1>13, <1>18, <2>1, DivisionUnique
<1> QED
  BY <1>19, <1>20 DEF fe_tobytes, u, r, I
=============================================================================
