-------------------------- MODULE RecursionLemmas --------------------------
(***************************************************************************)
(* Induction without operator parameters.  The library's induction         *)
(* theorems take a predicate as an operator, which the installed provers   *)
(* cannot instantiate.  WFMin takes a set: the counterexamples.  From it   *)
(* follow that a non-empty set of numbers, or of finite sets, has a least  *)
(* member, that a function defined by recursion exists, and what a sum     *)
(* over a finite set does when one summand changes.                        *)
(***************************************************************************)
EXTENDS Integers, FiniteSets, TLAPS, FiniteSetTheorems, WellFoundedInduction

-----------------------------------------------------------------------------
(* Least members *)

LEMMA LeastNatural ==
  ASSUME NEW T \in SUBSET Nat, T # {}
  PROVE  \E n \in T : \A m \in T : n <= m
<1> DEFINE R == OpToRel(<, Nat)
<1>1. IsWellFoundedOn(R, Nat)  BY NatLessThanWellFounded
<1>2. \A m, n \in Nat : m < n => <<m, n>> \in R  BY DEF OpToRel
<1> HIDE DEF R
<1>3. PICK n \in T : \A m \in T : ~ (<<m, n>> \in R)  BY <1>1, WFMin
<1>4. \A m \in T : ~ (m < n)  BY <1>2, <1>3, Zenon
<1> QED BY <1>4

LEMMA MinimalSubset ==
  ASSUME NEW S, IsFiniteSet(S), NEW T \in SUBSET (SUBSET S), T # {}
  PROVE  \E x \in T : \A y \in T : y \subseteq x => y = x
<1> DEFINE R == StrictSubsetOrdering(S)
<1>1. IsWellFoundedOn(R, SUBSET S)
  BY FS_StrictSubsetOrderingWellFounded, FS_FiniteSubsetsOfFinite, Zenon
<1>2. \A x, y \in SUBSET S : y \subseteq x /\ y # x => <<y, x>> \in R
  BY DEF StrictSubsetOrdering
<1> HIDE DEF R
<1>3. PICK x \in T : \A y \in T : ~ (<<y, x>> \in R)  BY <1>1, WFMin
<1> QED BY <1>2, <1>3, Zenon

-----------------------------------------------------------------------------
(* Recursion along a predecessor p that lowers a rank *)

\* What g should be at x.
Step(g, x, base, b, p, step) == IF x \in base THEN b ELSE step[<<x, g[p[x]]>>]

Correct(g, n, X, rank, base, b, p, step) ==
  \A x \in X : rank[x] <= n => g[x] = Step(g, x, base, b, p, step)

LEMMA CorrectAgree ==
  ASSUME NEW X, NEW rank \in [X -> Nat], NEW base, NEW b, NEW p \in [X -> X],
         NEW step, \A x \in X \ base : rank[p[x]] < rank[x],
         NEW g, NEW h, NEW m \in Nat, NEW n \in Nat,
         Correct(g, m, X, rank, base, b, p, step),
         Correct(h, n, X, rank, base, b, p, step)
  PROVE  \A x \in X : rank[x] <= m /\ rank[x] <= n => g[x] = h[x]
<1> DEFINE Bad == {x \in X : rank[x] <= m /\ rank[x] <= n /\ g[x] # h[x]}
           Ranks == {rank[x] : x \in Bad}
<1> SUFFICES ASSUME Bad # {} PROVE FALSE  OBVIOUS
<1>1. Ranks \in SUBSET Nat /\ Ranks # {}  OBVIOUS
<1>2. PICK r \in Ranks : \A k \in Ranks : r <= k
  <2> HIDE DEF Ranks
  <2> QED BY <1>1, LeastNatural
<1>3. PICK x \in Bad : rank[x] = r  OBVIOUS
<1>4. x \notin base  BY <1>3 DEF Correct, Step
<1>5. p[x] \in X /\ rank[p[x]] < rank[x]  BY <1>3, <1>4
<1>6. p[x] \notin Bad
  <2> SUFFICES ASSUME p[x] \in Bad PROVE FALSE  OBVIOUS
  <2>1. rank[p[x]] \in Ranks  OBVIOUS
  <2> QED BY <2>1, <1>2, <1>3, <1>5
<1>7. g[p[x]] = h[p[x]]  BY <1>3, <1>5, <1>6
<1> QED BY <1>3, <1>4, <1>7 DEF Correct, Step

LEMMA CorrectExists ==
  ASSUME NEW X, NEW Y, NEW rank \in [X -> Nat], NEW base, NEW b \in Y,
         NEW p \in [X -> X], NEW step \in [X \X Y -> Y],
         \A x \in X \ base : rank[p[x]] < rank[x]
  PROVE  \A n \in Nat : \E g \in [X -> Y] :
           Correct(g, n, X, rank, base, b, p, step)
<1> DEFINE Good(n) == \E g \in [X -> Y] : Correct(g, n, X, rank, base, b, p, step)
           Bad == {n \in Nat : ~Good(n)}
<1> SUFFICES ASSUME Bad # {} PROVE FALSE  OBVIOUS
<1>1. PICK n \in Bad : \A m \in Bad : n <= m
  <2>1. Bad \in SUBSET Nat  OBVIOUS
  <2> HIDE DEF Bad
  <2> QED BY <2>1, LeastNatural
<1>2. PICK g \in [X -> Y] :
        n > 0 => Correct(g, n - 1, X, rank, base, b, p, step)
  <2>1. CASE n = 0
    <3>1. [x \in X |-> b] \in [X -> Y] /\ ~ (n > 0)  BY <2>1
    <3> QED BY <3>1, Zenon
  <2>2. CASE n > 0
    <3>1. n - 1 \in Nat /\ n - 1 \notin Bad  BY <1>1, <2>2
    <3>2. Good(n - 1)  BY <3>1
    <3> HIDE DEF Bad
    <3> QED BY <3>2
  <2> QED BY <1>1, <2>1, <2>2
<1> DEFINE h == [x \in X |-> Step(g, x, base, b, p, step)]
<1>3. h \in [X -> Y]  BY DEF Step
<1>4. Correct(h, n, X, rank, base, b, p, step)
  <2> SUFFICES ASSUME NEW x \in X, rank[x] <= n
               PROVE  h[x] = Step(h, x, base, b, p, step)
    BY DEF Correct
  <2>1. CASE x \in base  BY <2>1 DEF Step
  <2>2. CASE x \notin base
    <3>1. p[x] \in X /\ rank[p[x]] < rank[x] /\ rank[p[x]] \in Nat /\ rank[x] \in Nat
      BY <2>2
    <3>2. n > 0 /\ rank[p[x]] <= n - 1  BY <3>1, <1>1
    <3>3. g[p[x]] = Step(g, p[x], base, b, p, step)  BY <3>1, <3>2, <1>2 DEF Correct
    <3>4. h[p[x]] = g[p[x]]  BY <3>1, <3>3
    <3> QED BY <2>2, <3>4 DEF Step
  <2> QED BY <2>1, <2>2
<1>5. Good(n)  BY <1>3, <1>4
<1> QED BY <1>1, <1>5

\* Kept folded where they are cited, as the backends match them then.
IsRecursion(X, Y, rank, base, b, p, step) ==
  /\ rank \in [X -> Nat] /\ p \in [X -> X]
  /\ b \in Y /\ step \in [X \X Y -> Y]
  /\ \A x \in X \ base : rank[p[x]] < rank[x]

Solves(f, X, base, b, p, step) ==
  \A x \in X : f[x] = Step(f, x, base, b, p, step)

\* The recursion has a solution.
LEMMA RecursionExists ==
  ASSUME NEW X, NEW Y, NEW rank, NEW base, NEW b, NEW p, NEW step,
         IsRecursion(X, Y, rank, base, b, p, step)
  PROVE  \E f \in [X -> Y] : Solves(f, X, base, b, p, step)
<1> USE DEF IsRecursion
<1> DEFINE C(g, n) == Correct(g, n, X, rank, base, b, p, step)
           sol == [n \in Nat |-> CHOOSE g \in [X -> Y] : C(g, n)]
           f == [x \in X |-> sol[rank[x]][x]]
<1>1. \A n \in Nat : sol[n] \in [X -> Y] /\ C(sol[n], n)
  <2>1. \A n \in Nat : \E g \in [X -> Y] : C(g, n)  BY CorrectExists
  <2> QED BY <2>1
<1>2. f \in [X -> Y]  BY <1>1
<1>3. ASSUME NEW x \in X PROVE f[x] = Step(f, x, base, b, p, step)
  <2> DEFINE g == sol[rank[x]]
  <2>0. rank[x] \in Nat /\ p[x] \in X /\ rank[p[x]] \in Nat  OBVIOUS
  <2>1. C(g, rank[x]) /\ f[x] = g[x]  BY <1>1, <2>0
  <2>2. g[x] = Step(g, x, base, b, p, step)  BY <2>1, <2>0 DEF Correct
  <2>3. CASE x \in base  BY <2>1, <2>2, <2>3 DEF Step
  <2>4. CASE x \notin base
    <3>1. rank[p[x]] < rank[x]  BY <2>4
    <3>2. C(sol[rank[p[x]]], rank[p[x]]) /\ f[p[x]] = sol[rank[p[x]]][p[x]]
      BY <1>1, <2>0
    <3> HIDE DEF sol, f, g
    <3>3. f[p[x]] = g[p[x]]
      BY <2>0, <2>1, <3>1, <3>2, CorrectAgree
    <3> QED BY <2>1, <2>2, <2>4, <3>3 DEF Step
  <2> QED BY <2>3, <2>4
<1> QED BY <1>2, <1>3 DEF Solves

-----------------------------------------------------------------------------
(* Sums of a function over a finite set *)

First(s) == CHOOSE x \in s : TRUE

\* The recursion by which Functions defines the sum over the subsets of D.
IsSum(g, f, D) ==
  g = [s \in SUBSET D |-> IF s = {} THEN 0 ELSE f[First(s)] + g[s \ {First(s)}]]

LEMMA SumExists ==
  ASSUME NEW D, IsFiniteSet(D), NEW f \in [D -> Int]
  PROVE  \E g \in [SUBSET D -> Int] : IsSum(g, f, D)
<1> DEFINE rank == [s \in SUBSET D |-> Cardinality(s)]
           p    == [s \in SUBSET D |-> s \ {First(s)}]
           step == [z \in (SUBSET D) \X Int |->
                      IF z[1] = {} THEN 0 ELSE f[First(z[1])] + z[2]]
<1>1. \A s \in SUBSET D : IsFiniteSet(s) /\ Cardinality(s) \in Nat
  BY FS_Subset, FS_CardinalityType
<1>2. rank \in [SUBSET D -> Nat] /\ p \in [SUBSET D -> SUBSET D]  BY <1>1
<1>3. \A s \in SUBSET D : s # {} => First(s) \in s  BY DEF First
<1>4. step \in [(SUBSET D) \X Int -> Int]  BY <1>3
<1>5. \A s \in (SUBSET D) \ {{}} : rank[p[s]] < rank[s]
  <2> TAKE s \in (SUBSET D) \ {{}}
  <2>1. Cardinality(s \ {First(s)}) = Cardinality(s) - 1
    BY <1>1, <1>3, FS_RemoveElement
  <2> QED BY <2>1, <1>1
<1>6. PICK g \in [SUBSET D -> Int] : Solves(g, SUBSET D, {{}}, 0, p, step)
  <2>1. IsRecursion(SUBSET D, Int, rank, {{}}, 0, p, step)
    <3> HIDE DEF rank, p, step
    <3> QED BY <1>2, <1>4, <1>5 DEF IsRecursion
  <2> HIDE DEF rank, p, step
  <2> QED BY <2>1, RecursionExists
<1>7. ASSUME NEW s \in SUBSET D
      PROVE  g[s] = IF s = {} THEN 0 ELSE f[First(s)] + g[s \ {First(s)}]
  <2>1. g[p[s]] \in Int  BY <1>2
  <2> QED BY <2>1, <1>6 DEF Step, Solves
<1>8. g = [s \in SUBSET D |-> g[s]]  OBVIOUS
<1> QED BY <1>7, <1>8 DEF IsSum

LEMMA SumIsSum ==
  ASSUME NEW D, IsFiniteSet(D), NEW f \in [D -> Int]
  PROVE  \E g : IsSum(g, f, D) /\ SumFunctionOnSet(f, D) = g[D]
<1> DEFINE g == CHOOSE g : IsSum(g, f, D)
<1>1. IsSum(g, f, D)  BY SumExists
<1>2. SumFunctionOnSet(f, D) = g[D]
  BY DEF SumFunctionOnSet, FoldFunctionOnSet, MapThenFoldSet, IsSum, First
<1> QED BY <1>1, <1>2

\* The same, taken apart.
AddsUp(g, f, D) ==
  /\ g = [s \in SUBSET D |-> g[s]]
  /\ g[{}] = 0
  /\ \A s \in SUBSET D : s # {} =>
       First(s) \in s /\ g[s] = f[First(s)] + g[s \ {First(s)}]

LEMMA SumUnfold ==
  ASSUME NEW D, IsFiniteSet(D), NEW f \in [D -> Int]
  PROVE  \E g : AddsUp(g, f, D) /\ SumFunctionOnSet(f, D) = g[D]
<1>1. PICK g : IsSum(g, f, D) /\ SumFunctionOnSet(f, D) = g[D]  BY SumIsSum, Zenon
<1>2. \A s \in SUBSET D :
        g[s] = IF s = {} THEN 0 ELSE f[First(s)] + g[s \ {First(s)}]
  BY <1>1 DEF IsSum
<1>3. g = [s \in SUBSET D |-> g[s]]  BY <1>1 DEF IsSum
<1>4. {} \in SUBSET D  OBVIOUS
<1>5. g[{}] = 0  BY <1>2, <1>4
<1>6. ASSUME NEW s \in SUBSET D, s # {}
      PROVE  First(s) \in s /\ g[s] = f[First(s)] + g[s \ {First(s)}]
  <2>1. First(s) \in s  BY <1>6 DEF First
  <2>2. g[s] = f[First(s)] + g[s \ {First(s)}]  BY <1>2, <1>6, Zenon
  <2> QED BY <2>1, <2>2
<1> QED BY <1>1, <1>3, <1>5, <1>6, Zenon DEF AddsUp

LEMMA SumType ==
  ASSUME NEW D, IsFiniteSet(D), NEW f \in [D -> Int], NEW g, AddsUp(g, f, D)
  PROVE  g \in [SUBSET D -> Int]
<1> DEFINE Bad == {s \in SUBSET D : g[s] \notin Int}
<1>1. Bad = {}
  <2> SUFFICES ASSUME Bad # {} PROVE FALSE  OBVIOUS
  <2>1. PICK s \in Bad : \A t \in Bad : t \subseteq s => t = s
    <3>1. Bad \in SUBSET (SUBSET D)  OBVIOUS
    <3> HIDE DEF Bad
    <3> QED BY <3>1, MinimalSubset
  <2>2. s # {} /\ g[s] \notin Int
    <3>1. g[{}] \in Int  BY DEF AddsUp
    <3> QED BY <3>1, Zenon
  <2>3. First(s) \in s /\ g[s] = f[First(s)] + g[s \ {First(s)}]
    BY <2>2, Zenon DEF AddsUp
  <2>4. s \ {First(s)} \in SUBSET D /\ s \ {First(s)} \notin Bad  BY <2>1, <2>3
  <2>5. f[First(s)] \in Int /\ g[s \ {First(s)}] \in Int  BY <2>3, <2>4
  <2> QED BY <2>2, <2>3, <2>5
<1>2. \A s \in SUBSET D : g[s] \in Int  BY <1>1
<1>3. g = [s \in SUBSET D |-> g[s]]  BY DEF AddsUp
<1> QED BY <1>2, <1>3, Zenon

\* Two sums over the same set, of functions that differ at m, by d.
LEMMA SumsDiffer ==
  ASSUME NEW D, IsFiniteSet(D), NEW f \in [D -> Int], NEW h \in [D -> Int],
         NEW m, NEW d \in Int,
         \A x \in D : h[x] = IF x = m THEN f[x] + d ELSE f[x],
         NEW g, AddsUp(g, f, D), NEW k, AddsUp(k, h, D)
  PROVE  \A s \in SUBSET D : k[s] = IF m \in s THEN g[s] + d ELSE g[s]
<1> DEFINE Bad == {s \in SUBSET D : k[s] # IF m \in s THEN g[s] + d ELSE g[s]}
<1> SUFFICES ASSUME Bad # {} PROVE FALSE  OBVIOUS
<1>1. PICK s \in Bad : \A t \in Bad : t \subseteq s => t = s
  <2>1. Bad \in SUBSET (SUBSET D)  OBVIOUS
  <2> HIDE DEF Bad
  <2> QED BY <2>1, MinimalSubset
<1>2. s # {}
  <2>1. g[{}] = 0 /\ k[{}] = 0  BY DEF AddsUp
  <2> QED BY <2>1
<1> DEFINE x == First(s)
           t == s \ {x}
<1>3. /\ x \in s /\ x \in D
      /\ g[s] = f[x] + g[t] /\ k[s] = h[x] + k[t]
  BY <1>2, Zenon DEF AddsUp
<1>4. t \in SUBSET D /\ t \notin Bad  BY <1>1, <1>3
<1>5. f[x] \in Int /\ g[t] \in Int
  <2>1. g \in [SUBSET D -> Int]  BY SumType, Zenon
  <2> QED BY <1>3, <1>4, <2>1
<1>6. k[t] = IF m \in t THEN g[t] + d ELSE g[t]  BY <1>4
<1>7. m \in s <=> m \in t \/ m = x  BY <1>3
<1>8. m \in t => m # x  OBVIOUS
<1>9. k[s] # IF m \in s THEN g[s] + d ELSE g[s]  OBVIOUS
<1>10. h[x] = IF x = m THEN f[x] + d ELSE f[x]  BY <1>3
<1> HIDE DEF x, t
<1> QED BY <1>3, <1>5, <1>6, <1>7, <1>8, <1>9, <1>10

\* The sum of zeros, and what a sum becomes when one summand grows by d.
LEMMA SumOfZeros ==
  ASSUME NEW D, IsFiniteSet(D), NEW f \in [D -> Int], \A x \in D : f[x] = 0
  PROVE  SumFunction(f) = 0
<1>1. PICK g : AddsUp(g, f, D) /\ SumFunctionOnSet(f, D) = g[D]  BY SumUnfold, Zenon
<1> DEFINE Bad == {s \in SUBSET D : g[s] # 0}
<1>2. Bad = {}
  <2> SUFFICES ASSUME Bad # {} PROVE FALSE  OBVIOUS
  <2>1. PICK s \in Bad : \A t \in Bad : t \subseteq s => t = s
    <3>1. Bad \in SUBSET (SUBSET D)  OBVIOUS
    <3> HIDE DEF Bad
    <3> QED BY <3>1, MinimalSubset
  <2>2. s # {}  BY <1>1, Zenon DEF AddsUp
  <2>3. First(s) \in s /\ g[s] = f[First(s)] + g[s \ {First(s)}]
    BY <1>1, <2>2, Zenon DEF AddsUp
  <2>4. s \ {First(s)} \in SUBSET D /\ s \ {First(s)} \notin Bad  BY <2>1, <2>3
  <2>5. f[First(s)] = 0 /\ g[s \ {First(s)}] = 0  BY <2>3, <2>4
  <2> QED BY <2>3, <2>5
<1>3. g[D] = 0  BY <1>2
<1>4. DOMAIN f = D  OBVIOUS
<1> QED BY <1>1, <1>3, <1>4, Zenon DEF SumFunction

GrowsAt(f, h, m, d, D) ==
  \A x \in D : h[x] = IF x = m THEN f[x] + d ELSE f[x]

LEMMA SumGrows ==
  ASSUME NEW D, IsFiniteSet(D), NEW f \in [D -> Int], NEW h \in [D -> Int],
         NEW m \in D, NEW d \in Int,
         GrowsAt(f, h, m, d, D)
  PROVE  SumFunction(f) \in Int /\ SumFunction(h) = SumFunction(f) + d
<1>1. PICK g : AddsUp(g, f, D) /\ SumFunctionOnSet(f, D) = g[D]  BY SumUnfold, Zenon
<1>2. PICK k : AddsUp(k, h, D) /\ SumFunctionOnSet(h, D) = k[D]  BY SumUnfold, Zenon
<1>3. g[D] \in Int
  <2>1. g \in [SUBSET D -> Int]  BY <1>1, SumType, Zenon
  <2> QED BY <2>1
<1>4. k[D] = g[D] + d
  <2>1. \A s \in SUBSET D : k[s] = IF m \in s THEN g[s] + d ELSE g[s]
    <3> QED BY <1>1, <1>2, SumsDiffer DEF GrowsAt
  <2> QED BY <2>1
<1>5. DOMAIN f = D /\ DOMAIN h = D  OBVIOUS
<1>6. SumFunction(f) = g[D] /\ SumFunction(h) = k[D]
  BY <1>1, <1>2, <1>5, Zenon DEF SumFunction
<1> QED BY <1>3, <1>4, <1>6
=============================================================================
