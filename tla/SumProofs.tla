------------------------------ MODULE SumProofs -----------------------------
(***************************************************************************)
(* What the sums of the other modules compute.  A sum over a set or a list *)
(* is a recursive function, of which TLA+ only says that it is some        *)
(* function with the recursive property, if there is one: that there is    *)
(* one, and what it returns, is shown here by taking a least number or a   *)
(* smallest subset for which it would not be so.                           *)
(***************************************************************************)
EXTENDS FiniteSetsExt, FiniteSetTheorems, TLAPS

(* A non-empty set of numbers has a smallest element.                      *)
LEMMA HasMin == ASSUME NEW S \in SUBSET Nat, S # {} PROVE \E x \in S : \A y \in S : x <= y
<1>1. PICK x \in S : \A y \in S : ~(<<y, x>> \in OpToRel(<, Nat))
  BY WFMin, NatLessThanWellFounded
<1>2. \A y \in Nat : y < x => <<y, x>> \in OpToRel(<, Nat)
  BY DEF OpToRel
<1>3. \A y \in S : ~(y < x)
  BY <1>1, <1>2
<1>4. \A y \in S : x <= y
  BY <1>3
<1> QED  BY <1>4

(* Of a set of subsets of a finite set, one has no proper subset in it.    *)
LEMMA HasSmallestSubset ==
    ASSUME NEW S, IsFiniteSet(S), NEW F, \A T \in F : T \subseteq S, F # {}
    PROVE  \E T \in F : \A U \in F : U \subseteq T => U = T
<1>1. FiniteSubsetsOf(S) = SUBSET S
  BY FS_FiniteSubsetsOfFinite
<1>2. \E T \in F : \A U \in F : ~(<<U, T>> \in StrictSubsetOrdering(S))
  <2>1. F \subseteq FiniteSubsetsOf(S)
    BY <1>1
  <2> QED  BY <2>1, WFMin, FS_StrictSubsetOrderingWellFounded
<1>3. \A T, U \in SUBSET S : <<U, T>> \in StrictSubsetOrdering(S) <=> U \subseteq T /\ U # T
  BY DEF StrictSubsetOrdering
<1> QED  BY <1>2, <1>3
-----------------------------------------------------------------------------
(* One step of the sum of v over a set, and the function that takes it     *)
(* everywhere.                                                             *)
Picked(s) == CHOOSE x \in s : TRUE
SumStep(g, v, s) == IF s = {} THEN 0 ELSE v[Picked(s)] + g[s \ {Picked(s)}]
IsSum(g, v, S) == g = [s \in SUBSET S |-> SumStep(g, v, s)]

(* There is one: it is built up by the size of the set.                    *)
LEMMA SumExists ==
    ASSUME NEW v, NEW S, IsFiniteSet(S)
    PROVE  \E g : IsSum(g, v, S)
<1> DEFINE Upto(g, n) == \A s \in SUBSET S : Cardinality(s) <= n => g[s] = SumStep(g, v, s)
           Bad == {n \in Nat : ~\E g : Upto(g, n)}
<1>0. \A s \in SUBSET S : /\ Cardinality(s) \in Nat /\ Cardinality(s) <= Cardinality(S)
                          /\ Cardinality(s) = 0 <=> s = {}
                          /\ \A x \in s : Cardinality(s \ {x}) = Cardinality(s) - 1
  BY FS_Subset, FS_CardinalityType, FS_EmptySet, FS_RemoveElement
<1>1. Bad = {}
  <2> SUFFICES ASSUME Bad # {} PROVE FALSE
    OBVIOUS
  <2>1. PICK m \in Bad : \A y \in Bad : m <= y
    BY HasMin
  <2>2. CASE m = 0
    <3> DEFINE z == [s \in SUBSET S |-> 0]
    <3>1. Upto(z, 0)
      BY <1>0 DEF SumStep
    <3> QED  BY <3>1, <2>1, <2>2
  <2>3. CASE m # 0
    <3>1. m - 1 \in Nat /\ m - 1 \notin Bad
      BY <2>1, <2>3
    <3>2. PICK g : Upto(g, m - 1)
      BY <3>1
    <3> DEFINE h == [s \in SUBSET S |-> IF Cardinality(s) <= m - 1 THEN g[s] ELSE SumStep(g, v, s)]
    <3>3. ASSUME NEW s \in SUBSET S, Cardinality(s) <= m PROVE h[s] = SumStep(h, v, s)
      <4>1. h[s] = SumStep(g, v, s)
        BY <3>2
      <4>2. CASE s = {}
        BY <4>1, <4>2 DEF SumStep
      <4>3. CASE s # {}
        <5> DEFINE r == s \ {Picked(s)}
        <5>1. Picked(s) \in s
          BY <4>3 DEF Picked
        <5>2. r \in SUBSET S /\ Cardinality(r) <= m - 1
          BY <5>1, <1>0, <3>3, <2>1
        <5>3. h[r] = g[r]
          BY <5>2
        <5> QED  BY <4>1, <4>3, <5>3 DEF SumStep
      <4> QED  BY <4>2, <4>3
    <3>4. Upto(h, m)
      BY <3>3
    <3> QED  BY <3>4, <2>1
  <2> QED  BY <2>2, <2>3
<1>2. PICK g : Upto(g, Cardinality(S))
  BY <1>1, <1>0
<1> DEFINE h == [s \in SUBSET S |-> g[s]]
<1>3. ASSUME NEW s \in SUBSET S PROVE h[s] = SumStep(h, v, s)
  <2>1. h[s] = SumStep(g, v, s)
    BY <1>2, <1>0
  <2>2. h[s \ {Picked(s)}] = g[s \ {Picked(s)}]
    OBVIOUS
  <2> QED  BY <2>1, <2>2 DEF SumStep
<1>4. h = [s \in SUBSET S |-> SumStep(h, v, s)]
  BY <1>3
<1> QED  BY <1>4 DEF IsSum

(* The sum is its value at S.                                              *)
LEMMA SumIsSum ==
    ASSUME NEW v, NEW S, IsFiniteSet(S)
    PROVE  \E g : IsSum(g, v, S) /\ SumFunctionOnSet(v, S) = g[S]
<1> DEFINE G == CHOOSE g : IsSum(g, v, S)
<1>1. IsSum(G, v, S)
  BY SumExists
<1>2. SumFunctionOnSet(v, S) = G[S]
  BY Zenon DEF SumFunctionOnSet, FoldFunctionOnSet, MapThenFoldSet, IsSum, SumStep, Picked
<1> QED  BY <1>1, <1>2

(* The sum is a number, and any element may be split off it.               *)
LEMMA SplitsOff ==
    ASSUME NEW v, NEW S, IsFiniteSet(S), \A k \in S : v[k] \in Int, NEW g, IsSum(g, v, S)
    PROVE  /\ g[{}] = 0
           /\ \A s \in SUBSET S : g[s] \in Int
           /\ \A s \in SUBSET S : \A y \in s : g[s] = v[y] + g[s \ {y}]
<1>0. \A s \in SUBSET S : g[s] = SumStep(g, v, s)
  BY DEF IsSum
<1>1. g[{}] = 0
  BY <1>0 DEF SumStep
<1>2. \A s \in SUBSET S : s # {} => Picked(s) \in s /\ g[s] = v[Picked(s)] + g[s \ {Picked(s)}]
  BY <1>0 DEF SumStep, Picked
<1>3. \A s \in SUBSET S : g[s] \in Int
  <2> DEFINE F == {s \in SUBSET S : g[s] \notin Int}
  <2> SUFFICES ASSUME F # {} PROVE FALSE
    OBVIOUS
  <2>1. \A T \in F : T \subseteq S
    OBVIOUS
  <2> HIDE DEF F
  <2>2. PICK s \in F : \A U \in F : U \subseteq s => U = s
    BY <2>1, HasSmallestSubset
  <2> DEFINE x == Picked(s)
  <2>3. s \in SUBSET S /\ g[s] \notin Int
    BY DEF F
  <2>4. s # {}
    BY <2>3, <1>1
  <2>5. x \in s /\ g[s] = v[x] + g[s \ {x}]
    BY <2>3, <2>4, <1>2
  <2>6. s \ {x} \in SUBSET S /\ s \ {x} \notin F
    BY <2>2, <2>3, <2>5
  <2>7. g[s \ {x}] \in Int
    BY <2>6 DEF F
  <2>8. v[x] \in Int
    BY <2>3, <2>5
  <2> HIDE DEF x
  <2> QED  BY <2>3, <2>5, <2>7, <2>8
<1>4. \A s \in SUBSET S : \A y \in s : g[s] = v[y] + g[s \ {y}]
  <2> DEFINE F == {s \in SUBSET S : \E y \in s : g[s] # v[y] + g[s \ {y}]}
  <2> SUFFICES ASSUME F # {} PROVE FALSE
    OBVIOUS
  <2>1. \A T \in F : T \subseteq S
    OBVIOUS
  <2> HIDE DEF F
  <2>2. PICK s \in F : \A U \in F : U \subseteq s => U = s
    BY <2>1, HasSmallestSubset
  <2>3. s \in SUBSET S
    BY DEF F
  <2>4. PICK y \in s : g[s] # v[y] + g[s \ {y}]
    BY DEF F
  <2> DEFINE x == Picked(s)
             r == s \ {x, y}
  <2>5. x \in s /\ g[s] = v[x] + g[s \ {x}] /\ x # y
    BY <2>3, <2>4, <1>2
  <2>6. s \ {x} \in SUBSET S /\ s \ {x} \notin F /\ s \ {y} \in SUBSET S /\ s \ {y} \notin F
    BY <2>2, <2>3, <2>4, <2>5
  <2>7. (s \ {x}) \ {y} = r /\ (s \ {y}) \ {x} = r /\ y \in s \ {x} /\ x \in s \ {y} /\ r \in SUBSET S
    BY <2>3, <2>4, <2>5
  <2>8. g[s \ {x}] = v[y] + g[r]
    BY <2>6, <2>7 DEF F
  <2>9. g[s \ {y}] = v[x] + g[r]
    BY <2>6, <2>7 DEF F
  <2>10. g[r] \in Int /\ v[x] \in Int /\ v[y] \in Int
    BY <2>7, <2>5, <2>4, <2>3, <1>3
  <2> HIDE DEF x, r
  <2> QED  BY <2>4, <2>5, <2>8, <2>9, <2>10
<1> QED  BY <1>1, <1>3, <1>4

SameOn(v, w, T) == \A k \in T : v[k] = w[k]

(* A sum over T depends on nothing but T and the values in it.             *)
LEMMA SumsAgree ==
    ASSUME NEW v, NEW w, NEW S, NEW R, NEW g, IsSum(g, v, S), NEW h, IsSum(h, w, R),
           NEW T, T \subseteq S, T \subseteq R, IsFiniteSet(T), SameOn(v, w, T)
    PROVE  g[T] = h[T]
<1> DEFINE F == {s \in SUBSET T : g[s] # h[s]}
<1> SUFFICES ASSUME F # {} PROVE FALSE
  OBVIOUS
<1>1. \A s \in F : s \subseteq T
  OBVIOUS
<1>2. \A s \in SUBSET T : g[s] = SumStep(g, v, s) /\ h[s] = SumStep(h, w, s)
  BY DEF IsSum
<1> HIDE DEF F
<1>3. PICK s \in F : \A U \in F : U \subseteq s => U = s
  BY <1>1, HasSmallestSubset
<1>4. s \in SUBSET T /\ g[s] # h[s]
  BY DEF F
<1>5. s # {}
  BY <1>4, <1>2 DEF SumStep
<1> DEFINE x == Picked(s)
<1>6. x \in s
  BY <1>5 DEF Picked
<1>7. s \ {x} \in SUBSET T /\ s \ {x} \notin F
  BY <1>3, <1>4, <1>6
<1>8. g[s \ {x}] = h[s \ {x}]
  BY <1>7 DEF F
<1>9. v[x] = w[x]
  BY <1>4, <1>6 DEF SameOn
<1> QED  BY <1>2, <1>4, <1>5, <1>8, <1>9 DEF SumStep
-----------------------------------------------------------------------------
(* Equal values have equal sums.                                           *)
LEMMA SumAgrees ==
    ASSUME NEW v, NEW w, NEW S, IsFiniteSet(S), \A k \in S : v[k] = w[k]
    PROVE  SumFunctionOnSet(v, S) = SumFunctionOnSet(w, S)
<1>1. PICK g : IsSum(g, v, S) /\ SumFunctionOnSet(v, S) = g[S]
  BY SumIsSum
<1>2. PICK h : IsSum(h, w, S) /\ SumFunctionOnSet(w, S) = h[S]
  BY SumIsSum
<1>3. S \subseteq S /\ SameOn(v, w, S)
  BY DEF SameOn
<1>4. IsSum(g, v, S) /\ IsSum(h, w, S)
  BY <1>1, <1>2
<1>5. g[S] = h[S]
  BY <1>3, <1>4, SumsAgree
<1> QED  BY <1>1, <1>2, <1>5

(* A sum is a number, 0 over the empty set, and an element's value more    *)
(* than the sum over the others.                                           *)
LEMMA SumSplits ==
    ASSUME NEW v, NEW S, IsFiniteSet(S), \A k \in S : v[k] \in Int
    PROVE  /\ SumFunctionOnSet(v, S) \in Int
           /\ S = {} => SumFunctionOnSet(v, S) = 0
           /\ \A y \in S : SumFunctionOnSet(v, S) = v[y] + SumFunctionOnSet(v, S \ {y})
<1>1. PICK g : IsSum(g, v, S) /\ SumFunctionOnSet(v, S) = g[S]
  BY SumIsSum
<1>2. /\ g[{}] = 0 /\ \A s \in SUBSET S : g[s] \in Int
      /\ \A s \in SUBSET S : \A y \in s : g[s] = v[y] + g[s \ {y}]
  BY <1>1, SplitsOff
<1>3. ASSUME NEW y \in S PROVE SumFunctionOnSet(v, S) = v[y] + SumFunctionOnSet(v, S \ {y})
  <2> DEFINE R == S \ {y}
  <2>1. IsFiniteSet(R)
    BY FS_Subset
  <2>2. PICK h : IsSum(h, v, R) /\ SumFunctionOnSet(v, R) = h[R]
    BY <2>1, SumIsSum
  <2>3. R \subseteq S /\ R \subseteq R /\ SameOn(v, v, R)
    BY DEF SameOn
  <2>4. g[R] = h[R]
    <3> HIDE DEF R
    <3> QED  BY <1>1, <2>1, <2>2, <2>3, SumsAgree
  <2> QED  BY <1>1, <1>2, <2>2, <2>4
<1> QED  BY <1>1, <1>2, <1>3

(* One more element adds its value.                                        *)
LEMMA SumAdds ==
    ASSUME NEW v, NEW S, IsFiniteSet(S), \A k \in S : v[k] \in Int, NEW y, y \notin S, v[y] \in Int
    PROVE  SumFunctionOnSet(v, S \union {y}) = v[y] + SumFunctionOnSet(v, S)
<1> DEFINE R == S \union {y}
<1>1. IsFiniteSet(R) /\ y \in R /\ R \ {y} = S /\ \A k \in R : v[k] \in Int
  BY FS_AddElement
<1> HIDE DEF R
<1>2. SumFunctionOnSet(v, R) = v[y] + SumFunctionOnSet(v, S)
  BY <1>1, SumSplits
<1> QED  BY <1>2 DEF R

(* Over values that are not negative, a smaller set has no larger sum.     *)
LEMMA SumGrows ==
    ASSUME NEW v, NEW S, IsFiniteSet(S), \A k \in S : v[k] \in Nat, NEW T \in SUBSET S
    PROVE  SumFunctionOnSet(v, T) <= SumFunctionOnSet(v, S)
<1> DEFINE F == {R \in SUBSET S : T \subseteq R
                                  /\ ~(SumFunctionOnSet(v, T) <= SumFunctionOnSet(v, R))}
<1> SUFFICES ASSUME F # {} PROVE FALSE
  OBVIOUS
<1>1. \A R \in F : R \subseteq S
  OBVIOUS
<1> HIDE DEF F
<1>2. PICK R \in F : \A U \in F : U \subseteq R => U = R
  BY <1>1, HasSmallestSubset
<1>3. R \in SUBSET S /\ T \subseteq R /\ ~(SumFunctionOnSet(v, T) <= SumFunctionOnSet(v, R))
  BY DEF F
<1>4. /\ IsFiniteSet(R) /\ IsFiniteSet(T) /\ \A k \in S : v[k] \in Int
      /\ \A k \in T : v[k] \in Int
  BY <1>3, FS_Subset
<1>5. SumFunctionOnSet(v, T) \in Int /\ SumFunctionOnSet(v, R) \in Int
  BY <1>3, <1>4, SumSplits
<1>6. PICK y \in R : y \notin T
  BY <1>3, <1>5
<1>7. R \ {y} \in SUBSET S /\ R \ {y} \notin F /\ T \subseteq R \ {y}
  BY <1>2, <1>3, <1>6
<1>8. SumFunctionOnSet(v, T) <= SumFunctionOnSet(v, R \ {y})
  BY <1>7 DEF F
<1>9. SumFunctionOnSet(v, R) = v[y] + SumFunctionOnSet(v, R \ {y}) /\ v[y] \in Nat
  BY <1>3, <1>4, <1>6, SumSplits
<1>10. SumFunctionOnSet(v, R \ {y}) \in Int
  <2>1. IsFiniteSet(R \ {y}) /\ \A k \in R \ {y} : v[k] \in Int
    BY <1>3, <1>4, FS_Subset
  <2> QED  BY <2>1, SumSplits
<1> QED  BY <1>3, <1>5, <1>8, <1>9, <1>10

(* A sum of values that are not negative is not.                           *)
LEMMA SumIsNat ==
    ASSUME NEW v, NEW S, IsFiniteSet(S), \A k \in S : v[k] \in Nat
    PROVE  SumFunctionOnSet(v, S) \in Nat
<1>1. /\ {} \in SUBSET S /\ IsFiniteSet({}) /\ \A k \in S : v[k] \in Int
      /\ \A k \in {} : v[k] \in Int
  BY FS_EmptySet
<1>2. SumFunctionOnSet(v, {}) = 0
  BY <1>1, SumSplits
<1>3. SumFunctionOnSet(v, S) \in Int
  BY <1>1, SumSplits
<1>4. SumFunctionOnSet(v, {}) <= SumFunctionOnSet(v, S)
  BY <1>1, SumGrows
<1> QED  BY <1>2, <1>3, <1>4
-----------------------------------------------------------------------------
(* The running totals of a list w of length n.                             *)
AddsUp(f, w, n) == f = [i \in 0..n |-> IF i = 0 THEN 0 ELSE f[i - 1] + w[i]]

(* They exist.                                                             *)
LEMMA AddsUpExists == ASSUME NEW w, NEW n \in Nat PROVE \E f : AddsUp(f, w, n)
<1> DEFINE E(f, i) == IF i = 0 THEN 0 ELSE f[i - 1] + w[i]
           Upto(f, m) == \A i \in 0..n : i <= m => f[i] = E(f, i)
           Bad == {m \in Nat : ~\E f : Upto(f, m)}
<1>1. Bad = {}
  <2> SUFFICES ASSUME Bad # {} PROVE FALSE
    OBVIOUS
  <2>1. PICK m \in Bad : \A y \in Bad : m <= y
    BY HasMin
  <2>2. CASE m = 0
    <3> DEFINE z == [i \in 0..n |-> 0]
    <3>1. Upto(z, 0)
      OBVIOUS
    <3> QED  BY <3>1, <2>1, <2>2
  <2>3. CASE m # 0
    <3>1. m - 1 \in Nat /\ m - 1 \notin Bad
      <4>1. m \in Nat /\ \A y \in Bad : m <= y
        BY <2>1
      <4> HIDE DEF Bad
      <4> QED  BY <4>1, <2>3
    <3>2. PICK f : Upto(f, m - 1)
      BY <3>1
    <3> DEFINE h == [i \in 0..n |-> IF i <= m - 1 THEN f[i] ELSE E(f, i)]
    <3>3. ASSUME NEW i \in 0..n, i <= m PROVE h[i] = E(h, i)
      <4>1. h[i] = E(f, i)
        BY <3>2
      <4>2. i # 0 => h[i - 1] = f[i - 1]
        BY <3>3, <2>1
      <4> QED  BY <4>1, <4>2
    <3>4. Upto(h, m)
      BY <3>3
    <3> QED  BY <3>4, <2>1
  <2> QED  BY <2>2, <2>3
<1>2. PICK f : Upto(f, n)
  BY <1>1
<1> DEFINE h == [i \in 0..n |-> f[i]]
<1>3. \A i \in 0..n : h[i] = E(h, i)
  BY <1>2
<1>4. h = [i \in 0..n |-> E(h, i)]
  BY <1>3
<1> QED  BY <1>4 DEF AddsUp

(* They are numbers, and nothing else grows by w[i] at each i from 0.      *)
LEMMA RunningTotals ==
    ASSUME NEW w, NEW n \in Nat, \A i \in 1..n : w[i] \in Int, NEW f, AddsUp(f, w, n)
    PROVE  /\ \A i \in 0..n : f[i] \in Int
           /\ (\A i \in 1..n : w[i] \in Nat) => \A i \in 0..n : f[i] \in Nat
           /\ \A h : h[0] = 0 /\ (\A i \in 1..n : h[i] = h[i - 1] + w[i])
                        => \A i \in 0..n : f[i] = h[i]
<1>1. f[0] = 0 /\ \A i \in 1..n : f[i] = f[i - 1] + w[i]
  BY DEF AddsUp
<1>2. \A i \in 0..n : f[i] \in Int
  <2> DEFINE Bad == {i \in 0..n : f[i] \notin Int}
  <2> SUFFICES ASSUME Bad # {} PROVE FALSE
    OBVIOUS
  <2>1. Bad \in SUBSET Nat
    OBVIOUS
  <2>2. PICK m \in Bad : \A y \in Bad : m <= y
    BY <2>1, HasMin
  <2>3. m # 0 => m - 1 \in 0..n /\ m - 1 \notin Bad /\ m \in 1..n
    BY <2>2
  <2> QED  BY <1>1, <2>2, <2>3
<1>3. ASSUME \A i \in 1..n : w[i] \in Nat PROVE \A i \in 0..n : f[i] \in Nat
  <2> DEFINE Bad == {i \in 0..n : f[i] \notin Nat}
  <2> SUFFICES ASSUME Bad # {} PROVE FALSE
    OBVIOUS
  <2>1. Bad \in SUBSET Nat
    OBVIOUS
  <2>2. PICK m \in Bad : \A y \in Bad : m <= y
    BY <2>1, HasMin
  <2>3. m # 0 => m - 1 \in 0..n /\ m - 1 \notin Bad /\ m \in 1..n
    BY <2>2
  <2> QED  BY <1>1, <1>3, <2>2, <2>3
<1>4. ASSUME NEW h, h[0] = 0, \A i \in 1..n : h[i] = h[i - 1] + w[i]
      PROVE  \A i \in 0..n : f[i] = h[i]
  <2> DEFINE Bad == {i \in 0..n : f[i] # h[i]}
  <2> SUFFICES ASSUME Bad # {} PROVE FALSE
    OBVIOUS
  <2>1. Bad \in SUBSET Nat
    OBVIOUS
  <2>2. PICK m \in Bad : \A y \in Bad : m <= y
    BY <2>1, HasMin
  <2>3. m # 0 => m - 1 \in 0..n /\ m - 1 \notin Bad /\ m \in 1..n
    BY <2>2
  <2> QED  BY <1>1, <1>4, <2>2, <2>3
<1> QED  BY <1>2, <1>3, <1>4
=============================================================================
