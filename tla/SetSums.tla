------------------------------ MODULE SetSums ------------------------------
(***************************************************************************)
(* What SumFunctionOnSet, the sum of a function over a finite set, is.  It *)
(* is defined by a recursion over subsets; the lemmas show, by taking a    *)
(* smallest subset for which a claim fails, that the recursion has a       *)
(* solution and that the order in which elements are taken does not        *)
(* matter.                                                                 *)
(***************************************************************************)
EXTENDS Naturals, FiniteSets, Functions, FiniteSetTheorems, TLAPS

\* The element a sum over s takes first.
First(s) == CHOOSE x \in s : TRUE

\* g gives the sum of f over each subset of S.
Sums(f, S, g) ==
  g = [s \in SUBSET S |-> IF s = {} THEN 0 ELSE f[First(s)] + g[s \ {First(s)}]]

LEMMA FirstIsIn == \A s : s # {} => First(s) \in s
  BY DEF First

\* Induction over the subsets of a finite set: what holds of a subset as soon
\* as it holds of all smaller ones holds of every subset.
LEMMA SubsetInduction ==
  ASSUME NEW S, IsFiniteSet(S), NEW T, T \subseteq SUBSET S,
         \A s \in SUBSET S : (\A u \in SUBSET s : u # s => u \in T) => s \in T
  PROVE  \A s \in SUBSET S : s \in T
<1> DEFINE Bad == {s \in SUBSET S : s \notin T}
<1>1. SUFFICES ASSUME Bad # {} PROVE FALSE
  OBVIOUS
<1>2. FiniteSubsetsOf(S) = SUBSET S
  BY FS_FiniteSubsetsOfFinite
<1>3. IsWellFoundedOn(StrictSubsetOrdering(S), SUBSET S)
  BY <1>2, FS_StrictSubsetOrderingWellFounded
<1>4. \E x \in Bad : \A y \in Bad : ~(<<y, x>> \in StrictSubsetOrdering(S))
  <2> HIDE DEF Bad
  <2>1. Bad \subseteq SUBSET S
    BY DEF Bad
  <2>2. QED
    BY <1>1, <1>3, <2>1, WFMin
<1>5. PICK x \in Bad : \A y \in Bad : ~(<<y, x>> \in StrictSubsetOrdering(S))
  BY <1>4
<1>6. \A u \in SUBSET x : u # x => u \in T
  BY <1>5 DEF StrictSubsetOrdering
<1>7. QED
  BY <1>5, <1>6

\* Where two such functions meet they agree.
LEMMA SumsAgree ==
  ASSUME NEW f, NEW S, NEW U, NEW g, NEW h, Sums(f, S, g), Sums(f, U, h),
         IsFiniteSet(S), U \subseteq S
  PROVE  \A s \in SUBSET U : g[s] = h[s]
<1> DEFINE T == {s \in SUBSET U : g[s] = h[s]}
<1>1. IsFiniteSet(U)
  BY FS_Subset
<1>2. \A s \in SUBSET U : (\A u \in SUBSET s : u # s => u \in T) => s \in T
  <2>1. SUFFICES ASSUME NEW s \in SUBSET U, \A u \in SUBSET s : u # s => u \in T
                 PROVE  g[s] = h[s]
    OBVIOUS
  <2>2. CASE s = {}
    BY <2>2 DEF Sums
  <2>3. CASE s # {}
    <3>1. /\ First(s) \in s
          /\ s \ {First(s)} \in T
      BY <2>1, <2>3, FirstIsIn
    <3>2. g[s \ {First(s)}] = h[s \ {First(s)}]
      BY <3>1
    <3>3. g[s] = f[First(s)] + g[s \ {First(s)}]
      BY <2>3 DEF Sums
    <3>4. h[s] = f[First(s)] + h[s \ {First(s)}]
      BY <2>3 DEF Sums
    <3>5. QED
      BY <3>2, <3>3, <3>4
  <2>4. QED
    BY <2>2, <2>3
<1>3. \A s \in SUBSET U : s \in T
  <2>1. T \subseteq SUBSET U
    OBVIOUS
  <2> HIDE DEF T
  <2>2. QED
    BY <1>1, <1>2, <2>1, SubsetInduction
<1>4. QED
  BY <1>3

\* The recursion has a solution on every finite set.
LEMMA SumsExist ==
  ASSUME NEW f, NEW S, IsFiniteSet(S)
  PROVE  \E g : Sums(f, S, g)
<1> DEFINE T == {s \in SUBSET S : \E g : Sums(f, s, g)}
<1>1. \A s \in SUBSET S : (\A u \in SUBSET s : u # s => u \in T) => s \in T
  <2>1. SUFFICES ASSUME NEW s \in SUBSET S, \A u \in SUBSET s : u # s => u \in T
                 PROVE  \E g : Sums(f, s, g)
    OBVIOUS
  <2> DEFINE H(u) == CHOOSE g : Sums(f, u, g)
             g == [u \in SUBSET s |->
                     IF u = {} THEN 0
                     ELSE f[First(u)] + H(u \ {First(u)})[u \ {First(u)}]]
  <2>2. \A u \in SUBSET s : u # s => Sums(f, u, H(u))
    BY <2>1
  <2>3. \A u \in SUBSET s : u # s => g[u] = H(u)[u]
    <3>1. SUFFICES ASSUME NEW u \in SUBSET s, u # s PROVE g[u] = H(u)[u]
      OBVIOUS
    <3>2. Sums(f, u, H(u))
      BY <2>2, <3>1
    <3>3. CASE u = {}
      BY <3>2, <3>3 DEF Sums
    <3>4. CASE u # {}
      <4> DEFINE w == u \ {First(u)}
      <4>1. /\ First(u) \in u
            /\ w \in SUBSET s
            /\ w # s
            /\ w \subseteq u
        BY <3>1, <3>4, FirstIsIn
      <4>2. Sums(f, w, H(w))
        BY <2>2, <4>1
      <4>3. IsFiniteSet(u)
        BY FS_Subset
      <4>4. H(u)[w] = H(w)[w]
        <5>1. w \in SUBSET w
          OBVIOUS
        <5> HIDE DEF w, H
        <5>2. QED
          BY <3>2, <4>1, <4>2, <4>3, <5>1, SumsAgree
      <4>5. H(u)[u] = f[First(u)] + H(u)[w]
        <5> HIDE DEF H
        <5>1. QED
          BY <3>2, <3>4 DEF Sums
      <4>6. g[u] = f[First(u)] + H(w)[w]
        BY <3>4
      <4>7. QED
        BY <4>4, <4>5, <4>6
    <3>5. QED
      BY <3>3, <3>4
  <2>4. \A u \in SUBSET s :
          u # {} => H(u \ {First(u)})[u \ {First(u)}] = g[u \ {First(u)}]
    <3>1. SUFFICES ASSUME NEW u \in SUBSET s, u # {}
                   PROVE  H(u \ {First(u)})[u \ {First(u)}] = g[u \ {First(u)}]
      OBVIOUS
    <3>2. /\ First(u) \in u
          /\ u \ {First(u)} \in SUBSET s
          /\ u \ {First(u)} # s
      BY <3>1, FirstIsIn
    <3> HIDE DEF g, H
    <3>3. QED
      BY <2>3, <3>2
  <2>5. g = [u \in SUBSET s |->
               IF u = {} THEN 0 ELSE f[First(u)] + g[u \ {First(u)}]]
    <3> DEFINE left(u) == IF u = {} THEN 0
                          ELSE f[First(u)] + H(u \ {First(u)})[u \ {First(u)}]
               right(u) == IF u = {} THEN 0 ELSE f[First(u)] + g[u \ {First(u)}]
    <3>1. \A u \in SUBSET s : left(u) = right(u)
      <4> HIDE DEF g, H
      <4>1. QED
        BY <2>4
    <3>2. g = [u \in SUBSET s |-> left(u)]
      OBVIOUS
    <3>3. [u \in SUBSET s |-> left(u)] = [u \in SUBSET s |-> right(u)]
      <4> HIDE DEF left, right
      <4>1. QED
        BY <3>1
    <3>4. g = [u \in SUBSET s |-> right(u)]
      <4> HIDE DEF left, right, g
      <4>1. QED
        BY <3>2, <3>3
    <3> HIDE DEF g
    <3>5. QED
      BY <3>4
  <2> HIDE DEF g
  <2>6. QED
    BY <2>5 DEF Sums
<1>2. \A s \in SUBSET S : s \in T
  <2>1. T \subseteq SUBSET S
    OBVIOUS
  <2> HIDE DEF T
  <2>2. QED
    BY <1>1, <2>1, SubsetInduction
<1>3. S \in SUBSET S
  OBVIOUS
<1>4. QED
  BY <1>2, <1>3

\* The sum is what such a function gives.
LEMMA SumIs ==
  ASSUME NEW f, NEW S, IsFiniteSet(S)
  PROVE  \E g : Sums(f, S, g) /\ SumFunctionOnSet(f, S) = g[S]
<1> DEFINE h == CHOOSE g : Sums(f, S, g)
<1>1. Sums(f, S, h)
  BY SumsExist
<1>2. SumFunctionOnSet(f, S) = h[S]
  BY DEF SumFunctionOnSet, FoldFunctionOnSet, MapThenFoldSet, Sums, First
<1>3. QED
  BY <1>1, <1>2

LEMMA SumEmpty == \A f : SumFunctionOnSet(f, {}) = 0
<1>1. IsFiniteSet({})
  BY FS_EmptySet
<1>2. SUFFICES ASSUME NEW f PROVE SumFunctionOnSet(f, {}) = 0
  OBVIOUS
<1>3. PICK g : Sums(f, {}, g) /\ SumFunctionOnSet(f, {}) = g[{}]
  BY <1>1, SumIs
<1>4. {} \in SUBSET {}
  OBVIOUS
<1>5. g[{}] = 0
  BY <1>3, <1>4 DEF Sums
<1>6. QED
  BY <1>3, <1>5

\* A sum over a set is its first element's value and the sum over the rest.
LEMMA SumFirst ==
  ASSUME NEW f, NEW S, IsFiniteSet(S), S # {}
  PROVE  SumFunctionOnSet(f, S) =
           f[First(S)] + SumFunctionOnSet(f, S \ {First(S)})
<1> DEFINE R == S \ {First(S)}
<1>1. First(S) \in S /\ R \subseteq S
  BY FirstIsIn
<1>2. IsFiniteSet(R)
  BY <1>1, FS_Subset
<1>3. PICK g : Sums(f, S, g) /\ SumFunctionOnSet(f, S) = g[S]
  BY SumIs
<1>4. PICK h : Sums(f, R, h) /\ SumFunctionOnSet(f, R) = h[R]
  BY <1>2, SumIs
<1>5. g[R] = h[R]
  <2>1. R \in SUBSET R
    OBVIOUS
  <2> HIDE DEF R
  <2>2. QED
    BY <1>1, <1>3, <1>4, <2>1, SumsAgree
<1>6. g[S] = f[First(S)] + g[R]
  <2>1. S \in SUBSET S
    OBVIOUS
  <2>2. QED
    BY <1>3, <2>1 DEF Sums
<1>7. QED
  BY <1>3, <1>4, <1>5, <1>6

\* Sums of natural numbers are natural numbers.
LEMMA SumType ==
  ASSUME NEW f, NEW S, IsFiniteSet(S), \A x \in S : f[x] \in Nat
  PROVE  SumFunctionOnSet(f, S) \in Nat
<1> DEFINE T == {s \in SUBSET S : SumFunctionOnSet(f, s) \in Nat}
<1>1. \A s \in SUBSET S : (\A u \in SUBSET s : u # s => u \in T) => s \in T
  <2>1. SUFFICES ASSUME NEW s \in SUBSET S, \A u \in SUBSET s : u # s => u \in T
                 PROVE  SumFunctionOnSet(f, s) \in Nat
    OBVIOUS
  <2>2. CASE s = {}
    BY <2>2, SumEmpty
  <2>3. CASE s # {}
    <3>1. First(s) \in s
      BY <2>3, FirstIsIn
    <3>2. SumFunctionOnSet(f, s \ {First(s)}) \in Nat
      BY <2>1, <3>1
    <3>3. IsFiniteSet(s)
      BY FS_Subset
    <3>4. f[First(s)] \in Nat
      BY <3>1
    <3>5. QED
      BY <2>3, <3>2, <3>3, <3>4, SumFirst
  <2>4. QED
    BY <2>2, <2>3
<1>2. \A s \in SUBSET S : s \in T
  <2>1. T \subseteq SUBSET S
    OBVIOUS
  <2> HIDE DEF T
  <2>2. QED
    BY <1>1, <2>1, SubsetInduction
<1>3. S \in T
  BY <1>2
<1>4. QED
  BY <1>3

\* Functions with the same values have the same sum.
LEMMA SumEqual ==
  ASSUME NEW f, NEW g, NEW S, IsFiniteSet(S), \A x \in S : f[x] = g[x]
  PROVE  SumFunctionOnSet(f, S) = SumFunctionOnSet(g, S)
<1> DEFINE T == {s \in SUBSET S : SumFunctionOnSet(f, s) = SumFunctionOnSet(g, s)}
<1>1. \A s \in SUBSET S : (\A u \in SUBSET s : u # s => u \in T) => s \in T
  <2>1. SUFFICES ASSUME NEW s \in SUBSET S, \A u \in SUBSET s : u # s => u \in T
                 PROVE  SumFunctionOnSet(f, s) = SumFunctionOnSet(g, s)
    OBVIOUS
  <2>2. CASE s = {}
    BY <2>2, SumEmpty
  <2>3. CASE s # {}
    <3>1. First(s) \in s
      BY <2>3, FirstIsIn
    <3>2. SumFunctionOnSet(f, s \ {First(s)}) = SumFunctionOnSet(g, s \ {First(s)})
      BY <2>1, <3>1
    <3>3. IsFiniteSet(s)
      BY FS_Subset
    <3>4. f[First(s)] = g[First(s)]
      BY <3>1
    <3>5. SumFunctionOnSet(f, s) = f[First(s)] + SumFunctionOnSet(f, s \ {First(s)})
      BY <2>3, <3>3, SumFirst
    <3>6. SumFunctionOnSet(g, s) = g[First(s)] + SumFunctionOnSet(g, s \ {First(s)})
      BY <2>3, <3>3, SumFirst
    <3>7. QED
      BY <3>2, <3>4, <3>5, <3>6
  <2>4. QED
    BY <2>2, <2>3
<1>2. \A s \in SUBSET S : s \in T
  <2>1. T \subseteq SUBSET S
    OBVIOUS
  <2> HIDE DEF T
  <2>2. QED
    BY <1>1, <2>1, SubsetInduction
<1>3. S \in T
  BY <1>2
<1>4. QED
  BY <1>3

\* The order does not matter: any element can be taken out of a sum.
LEMMA SumWithout ==
  ASSUME NEW f, NEW S, IsFiniteSet(S), \A x \in S : f[x] \in Nat, NEW x \in S
  PROVE  SumFunctionOnSet(f, S) = f[x] + SumFunctionOnSet(f, S \ {x})
<1> DEFINE T == {s \in SUBSET S :
                   \A y \in s : SumFunctionOnSet(f, s) =
                                 f[y] + SumFunctionOnSet(f, s \ {y})}
<1>1. \A s \in SUBSET S : (\A u \in SUBSET s : u # s => u \in T) => s \in T
  <2>1. SUFFICES ASSUME NEW s \in SUBSET S, \A u \in SUBSET s : u # s => u \in T,
                        NEW y \in s
                 PROVE  SumFunctionOnSet(f, s) = f[y] + SumFunctionOnSet(f, s \ {y})
    OBVIOUS
  <2>2. IsFiniteSet(s) /\ s # {}
    BY <2>1, FS_Subset
  <2>3. First(s) \in s
    BY <2>2, FirstIsIn
  <2>4. SumFunctionOnSet(f, s) = f[First(s)] + SumFunctionOnSet(f, s \ {First(s)})
    BY <2>2, SumFirst
  <2>5. CASE First(s) = y
    BY <2>4, <2>5
  <2>6. CASE First(s) # y
    <3> DEFINE rest == s \ {First(s), y}
    <3>1. /\ s \ {First(s)} \in SUBSET s
          /\ s \ {First(s)} # s
          /\ y \in s \ {First(s)}
          /\ (s \ {First(s)}) \ {y} = rest
      BY <2>1, <2>3, <2>6
    <3>2. SumFunctionOnSet(f, s \ {First(s)}) = f[y] + SumFunctionOnSet(f, rest)
      <4>1. s \ {First(s)} \in T
        BY <2>1, <3>1
      <4>2. QED
        BY <3>1, <4>1
    <3>3. SumFunctionOnSet(f, s \ {y}) = f[First(s)] + SumFunctionOnSet(f, rest)
      <4>1. /\ s \ {y} \in SUBSET s
            /\ s \ {y} # s
            /\ First(s) \in s \ {y}
            /\ (s \ {y}) \ {First(s)} = rest
        BY <2>3, <2>6
      <4>2. s \ {y} \in T
        BY <2>1, <4>1
      <4>3. QED
        BY <4>1, <4>2
    <3>4. IsFiniteSet(rest)
      BY FS_Subset
    <3>5. SumFunctionOnSet(f, rest) \in Nat
      BY <3>4, SumType
    <3>6. f[y] \in Nat /\ f[First(s)] \in Nat
      BY <2>3
    <3>7. QED
      BY <2>4, <3>2, <3>3, <3>5, <3>6
  <2>7. QED
    BY <2>5, <2>6
<1>2. \A s \in SUBSET S : s \in T
  <2>1. T \subseteq SUBSET S
    OBVIOUS
  <2> HIDE DEF T
  <2>2. QED
    BY <1>1, <2>1, SubsetInduction
<1>3. S \in T
  BY <1>2
<1>4. QED
  BY <1>3

\* Changing a function at one element changes its sum by as much.
LEMMA SumChange ==
  ASSUME NEW f, NEW g, NEW S, IsFiniteSet(S), NEW x \in S,
         \A y \in S : f[y] \in Nat /\ g[y] \in Nat,
         \A y \in S : y # x => g[y] = f[y]
  PROVE  SumFunctionOnSet(g, S) + f[x] = SumFunctionOnSet(f, S) + g[x]
<1> DEFINE R == S \ {x}
<1>1. IsFiniteSet(R)
  BY FS_Subset
<1>2. SumFunctionOnSet(f, R) = SumFunctionOnSet(g, R)
  <2>1. \A y \in R : f[y] = g[y]
    OBVIOUS
  <2> HIDE DEF R
  <2>2. QED
    BY <1>1, <2>1, SumEqual
<1>3. SumFunctionOnSet(f, R) \in Nat
  <2>1. \A y \in R : f[y] \in Nat
    OBVIOUS
  <2> HIDE DEF R
  <2>2. QED
    BY <1>1, <2>1, SumType
<1>4. SumFunctionOnSet(f, S) = f[x] + SumFunctionOnSet(f, R)
  BY SumWithout
<1>5. SumFunctionOnSet(g, S) = g[x] + SumFunctionOnSet(g, R)
  BY SumWithout
<1>6. f[x] \in Nat /\ g[x] \in Nat
  OBVIOUS
<1> HIDE DEF R
<1>7. QED
  BY <1>2, <1>3, <1>4, <1>5, <1>6

\* No element's value exceeds the sum.
LEMMA SumBounds ==
  ASSUME NEW f, NEW S, IsFiniteSet(S), NEW x \in S, \A y \in S : f[y] \in Nat
  PROVE  f[x] <= SumFunctionOnSet(f, S)
<1>1. IsFiniteSet(S \ {x})
  BY FS_Subset
<1>2. SumFunctionOnSet(f, S \ {x}) \in Nat
  BY <1>1, SumType
<1>3. SumFunctionOnSet(f, S) = f[x] + SumFunctionOnSet(f, S \ {x})
  BY SumWithout
<1>4. f[x] \in Nat
  OBVIOUS
<1>5. QED
  BY <1>2, <1>3, <1>4

\* The sum of a constant.
LEMMA SumConstant ==
  ASSUME NEW f, NEW S, IsFiniteSet(S), NEW c \in Nat, \A x \in S : f[x] = c
  PROVE  SumFunctionOnSet(f, S) = c * Cardinality(S)
<1> DEFINE T == {s \in SUBSET S : SumFunctionOnSet(f, s) = c * Cardinality(s)}
<1>1. \A s \in SUBSET S : (\A u \in SUBSET s : u # s => u \in T) => s \in T
  <2>1. SUFFICES ASSUME NEW s \in SUBSET S, \A u \in SUBSET s : u # s => u \in T
                 PROVE  SumFunctionOnSet(f, s) = c * Cardinality(s)
    OBVIOUS
  <2>2. IsFiniteSet(s)
    BY FS_Subset
  <2>3. CASE s = {}
    <3>1. Cardinality(s) = 0
      BY <2>3, FS_EmptySet
    <3>2. SumFunctionOnSet(f, s) = 0
      BY <2>3, SumEmpty
    <3>3. c * 0 = 0
      OBVIOUS
    <3>4. QED
      BY <3>1, <3>2, <3>3
  <2>4. CASE s # {}
    <3> DEFINE R == s \ {First(s)}
    <3>1. First(s) \in s
      BY <2>4, FirstIsIn
    <3>2. SumFunctionOnSet(f, R) = c * Cardinality(R)
      BY <2>1, <3>1
    <3>3. IsFiniteSet(R)
      BY FS_Subset
    <3>4. Cardinality(R) \in Nat /\ Cardinality(s) \in Nat
      BY <2>2, <3>3, FS_CardinalityType
    <3>5. Cardinality(R) = Cardinality(s) - 1
      BY <2>2, <3>1, FS_RemoveElement
    <3>6. SumFunctionOnSet(f, s) = c + SumFunctionOnSet(f, R)
      BY <2>2, <2>4, <3>1, SumFirst
    <3>7. c * Cardinality(s) = c + c * Cardinality(R)
      <4>1. ASSUME NEW m \in Nat, NEW n \in Nat, m = n - 1
            PROVE  c * n = c + c * m
        BY <4>1
      <4> HIDE DEF R
      <4>2. QED
        BY <3>4, <3>5, <4>1
    <3>8. QED
      BY <3>2, <3>6, <3>7
  <2>5. QED
    BY <2>3, <2>4
<1>2. \A s \in SUBSET S : s \in T
  <2>1. T \subseteq SUBSET S
    OBVIOUS
  <2> HIDE DEF T
  <2>2. QED
    BY <1>1, <2>1, SubsetInduction
<1>3. S \in T
  BY <1>2
<1>4. QED
  BY <1>3

\* Elements without a value can be left out of a sum.
LEMMA SumOfPart ==
  ASSUME NEW f, NEW g, NEW S, IsFiniteSet(S), NEW P, P \subseteq S,
         \A x \in P : f[x] = g[x] /\ g[x] \in Nat,
         \A x \in S \ P : g[x] = 0
  PROVE  SumFunctionOnSet(f, P) = SumFunctionOnSet(g, S)
<1> DEFINE T == {s \in SUBSET S :
                   SumFunctionOnSet(f, s \cap P) = SumFunctionOnSet(g, s)}
<1>1. \A s \in SUBSET S : (\A u \in SUBSET s : u # s => u \in T) => s \in T
  <2>1. SUFFICES ASSUME NEW s \in SUBSET S, \A u \in SUBSET s : u # s => u \in T
                 PROVE  SumFunctionOnSet(f, s \cap P) = SumFunctionOnSet(g, s)
    OBVIOUS
  <2>2. CASE s = {}
    <3>1. s \cap P = {}
      BY <2>2
    <3>2. QED
      BY <2>2, <3>1, SumEmpty
  <2>3. CASE s # {}
    <3> DEFINE x == First(s)
               u == s \ {x}
    <3>1. x \in s /\ x \in S
      BY <2>3, FirstIsIn
    <3>2. SumFunctionOnSet(f, u \cap P) = SumFunctionOnSet(g, u)
      BY <2>1, <3>1
    <3>3. IsFiniteSet(s) /\ IsFiniteSet(u) /\ IsFiniteSet(s \cap P)
      BY FS_Subset
    <3>4. SumFunctionOnSet(g, s) = g[x] + SumFunctionOnSet(g, u)
      BY <2>3, <3>3, SumFirst
    <3>5. SumFunctionOnSet(g, u) \in Nat
      <4>1. \A y \in u : g[y] \in Nat
        OBVIOUS
      <4> HIDE DEF u
      <4>2. QED
        BY <3>3, <4>1, SumType
    <3>6. CASE x \in P
      <4>1. x \in s \cap P /\ (s \cap P) \ {x} = u \cap P
        BY <3>1, <3>6
      <4>2. \A y \in s \cap P : f[y] \in Nat
        OBVIOUS
      <4>3. SumFunctionOnSet(f, s \cap P) = f[x] + SumFunctionOnSet(f, (s \cap P) \ {x})
        <5> HIDE DEF x, u
        <5>1. QED
          BY <3>3, <4>1, <4>2, SumWithout
      <4>4. f[x] = g[x]
        BY <3>6
      <4>5. QED
        BY <3>2, <3>4, <4>1, <4>3, <4>4
    <3>7. CASE x \notin P
      <4>1. s \cap P = u \cap P /\ g[x] = 0
        BY <3>1, <3>7
      <4>2. QED
        BY <3>2, <3>4, <3>5, <4>1
    <3>8. QED
      BY <3>6, <3>7
  <2>4. QED
    BY <2>2, <2>3
<1>2. \A s \in SUBSET S : s \in T
  <2>1. T \subseteq SUBSET S
    OBVIOUS
  <2> HIDE DEF T
  <2>2. QED
    BY <1>1, <2>1, SubsetInduction
<1>3. S \in T /\ S \cap P = P
  BY <1>2
<1>4. QED
  BY <1>3

-----------------------------------------------------------------------------

\* Induction over the numbers up to n.
LEMMA UpToInduction ==
  ASSUME NEW n \in Nat, NEW N, 0 \in N,
         \A m \in 1 .. n : m - 1 \in N => m \in N
  PROVE  \A m \in 0 .. n : m \in N
<1> DEFINE T == {s \in SUBSET (1 .. n) : \A m \in 0 .. n : s = 1 .. m => m \in N}
<1>1. \A s \in SUBSET (1 .. n) : (\A u \in SUBSET s : u # s => u \in T) => s \in T
  <2>1. SUFFICES ASSUME NEW s \in SUBSET (1 .. n),
                        \A u \in SUBSET s : u # s => u \in T,
                        NEW m \in 0 .. n, s = 1 .. m
                 PROVE  m \in N
    OBVIOUS
  <2>2. CASE m = 0
    BY <2>2
  <2>3. CASE m # 0
    <3>1. m \in 1 .. n /\ m - 1 \in 0 .. n
      BY <2>3
    <3>2. 1 .. m - 1 \in SUBSET s /\ 1 .. m - 1 # s
      <4>1. m \in s /\ m \notin 1 .. m - 1
        BY <2>1, <3>1
      <4>2. \A i \in 1 .. m - 1 : i \in 1 .. m
        BY <3>1
      <4>3. QED
        BY <2>1, <4>1, <4>2
    <3>3. 1 .. m - 1 \in T
      BY <2>1, <3>2
    <3>4. m - 1 \in N
      BY <3>1, <3>3
    <3>5. QED
      BY <3>1, <3>4
  <2>4. QED
    BY <2>2, <2>3
<1>2. IsFiniteSet(1 .. n)
  BY FS_Interval
<1>3. \A s \in SUBSET (1 .. n) : s \in T
  <2>1. T \subseteq SUBSET (1 .. n)
    OBVIOUS
  <2> HIDE DEF T
  <2>2. QED
    BY <1>1, <1>2, <2>1, SubsetInduction
<1>4. SUFFICES ASSUME NEW m \in 0 .. n PROVE m \in N
  OBVIOUS
<1>5. 1 .. m \in SUBSET (1 .. n)
  OBVIOUS
<1>6. QED
  BY <1>3, <1>5
=============================================================================
