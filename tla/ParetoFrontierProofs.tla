------------------------ MODULE ParetoFrontierProofs ------------------------
(***************************************************************************)
(* Proofs about the Pareto frontier of gepa/pareto.py, for all objectives, *)
(* offers, weights and sizes: the abstract frontier is an antichain, the   *)
(* list implements it, and what is best is not given up.  The first part   *)
(* holds what the proofs need to know of sums and of sorted lists; it is   *)
(* about any sets and functions, and used for Gepa too.                    *)
(***************************************************************************)
EXTENDS ParetoFrontier, FiniteSetTheorems, FunctionTheorems, SequenceTheorems,
        WellFoundedInduction, TLAPS

\* Induction over the numbers, for a set instead of a predicate: one that does not hold
\* all numbers would lack a least one.
LEMMA AllNumbers ==
  ASSUME NEW T, 0 \in T, \A n \in Nat : n \in T => n + 1 \in T
  PROVE  Nat \subseteq T
PROOF
<1> DEFINE missing == {n \in Nat : n \notin T}
           R == OpToRel(<, Nat)
<1>1. IsWellFoundedOn(R, Nat)
  BY NatLessThanWellFounded
<1>2. \A a, b \in Nat : <<a, b>> \in R <=> a < b
  BY DEF OpToRel
<1> HIDE DEF R
<1>3. SUFFICES ASSUME missing # {} PROVE FALSE
  OBVIOUS
<1>4. PICK n \in missing : \A m \in missing : ~ (<<m, n>> \in R)
  BY <1>1, <1>3, WFMin
<1>5. n \in Nat /\ n # 0 /\ n \notin T
  OBVIOUS
<1>6. n - 1 \in Nat /\ n - 1 < n /\ n - 1 + 1 = n
  BY <1>5
<1>7. n - 1 \notin T
  BY <1>5, <1>6
<1> QED BY <1>2, <1>4, <1>5, <1>6, <1>7

\* Induction over the subsets of a finite set, in the same way.
LEMMA AllSubsets ==
  ASSUME NEW S, IsFiniteSet(S), NEW T, {} \in T,
         \A s \in SUBSET S : s # {} /\ (\A x \in s : s \ {x} \in T) => s \in T
  PROVE  SUBSET S \subseteq T
PROOF
<1> DEFINE Z == {n \in Nat : \A s \in SUBSET S : Cardinality(s) = n => s \in T}
<1>1. \A s \in SUBSET S : IsFiniteSet(s) /\ Cardinality(s) \in Nat
  BY FS_Subset, FS_CardinalityType
<1>2. 0 \in Z
  BY <1>1, FS_EmptySet
<1>3. ASSUME NEW n \in Nat, n \in Z PROVE n + 1 \in Z
  <2> SUFFICES ASSUME NEW s \in SUBSET S, Cardinality(s) = n + 1 PROVE s \in T
    OBVIOUS
  <2>1. s # {}
    <3>1. Cardinality({}) = 0 /\ n + 1 # 0
      BY FS_EmptySet
    <3> QED BY <3>1
  <2>2. ASSUME NEW x \in s PROVE s \ {x} \in T
    <3>1. Cardinality(s \ {x}) = n
      BY <1>1, FS_RemoveElement
    <3> QED BY <3>1, <1>3
  <2> QED BY <2>1, <2>2
<1> HIDE DEF Z
<1>4. Nat \subseteq Z
  BY <1>2, <1>3, AllNumbers
<1> QED BY <1>1, <1>4 DEF Z
-----------------------------------------------------------------------------
\* One step of a fold over a function f, whose values a table m combines: what g holds for
\* a set, when it holds the result for all smaller ones.
Folded(m, base, f, s, g) ==
  IF s = {} THEN base ELSE m[<<f[CHOOSE x \in s : TRUE], g[s \ {CHOOSE x \in s : TRUE}]>>]

Table(m, base, f, S, g) == \A s \in SUBSET S : g[s] = Folded(m, base, f, s, g)

\* Over the subsets of a finite set the recursion of a fold has a solution.
LEMMA FoldExists ==
  ASSUME NEW S, IsFiniteSet(S), NEW f \in [S -> Int],
         NEW m \in [Int \X Int -> Int], NEW base \in Int
  PROVE  \E g \in [SUBSET S -> Int] : Table(m, base, f, S, g)
PROOF
<1> DEFINE Good(g, n) == \A s \in SUBSET S : Cardinality(s) <= n => g[s] = Folded(m, base, f, s, g)
           Z == {n \in Nat : \E g \in [SUBSET S -> Int] : Good(g, n)}
<1>1. \A s \in SUBSET S : IsFiniteSet(s) /\ Cardinality(s) \in Nat
  BY FS_Subset, FS_CardinalityType
<1>2. 0 \in Z
  <2>1. [s \in SUBSET S |-> base] \in [SUBSET S -> Int]
    OBVIOUS
  <2>2. Good([s \in SUBSET S |-> base], 0)
    BY <1>1, FS_EmptySet DEF Folded
  <2> HIDE DEF Good
  <2>3. \E g \in [SUBSET S -> Int] : Good(g, 0)
    BY <2>1, <2>2
  <2> QED BY <2>3
<1>3. ASSUME NEW n \in Nat, n \in Z PROVE n + 1 \in Z
  <2>1. PICK g \in [SUBSET S -> Int] : Good(g, n)
    BY <1>3
  <2> DEFINE h == [s \in SUBSET S |-> IF Cardinality(s) <= n THEN g[s] ELSE Folded(m, base, f, s, g)]
  <2>2. h \in [SUBSET S -> Int]
    <3>1. ASSUME NEW s \in SUBSET S PROVE Folded(m, base, f, s, g) \in Int
      <4>1. CASE s = {}
        BY <4>1 DEF Folded
      <4>2. CASE s # {}
        <5>1. (CHOOSE x \in s : TRUE) \in S
          BY <4>2
        <5> QED BY <5>1, <4>2 DEF Folded
      <4> QED BY <4>1, <4>2
    <3> QED BY <3>1
  <2>3. Good(h, n + 1)
    <3> SUFFICES ASSUME NEW s \in SUBSET S, Cardinality(s) <= n + 1 PROVE h[s] = Folded(m, base, f, s, h)
      OBVIOUS
    <3>1. CASE s = {}
      BY <3>1, <2>1, <1>1, FS_EmptySet DEF Folded
    <3>2. CASE s # {}
      <4> DEFINE x == CHOOSE x \in s : TRUE
      <4>1. x \in s /\ s \ {x} \in SUBSET S
        BY <3>2
      <4>2. Cardinality(s \ {x}) = Cardinality(s) - 1
        BY <1>1, <4>1, FS_RemoveElement
      <4>3. h[s \ {x}] = g[s \ {x}]
        BY <1>1, <4>1, <4>2
      <4>4. Folded(m, base, f, s, h) = Folded(m, base, f, s, g)
        BY <4>3 DEF Folded
      <4> QED BY <4>4, <2>1
    <3> QED BY <3>1, <3>2
  <2> HIDE DEF Good, h
  <2>4. \E k \in [SUBSET S -> Int] : Good(k, n + 1)
    BY <2>2, <2>3
  <2> QED BY <2>4
<1> HIDE DEF Z
<1>4. Nat \subseteq Z
  BY <1>2, <1>3, AllNumbers
<1>5. Cardinality(S) \in Nat
  BY <1>1
<1>6. PICK g \in [SUBSET S -> Int] : Good(g, Cardinality(S))
  BY <1>4, <1>5 DEF Z
<1>7. Table(m, base, f, S, g)
  BY <1>6, FS_Subset DEF Table
<1> QED BY <1>7

\* What SumFunction and Product compute, step by step.
Summed(f, s, g) ==
  IF s = {} THEN 0 ELSE f[CHOOSE x \in s : TRUE] + g[s \ {CHOOSE x \in s : TRUE}]
Multiplied(f, s, g) ==
  IF s = {} THEN 1 ELSE f[CHOOSE x \in s : TRUE] * g[s \ {CHOOSE x \in s : TRUE}]

SumTable(f, S, g) ==
  SumFunction(f) = g[S] /\ \A s \in SUBSET S : g[s] = Summed(f, s, g)

LEMMA SumUnfolds ==
  ASSUME NEW S, IsFiniteSet(S), NEW f \in [S -> Int]
  PROVE  \E g \in [SUBSET S -> Int] : SumTable(f, S, g)
PROOF
<1> DEFINE plus == [p \in Int \X Int |-> p[1] + p[2]]
           iter == CHOOSE g : g = [s \in SUBSET S |-> Summed(f, s, g)]
<1>1. SumFunction(f) = iter[S]
  <2>1. DOMAIN f = S
    OBVIOUS
  <2> QED
    BY <2>1 DEF SumFunction, SumFunctionOnSet, FoldFunctionOnSet, MapThenFoldSet, Summed
<1>2. \A s \in SUBSET S : s # {} => (CHOOSE x \in s : TRUE) \in s
  OBVIOUS
<1>3. \E g : g = [s \in SUBSET S |-> Summed(f, s, g)]
  <2>1. plus \in [Int \X Int -> Int] /\ \A a, b \in Int : plus[<<a, b>>] = a + b
    OBVIOUS
  <2> HIDE DEF plus
  <2>2. PICK g \in [SUBSET S -> Int] : Table(plus, 0, f, S, g)
    <3>1. 0 \in Int
      OBVIOUS
    <3> QED BY <2>1, <3>1, FoldExists, Zenon
  <2>3. ASSUME NEW s \in SUBSET S PROVE g[s] = Summed(f, s, g)
    <3>1. CASE s = {}
      BY <2>2, <3>1 DEF Table, Folded, Summed
    <3>2. CASE s # {}
      <4>1. f[CHOOSE x \in s : TRUE] \in Int /\ g[s \ {CHOOSE x \in s : TRUE}] \in Int
        BY <1>2, <3>2
      <4> QED BY <2>1, <2>2, <3>2, <4>1 DEF Table, Folded, Summed
    <3> QED BY <3>1, <3>2
  <2>4. g = [s \in SUBSET S |-> Summed(f, s, g)]
    BY <2>3
  <2> QED BY <2>4
<1>4. iter = [s \in SUBSET S |-> Summed(f, s, iter)]
  BY <1>3
<1> HIDE DEF iter, plus
<1>5. \A s \in SUBSET S : iter[s] = Summed(f, s, iter)
  BY <1>4
<1>6. SUBSET S \subseteq {s \in SUBSET S : iter[s] \in Int}
  <2> DEFINE T == {s \in SUBSET S : iter[s] \in Int}
  <2>1. {} \in T
    BY <1>5 DEF Summed
  <2>2. ASSUME NEW s \in SUBSET S, s # {}, \A x \in s : s \ {x} \in T PROVE s \in T
    <3>1. f[CHOOSE x \in s : TRUE] \in Int /\ iter[s \ {CHOOSE x \in s : TRUE}] \in Int
      BY <1>2, <2>2
    <3>2. iter[s] = f[CHOOSE x \in s : TRUE] + iter[s \ {CHOOSE x \in s : TRUE}]
      BY <1>5, <2>2 DEF Summed
    <3> QED BY <3>1, <3>2
  <2> HIDE DEF T
  <2>3. SUBSET S \subseteq T
    BY <2>1, <2>2, AllSubsets
  <2> QED BY <2>3 DEF T
<1>7. iter \in [SUBSET S -> Int]
  <2>1. iter \in [SUBSET S -> {iter[s] : s \in SUBSET S}]
    BY <1>4
  <2> QED BY <1>6, <2>1
<1> QED BY <1>1, <1>5, <1>7 DEF SumTable

\* A product of integers is one.
LEMMA ProductIsInt ==
  ASSUME NEW S, IsFiniteSet(S), NEW f \in [S -> Int]
  PROVE  Product(f) \in Int
PROOF
<1> DEFINE times == [p \in Int \X Int |-> p[1] * p[2]]
           iter == CHOOSE g : g = [s \in SUBSET S |-> Multiplied(f, s, g)]
<1>1. Product(f) = iter[S]
  <2>1. DOMAIN f = S
    OBVIOUS
  <2> QED
    BY <2>1 DEF Product, FoldFunction, FoldFunctionOnSet, MapThenFoldSet, Multiplied
<1>2. \A s \in SUBSET S : s # {} => (CHOOSE x \in s : TRUE) \in s
  OBVIOUS
<1>3. \E g : g = [s \in SUBSET S |-> Multiplied(f, s, g)]
  <2>1. times \in [Int \X Int -> Int] /\ \A a, b \in Int : times[<<a, b>>] = a * b
    OBVIOUS
  <2> HIDE DEF times
  <2>2. PICK g \in [SUBSET S -> Int] : Table(times, 1, f, S, g)
    <3>1. 1 \in Int
      OBVIOUS
    <3> QED BY <2>1, <3>1, FoldExists, Zenon
  <2>3. ASSUME NEW s \in SUBSET S PROVE g[s] = Multiplied(f, s, g)
    <3>1. CASE s = {}
      BY <2>2, <3>1 DEF Table, Folded, Multiplied
    <3>2. CASE s # {}
      <4>1. f[CHOOSE x \in s : TRUE] \in Int /\ g[s \ {CHOOSE x \in s : TRUE}] \in Int
        BY <1>2, <3>2
      <4> QED BY <2>1, <2>2, <3>2, <4>1 DEF Table, Folded, Multiplied
    <3> QED BY <3>1, <3>2
  <2>4. g = [s \in SUBSET S |-> Multiplied(f, s, g)]
    BY <2>3
  <2> QED BY <2>4
<1>4. iter = [s \in SUBSET S |-> Multiplied(f, s, iter)]
  BY <1>3
<1> HIDE DEF iter, times
<1>5. \A s \in SUBSET S : iter[s] = Multiplied(f, s, iter)
  BY <1>4
<1> DEFINE T == {s \in SUBSET S : iter[s] \in Int}
<1>6. {} \in T
  <2>1. iter[{}] = 1
    BY <1>5 DEF Multiplied
  <2> QED BY <2>1
<1>7. ASSUME NEW s \in SUBSET S, s # {}, \A x \in s : s \ {x} \in T PROVE s \in T
  <2>1. f[CHOOSE x \in s : TRUE] \in Int /\ iter[s \ {CHOOSE x \in s : TRUE}] \in Int
    BY <1>2, <1>7
  <2>2. iter[s] = f[CHOOSE x \in s : TRUE] * iter[s \ {CHOOSE x \in s : TRUE}]
    BY <1>5, <1>7 DEF Multiplied
  <2> QED BY <2>1, <2>2
<1> HIDE DEF T
<1>8. SUBSET S \subseteq T
  BY <1>6, <1>7, AllSubsets
<1> QED BY <1>1, <1>8 DEF T

\* Sums are integers, grow with what they sum, and strictly if one summand does.
LEMMA SumGrows ==
  ASSUME NEW S, IsFiniteSet(S), NEW f \in [S -> Int], NEW h \in [S -> Int],
         \A x \in S : f[x] <= h[x]
  PROVE  /\ SumFunction(f) \in Int /\ SumFunction(h) \in Int
         /\ SumFunction(f) <= SumFunction(h)
         /\ (\E x \in S : f[x] # h[x]) => SumFunction(f) < SumFunction(h)
PROOF
<1>1. PICK g \in [SUBSET S -> Int] : SumTable(f, S, g)
  BY SumUnfolds
<1>2. PICK k \in [SUBSET S -> Int] : SumTable(h, S, k)
  BY SumUnfolds
<1> DEFINE T == {s \in SUBSET S : g[s] <= k[s] /\ ((\E x \in s : f[x] # h[x]) => g[s] < k[s])}
<1>3. {} \in T
  BY <1>1, <1>2 DEF SumTable, Summed
<1>4. ASSUME NEW s \in SUBSET S, s # {}, \A x \in s : s \ {x} \in T PROVE s \in T
  <2> DEFINE x == CHOOSE x \in s : TRUE
             r == s \ {x}
  <2>1. x \in s /\ r \in T
    BY <1>4
  <2>2. g[s] = f[x] + g[r] /\ k[s] = h[x] + k[r]
    BY <1>1, <1>2, <1>4 DEF SumTable, Summed
  <2>3. f[x] \in Int /\ h[x] \in Int /\ f[x] <= h[x] /\ g[r] \in Int /\ k[r] \in Int
    BY <2>1
  <2>4. g[s] <= k[s]
    BY <2>1, <2>2, <2>3
  <2>5. ASSUME NEW y \in s, f[y] # h[y] PROVE g[s] < k[s]
    <3>1. CASE y = x
      BY <2>1, <2>2, <2>3, <2>5, <3>1
    <3>2. CASE y # x
      <4>1. y \in r
        BY <3>2
      <4>2. g[r] < k[r]
        BY <4>1, <2>1, <2>5
      <4> QED BY <2>2, <2>3, <4>2
    <3> QED BY <3>1, <3>2
  <2> QED BY <2>4, <2>5
<1> HIDE DEF T
<1>5. SUBSET S \subseteq T
  BY <1>3, <1>4, AllSubsets
<1>6. S \in T
  BY <1>5
<1> QED BY <1>1, <1>2, <1>6 DEF T, SumTable
-----------------------------------------------------------------------------
\* R puts the elements of D in a strict total order.
Ordered(R, D) ==
  /\ \A i, j \in D : i # j => <<i, j>> \in R \/ <<j, i>> \in R
  /\ \A i \in D : <<i, i>> \notin R
  /\ \A i, j, k \in D : <<i, j>> \in R /\ <<j, k>> \in R => <<i, k>> \in R

\* The elements of D before i in the order R.
Preceding(D, R, i) == {j \in D : <<j, i>> \in R}

\* In a finite set an element has fewer others before it than all those behind it, and for
\* any number there is an element with so many before it: the numbers are different, and
\* there are as many as elements.
LEMMA Ranked ==
  ASSUME NEW D, IsFiniteSet(D), NEW R, Ordered(R, D)
  PROVE  /\ Cardinality(D) \in Nat
         /\ \A i \in D : /\ Cardinality(Preceding(D, R, i)) \in Nat
                         /\ Cardinality(Preceding(D, R, i)) < Cardinality(D)
         /\ \A i, j \in D :
              <<i, j>> \in R <=> Cardinality(Preceding(D, R, i)) < Cardinality(Preceding(D, R, j))
         /\ \A n \in 1..Cardinality(D) : \E i \in D : Cardinality(Preceding(D, R, i)) = n - 1
PROOF
<1> DEFINE before(i) == Preceding(D, R, i)
           rank == [i \in D |-> Cardinality(before(i)) + 1]
<1>1. \A i \in D : before(i) \subseteq D /\ i \notin before(i)
  BY DEF Preceding, Ordered
<1>2. \A i, j \in D : <<i, j>> \in R => before(i) \subseteq before(j) /\ i \in before(j)
  BY DEF Preceding, Ordered
<1>3. Cardinality(D) \in Nat
  BY FS_CardinalityType
<1> HIDE DEF before
<1>4. \A i \in D : IsFiniteSet(before(i)) /\ Cardinality(before(i)) \in Nat /\ Cardinality(before(i)) < Cardinality(D)
  <2> TAKE i \in D
  <2>1. before(i) \in SUBSET D /\ before(i) # D
    BY <1>1
  <2>2. IsFiniteSet(before(i)) /\ Cardinality(before(i)) <= Cardinality(D) /\ Cardinality(before(i)) # Cardinality(D)
    BY <2>1, FS_Subset
  <2>3. Cardinality(before(i)) \in Nat
    BY <2>2, FS_CardinalityType
  <2> QED BY <1>3, <2>2, <2>3
<1>5. \A i, j \in D : <<i, j>> \in R => Cardinality(before(i)) < Cardinality(before(j))
  <2> SUFFICES ASSUME NEW i \in D, NEW j \in D, <<i, j>> \in R
               PROVE  Cardinality(before(i)) < Cardinality(before(j))
    OBVIOUS
  <2>1. before(i) \in SUBSET before(j) /\ before(i) # before(j)
    BY <1>1, <1>2
  <2>2. Cardinality(before(i)) <= Cardinality(before(j)) /\ Cardinality(before(i)) # Cardinality(before(j))
    BY <1>4, <2>1, FS_Subset
  <2> QED BY <1>4, <2>2
<1>6. rank \in [D -> 1..Cardinality(D)]
  BY <1>3, <1>4
<1>7. ASSUME NEW i \in D, NEW j \in D, ~(Cardinality(before(i)) < Cardinality(before(j)))
      PROVE  i = j \/ Cardinality(before(j)) < Cardinality(before(i))
  <2>1. <<i, j>> \notin R
    BY <1>5, <1>7
  <2>2. i = j \/ <<j, i>> \in R
    BY <2>1 DEF Ordered
  <2> QED BY <1>5, <2>2
<1>8. \A i, j \in D : Cardinality(before(i)) < Cardinality(before(j)) => <<i, j>> \in R
  <2> SUFFICES ASSUME NEW i \in D, NEW j \in D, Cardinality(before(i)) < Cardinality(before(j))
               PROVE  <<i, j>> \in R
    OBVIOUS
  <2>1. <<j, i>> \notin R /\ i # j
    BY <1>4, <1>5
  <2> QED BY <2>1 DEF Ordered
<1>9. \A i, j \in D : rank[i] = rank[j] => i = j
  <2> TAKE i, j \in D
  <2>1. rank[i] = Cardinality(before(i)) + 1 /\ rank[j] = Cardinality(before(j)) + 1
    OBVIOUS
  <2> HIDE DEF rank
  <2>2. HAVE rank[i] = rank[j]
  <2>3. Cardinality(before(i)) = Cardinality(before(j))
    BY <1>4, <2>1, <2>2
  <2> QED BY <1>4, <1>7, <2>3
<1>10. rank \in Injection(D, 1..Cardinality(D))
  BY <1>6, <1>9 DEF Injection, IsInjective
<1>11. IsFiniteSet(1..Cardinality(D)) /\ Cardinality(1..Cardinality(D)) = Cardinality(D)
  BY <1>3, FS_Interval
<1>12. rank \in Surjection(D, 1..Cardinality(D))
  BY <1>10, <1>11, FS_Injection
<1>13. ASSUME NEW n \in 1..Cardinality(D) PROVE \E i \in D : Cardinality(before(i)) = n - 1
  <2>1. PICK i \in D : rank[i] = n
    BY <1>12 DEF Surjection
  <2> QED BY <1>4, <2>1
<1> QED BY <1>3, <1>4, <1>5, <1>8, <1>13 DEF before

\* l lists n of these places in this order: at least those with fewer others before them,
\* the first of all or a place before it, and none that is behind one not listed.
IsListing(l, s, places, R, n) ==
  /\ l = [k \in 1..n |-> l[k]]
  /\ \A k \in 1..n : \E i \in places : l[k] = s[i]
  /\ \A i \in places :
       Cardinality(Preceding(places, R, i)) < n => \E k \in 1..n : l[k] = s[i]
  /\ \A i \in places :
       n > 0 => \E k \in 1..n, j \in places : l[k] = s[j] /\ (j = i \/ <<j, i>> \in R)
  /\ \A i \in places, k \in 1..n :
       \/ \E m \in 1..n : l[m] = s[i]
       \/ \E j \in places : l[k] = s[j] /\ <<j, i>> \in R

LEMMA ListedFacts ==
  ASSUME NEW s, NEW places, IsFiniteSet(places), NEW R, Ordered(R, places),
         NEW n \in 0..Cardinality(places)
  PROVE  IsListing(Listed(s, places, R, n), s, places, R, n)
PROOF
<1> DEFINE place(k) == CHOOSE i \in places : Cardinality({j \in places : <<j, i>> \in R}) = k - 1
           l == Listed(s, places, R, n)
           rank(i) == Cardinality(Preceding(places, R, i))
<1>1. /\ Cardinality(places) \in Nat
      /\ \A i \in places : rank(i) \in Nat /\ rank(i) < Cardinality(places)
      /\ \A i, j \in places : <<i, j>> \in R <=> rank(i) < rank(j)
      /\ \A m \in 1..Cardinality(places) : \E i \in places : rank(i) = m - 1
  BY Ranked
<1>2. \A k \in 1..n : k \in 1..Cardinality(places)
  BY <1>1
<1>3. ASSUME NEW k \in 1..n PROVE place(k) \in places /\ rank(place(k)) = k - 1
  <2>1. \E i \in places : Cardinality({j \in places : <<j, i>> \in R}) = k - 1
    BY <1>1, <1>2 DEF Preceding
  <2> QED BY <2>1 DEF Preceding
<1>4. l = [k \in 1..n |-> s[place(k)]]
  BY DEF Listed
<1> HIDE DEF l, place, rank
<1>5. \A k \in 1..n : l[k] = s[place(k)]
  BY <1>4
<1>6. l = [k \in 1..n |-> l[k]]
  BY <1>4
<1>7. ASSUME NEW i \in places, rank(i) < n PROVE \E k \in 1..n : l[k] = s[i]
  <2>1. rank(i) + 1 \in 1..n /\ (rank(i) + 1) - 1 = rank(i)
    BY <1>1, <1>7
  <2>2. place(rank(i) + 1) \in places /\ rank(place(rank(i) + 1)) = rank(i)
    BY <1>3, <2>1
  <2>3. ASSUME NEW j \in places, rank(j) = rank(i) PROVE j = i
    <3>1. <<i, j>> \notin R /\ <<j, i>> \notin R
      BY <1>1, <2>3
    <3> QED BY <3>1 DEF Ordered
  <2>4. place(rank(i) + 1) = i
    BY <2>2, <2>3
  <2> QED BY <1>5, <2>1, <2>4
<1>8. ASSUME NEW i \in places, n > 0
      PROVE  \E k \in 1..n, j \in places : l[k] = s[j] /\ (j = i \/ <<j, i>> \in R)
  <2>1. 1 \in 1..n
    BY <1>8
  <2>2. place(1) \in places /\ rank(place(1)) = 0
    BY <1>3, <2>1
  <2>3. <<i, place(1)>> \notin R
    BY <1>1, <2>2
  <2>4. place(1) = i \/ <<place(1), i>> \in R
    BY <2>2, <2>3 DEF Ordered
  <2> QED BY <1>5, <2>1, <2>2, <2>4
<1>9. ASSUME NEW i \in places, NEW k \in 1..n, ~\E m \in 1..n : l[m] = s[i]
      PROVE  \E j \in places : l[k] = s[j] /\ <<j, i>> \in R
  <2>1. ~(rank(i) < n)
    BY <1>7, <1>9
  <2>2. place(k) \in places /\ rank(place(k)) = k - 1
    BY <1>3
  <2>3. rank(place(k)) < rank(i)
    BY <1>1, <2>1, <2>2
  <2> QED BY <1>1, <1>5, <2>2, <2>3
<1> QED BY <1>3, <1>5, <1>6, <1>7, <1>8, <1>9 DEF l, rank, IsListing

\* The order of the list is one.
LEMMA AsListedOrdered ==
  ASSUME NEW s, DOMAIN s \subseteq Int, NEW places \in SUBSET DOMAIN s
  PROVE  Ordered(AsListed(s), places)
PROOF BY DEF Ordered, AsListed

\* The ends of an order.
LEMMA EndsExist ==
  ASSUME NEW D, IsFiniteSet(D), D # {}, NEW R, Ordered(R, D)
  PROVE  /\ Least(D, R) \in D /\ \A j \in D \ {Least(D, R)} : <<Least(D, R), j>> \in R
         /\ Greatest(D, R) \in D /\ \A j \in D \ {Greatest(D, R)} : <<j, Greatest(D, R)>> \in R
PROOF
<1> DEFINE rank(i) == Cardinality(Preceding(D, R, i))
           c == Cardinality(D)
<1>1. /\ c \in Nat
      /\ \A i \in D : rank(i) \in Nat /\ rank(i) < c
      /\ \A i, j \in D : <<i, j>> \in R <=> rank(i) < rank(j)
      /\ \A n \in 1..c : \E i \in D : rank(i) = n - 1
  BY Ranked
<1>2. c # 0
  BY FS_EmptySet
<1> HIDE DEF rank, c
<1>3. 1 \in 1..c /\ c \in 1..c
  BY <1>1, <1>2
<1>4. PICK a \in D : rank(a) = 1 - 1
  BY <1>1, <1>3
<1>5. PICK z \in D : rank(z) = c - 1
  BY <1>1, <1>3
<1>6. \A j \in D \ {a} : <<a, j>> \in R
  <2> TAKE j \in D \ {a}
  <2>1. ~(rank(j) < rank(a))
    BY <1>1, <1>4
  <2>2. <<j, a>> \notin R
    BY <1>1, <2>1
  <2> QED BY <2>2 DEF Ordered
<1>7. \A j \in D \ {z} : <<j, z>> \in R
  <2> TAKE j \in D \ {z}
  <2>1. ~(rank(z) < rank(j))
    BY <1>1, <1>5
  <2> QED BY <1>1, <2>1 DEF Ordered
<1> QED BY <1>6, <1>7 DEF Least, Greatest
-----------------------------------------------------------------------------
\* What a solution has for an objective, stated or not, is a number.
LEMMA GetIsInt ==
  ASSUME NEW v \in Offers, NEW o
  PROVE  get(v, o, 0) \in Int
PROOF BY OffersAssumption DEF get

\* The order of an objective is one, on any places of a list.
LEMMA ByValueOrdered ==
  ASSUME NEW s \in Seq(Offers), NEW o, NEW places \in SUBSET DOMAIN s
  PROVE  Ordered(ByValue(s, o), places)
PROOF
<1> DEFINE val == [i \in 1..Len(s) |-> get(s[i], o, 0)]
<1>1. DOMAIN s = 1..Len(s) /\ Len(s) \in Nat
  OBVIOUS
<1>2. val \in [1..Len(s) -> Int]
  BY GetIsInt
<1>3. \A i, j \in DOMAIN s :
        <<i, j>> \in ByValue(s, o) <=> val[i] < val[j] \/ (val[i] = val[j] /\ i < j)
  BY <1>1 DEF ByValue
<1> HIDE DEF val
<1>4. \A i \in places : i \in DOMAIN s /\ i \in Int /\ val[i] \in Int
  BY <1>1, <1>2
<1> QED BY <1>3, <1>4 DEF Ordered

\* A list that is not empty: its places are finite in number.
LEMMA PlacesFinite ==
  ASSUME NEW S, NEW s \in Seq(S), NEW places \in SUBSET DOMAIN s
  PROVE  IsFiniteSet(places) /\ Cardinality(DOMAIN s) = Len(s)
PROOF
<1>1. DOMAIN s = 1..Len(s) /\ Len(s) \in Nat
  OBVIOUS
<1>2. IsFiniteSet(1..Len(s)) /\ Cardinality(1..Len(s)) = Len(s)
  <2>1. \A n \in Nat : IsFiniteSet(1..n) /\ Cardinality(1..n) = n
    BY FS_Interval
  <2> QED BY <1>1, <2>1
<1> QED BY <1>1, <1>2, FS_Subset

\* The ends of the objectives are places, and their values are the least and the greatest.
LEMMA ObjectiveEnds ==
  ASSUME NEW s \in Seq(Offers), s # <<>>, NEW o
  PROVE  LET first == Least(DOMAIN s, ByValue(s, o))
             last == Greatest(DOMAIN s, ByValue(s, o))
         IN /\ first \in DOMAIN s /\ last \in DOMAIN s
            /\ \A j \in DOMAIN s : /\ get(s[first], o, 0) <= get(s[j], o, 0)
                                   /\ get(s[j], o, 0) <= get(s[last], o, 0)
            /\ \A i \in DOMAIN s \ {first, last} :
                 /\ \E j \in DOMAIN s : <<j, i>> \in ByValue(s, o)
                 /\ \E j \in DOMAIN s : <<i, j>> \in ByValue(s, o)
PROOF
<1> DEFINE R == ByValue(s, o)
           first == Least(DOMAIN s, R)
           last == Greatest(DOMAIN s, R)
<1>1. DOMAIN s # {} /\ IsFiniteSet(DOMAIN s) /\ Ordered(R, DOMAIN s)
  <2>1. DOMAIN s \in SUBSET DOMAIN s /\ DOMAIN s # {}
    OBVIOUS
  <2> QED BY <2>1, PlacesFinite, ByValueOrdered
<1> HIDE DEF R
<1>2. /\ first \in DOMAIN s /\ \A j \in DOMAIN s \ {first} : <<first, j>> \in R
      /\ last \in DOMAIN s /\ \A j \in DOMAIN s \ {last} : <<j, last>> \in R
  BY <1>1, EndsExist
<1>3. \A j \in DOMAIN s : get(s[j], o, 0) \in Int
  BY GetIsInt
<1>4. \A i, j \in DOMAIN s : <<i, j>> \in R => get(s[i], o, 0) <= get(s[j], o, 0)
  BY <1>3 DEF ByValue, R
<1> HIDE DEF first, last
<1>5. ASSUME NEW j \in DOMAIN s
      PROVE  get(s[first], o, 0) <= get(s[j], o, 0) /\ get(s[j], o, 0) <= get(s[last], o, 0)
  <2>1. j = first \/ get(s[first], o, 0) <= get(s[j], o, 0)
    BY <1>2, <1>4
  <2>2. j = last \/ get(s[j], o, 0) <= get(s[last], o, 0)
    BY <1>2, <1>4
  <2> QED BY <1>3, <2>1, <2>2
<1>6. ASSUME NEW i \in DOMAIN s \ {first, last}
      PROVE  (\E j \in DOMAIN s : <<j, i>> \in R) /\ \E j \in DOMAIN s : <<i, j>> \in R
  BY <1>2
<1> QED BY <1>2, <1>5, <1>6 DEF R, first, last

\* What is not at an end has neighbours in each order, so its distance is a number.
LEMMA DistanceIsInt ==
  ASSUME NEW s \in Seq(Offers), s # <<>>, NEW i \in DOMAIN s \ Extremes(s)
  PROVE  distance(s, i) \in Int
PROOF
<1> DEFINE O == DOMAIN s[1]
           wide == {o \in O : obj_range(s, o) # 0}
           others(o) == Product([q \in wide \ {o} |-> obj_range(s, q)])
           share == [o \in wide |-> between(s, o, i) * others(o)]
<1>1. IsFiniteSet(O)
  <2>1. s[1] \in Offers
    OBVIOUS
  <2>2. O \in SUBSET Objectives
    BY <2>1, OffersAssumption
  <2> QED BY <2>2, ObjectivesAssumption, FS_Subset
<1>2. IsFiniteSet(wide) /\ \A o \in wide : IsFiniteSet(wide \ {o})
  <2>1. wide \in SUBSET O /\ \A o \in wide : wide \ {o} \in SUBSET O
    OBVIOUS
  <2> QED BY ONLY <1>1, <2>1, FS_Subset
<1>3. ASSUME NEW o PROVE obj_range(s, o) \in Int
  <2>1. s[Greatest(DOMAIN s, ByValue(s, o))] \in Offers /\ s[Least(DOMAIN s, ByValue(s, o))] \in Offers
    BY ObjectiveEnds
  <2> QED BY <2>1, GetIsInt DEF obj_range
<1>4. ASSUME NEW o \in wide PROVE others(o) \in Int
  <2>1. [q \in wide \ {o} |-> obj_range(s, q)] \in [wide \ {o} -> Int]
    BY <1>3
  <2>2. IsFiniteSet(wide \ {o})
    BY <1>2
  <2> HIDE DEF wide
  <2> QED BY ONLY <2>1, <2>2, ProductIsInt
<1>5. ASSUME NEW o \in wide PROVE between(s, o, i) \in Int
  <2> DEFINE R == ByValue(s, o)
             after == {j \in DOMAIN s : <<i, j>> \in R}
             before == {j \in DOMAIN s : <<j, i>> \in R}
  <2>1. i \notin {Least(DOMAIN s, R), Greatest(DOMAIN s, R)}
    BY <1>5 DEF Extremes
  <2>2. after # {} /\ before # {}
    BY <2>1, ObjectiveEnds
  <2>3. /\ IsFiniteSet(after) /\ Ordered(R, after)
        /\ IsFiniteSet(before) /\ Ordered(R, before)
    <3>1. after \in SUBSET DOMAIN s /\ before \in SUBSET DOMAIN s
      OBVIOUS
    <3> HIDE DEF after, before
    <3> QED BY <3>1, PlacesFinite, ByValueOrdered
  <2>4. between(s, o, i) = get(s[Least(after, R)], o, 0) - get(s[Greatest(before, R)], o, 0)
    BY DEF between
  <2>5. after \subseteq DOMAIN s /\ before \subseteq DOMAIN s
    OBVIOUS
  <2> HIDE DEF after, before, R
  <2>6. Least(after, R) \in after /\ Greatest(before, R) \in before
    BY ONLY <2>2, <2>3, EndsExist
  <2>7. s[Least(after, R)] \in Offers /\ s[Greatest(before, R)] \in Offers
    BY <2>5, <2>6
  <2> QED BY <2>4, <2>7, GetIsInt
<1>6. share \in [wide -> Int]
  BY <1>4, <1>5
<1>7. distance(s, i) = SumFunction(share)
  BY DEF distance
<1> HIDE DEF share, wide
<1>8. \A x \in wide : share[x] <= share[x]
  BY <1>6
<1> QED BY ONLY <1>2, <1>6, <1>7, <1>8, SumGrows

\* The order by distance is one, on the places of a list.
LEMMA FartherOrdered ==
  ASSUME NEW s \in Seq(Offers), s # <<>>
  PROVE  Ordered(Farther(s), DOMAIN s)
PROOF
<1> DEFINE far == Extremes(s)
           d(i) == distance(s, i)
<1>1. DOMAIN s = 1..Len(s) /\ Len(s) \in Nat
  OBVIOUS
<1>2. \A i \in DOMAIN s \ far : d(i) \in Int
  BY DistanceIsInt
<1> HIDE DEF far, d
<1>3. ASSUME NEW i \in DOMAIN s, NEW j \in DOMAIN s
      PROVE  <<i, j>> \in Farther(s) <=>
               \/ i \in far /\ (j \in far => i < j)
               \/ i \notin far /\ j \notin far /\ (d(i) > d(j) \/ (d(i) = d(j) /\ i < j))
  <2> DEFINE near == crowding(s)
  <2>1. <<i, j>> \in Farther(s) <=>
          \/ i \in far /\ (j \in far => i < j)
          \/ \E a, b \in near : /\ <<i, j>> = <<a[1], b[1]>>
                                /\ a[2] > b[2] \/ (a[2] = b[2] /\ a[1] < b[1])
    BY DEF Farther, far
  <2>2. near = {<<k, d(k)>> : k \in DOMAIN s \ far}
    BY DEF crowding, far, d
  <2> HIDE DEF near
  <2>3. \A k \in DOMAIN s \ far : <<k, d(k)>> \in near
    BY <2>2
  <2>4. \A a \in near : a[1] \in DOMAIN s \ far /\ a[2] = d(a[1])
    BY <2>2
  <2>5. (\E a, b \in near : /\ <<i, j>> = <<a[1], b[1]>>
                            /\ a[2] > b[2] \/ (a[2] = b[2] /\ a[1] < b[1]))
        <=> i \notin far /\ j \notin far /\ (d(i) > d(j) \/ (d(i) = d(j) /\ i < j))
    <3>1. ASSUME NEW a \in near, NEW b \in near, <<i, j>> = <<a[1], b[1]>>,
                 a[2] > b[2] \/ (a[2] = b[2] /\ a[1] < b[1])
          PROVE  i \notin far /\ j \notin far /\ (d(i) > d(j) \/ (d(i) = d(j) /\ i < j))
      BY <2>4, <3>1
    <3>2. ASSUME i \notin far, j \notin far, d(i) > d(j) \/ (d(i) = d(j) /\ i < j)
          PROVE  \E a, b \in near : /\ <<i, j>> = <<a[1], b[1]>>
                                    /\ a[2] > b[2] \/ (a[2] = b[2] /\ a[1] < b[1])
      <4> DEFINE a == <<i, d(i)>>
                 b == <<j, d(j)>>
      <4>1. a \in near /\ b \in near
        BY <2>3, <3>2
      <4>2. a[1] = i /\ a[2] = d(i) /\ b[1] = j /\ b[2] = d(j)
        OBVIOUS
      <4> HIDE DEF a, b
      <4> QED BY <3>2, <4>1, <4>2
    <3> QED BY <3>1, <3>2
  <2> QED BY <2>1, <2>5
<1>4. \A i, j \in DOMAIN s : i # j => <<i, j>> \in Farther(s) \/ <<j, i>> \in Farther(s)
  BY <1>1, <1>2, <1>3
<1>5. \A i \in DOMAIN s : <<i, i>> \notin Farther(s)
  BY <1>1, <1>2, <1>3
<1>6. ASSUME NEW i \in DOMAIN s, NEW j \in DOMAIN s, NEW k \in DOMAIN s,
             <<i, j>> \in Farther(s), <<j, k>> \in Farther(s)
      PROVE  <<i, k>> \in Farther(s)
  BY <1>1, <1>2, <1>3, <1>6
<1> QED BY <1>4, <1>5, <1>6 DEF Ordered
-----------------------------------------------------------------------------
\* What the list is left with when v is added: all that v does not dominate.
LEMMA RemainingFacts ==
  ASSUME NEW S, solutions \in Seq(S), NEW v
  PROVE  /\ Remaining(v) \in Seq(S)
         /\ Range(Remaining(v)) = {e \in Range(solutions) : ~dominates(v, e)}
PROOF
<1> DEFINE left == {i \in DOMAIN solutions : ~dominates(v, solutions[i])}
           n == Cardinality(left)
           r == Remaining(v)
<1>1. left \in SUBSET DOMAIN solutions /\ DOMAIN solutions = 1..Len(solutions)
  OBVIOUS
<1>2. \A i \in left : solutions[i] \in Range(solutions) /\ ~dominates(v, solutions[i])
  BY DEF Range
<1>3. \A e \in Range(solutions) : ~dominates(v, e) => \E i \in left : e = solutions[i]
  BY DEF Range
<1>4. r = Listed(solutions, left, AsListed(solutions), n)
  BY DEF Remaining
<1> HIDE DEF left, r
<1>5. IsFiniteSet(left) /\ Ordered(AsListed(solutions), left)
  BY <1>1, PlacesFinite, AsListedOrdered
<1>6. n \in Nat
  BY <1>5, FS_CardinalityType
<1> HIDE DEF n
<1>7. n \in 0..n /\ \A i \in left : Cardinality(Preceding(left, AsListed(solutions), i)) < n
  BY <1>5, <1>6, Ranked DEF n
<1>8. /\ r = [k \in 1..n |-> r[k]]
      /\ \A k \in 1..n : \E i \in left : r[k] = solutions[i]
      /\ \A i \in left : \E k \in 1..n : r[k] = solutions[i]
  <2>1. n \in 0..Cardinality(left)
    BY <1>7 DEF n
  <2>2. IsListing(r, solutions, left, AsListed(solutions), n)
    BY ONLY <1>4, <1>5, <2>1, ListedFacts
  <2> QED BY <1>7, <2>2 DEF IsListing
<1>9. \A k \in 1..n : r[k] \in S
  <2>1. \A i \in left : solutions[i] \in S
    BY <1>1
  <2> QED BY <1>8, <2>1
<1>10. r \in Seq(S)
  BY <1>6, <1>8, <1>9
<1>11. Range(r) = {r[k] : k \in 1..n}
  <2>1. DOMAIN r = 1..n
    BY <1>8
  <2> QED BY <2>1 DEF Range
<1> QED BY <1>2, <1>3, <1>8, <1>10, <1>11 DEF r

\* Only so many places are at an end, and they come before all others.
LEMMA ExtremesFew ==
  ASSUME NEW s \in Seq(Offers), s # <<>>
  PROVE  /\ Extremes(s) \subseteq DOMAIN s /\ IsFiniteSet(Extremes(s))
         /\ Cardinality(Extremes(s)) <= 2 * Cardinality(Objectives)
PROOF
<1> DEFINE O == DOMAIN s[1]
           least == [o \in O |-> Least(DOMAIN s, ByValue(s, o))]
           greatest == [o \in O |-> Greatest(DOMAIN s, ByValue(s, o))]
<1>1. Extremes(s) \subseteq DOMAIN s
  BY ObjectiveEnds DEF Extremes
<1>2. IsFiniteSet(Objectives) /\ O \in SUBSET Objectives
  <2>1. s[1] \in Offers
    OBVIOUS
  <2> QED BY <2>1, OffersAssumption, ObjectivesAssumption
<1>3. /\ IsFiniteSet(O) /\ Cardinality(O) \in Nat
      /\ Cardinality(Objectives) \in Nat /\ Cardinality(O) <= Cardinality(Objectives)
  BY <1>2, FS_Subset, FS_CardinalityType
<1>4. Extremes(s) = Range(least) \cup Range(greatest)
  <2>1. Range(least) = {Least(DOMAIN s, ByValue(s, o)) : o \in O}
    BY DEF Range
  <2>2. Range(greatest) = {Greatest(DOMAIN s, ByValue(s, o)) : o \in O}
    BY DEF Range
  <2> HIDE DEF least, greatest
  <2> QED BY <2>1, <2>2 DEF Extremes
<1>5. least \in Surjection(O, Range(least)) /\ greatest \in Surjection(O, Range(greatest))
  BY DEF Surjection, Range
<1> HIDE DEF least, greatest, O
<1>6. /\ IsFiniteSet(Range(least)) /\ Cardinality(Range(least)) <= Cardinality(O)
      /\ IsFiniteSet(Range(greatest)) /\ Cardinality(Range(greatest)) <= Cardinality(O)
  BY <1>3, <1>5, FS_Surjection
<1>7. /\ Cardinality(Range(least)) \in Nat /\ Cardinality(Range(greatest)) \in Nat
      /\ IsFiniteSet(Range(least) \cap Range(greatest))
  BY <1>6, FS_CardinalityType, FS_Intersection
<1>8. Cardinality(Range(least) \cap Range(greatest)) \in Nat
  BY <1>7, FS_CardinalityType
<1>9. /\ IsFiniteSet(Extremes(s))
      /\ Cardinality(Extremes(s)) = Cardinality(Range(least)) + Cardinality(Range(greatest))
                                      - Cardinality(Range(least) \cap Range(greatest))
  BY <1>4, <1>6, FS_Union
<1> QED BY <1>1, <1>3, <1>6, <1>7, <1>8, <1>9

\* The pruned list has its size, holds nothing new, and all ends if there is place for them.
LEMMA PrunedFacts ==
  ASSUME NEW S \in SUBSET Offers, NEW s \in Seq(S), max_size \in Nat, Len(s) > max_size
  PROVE  /\ Pruned(s) \in Seq(S) /\ Len(Pruned(s)) = max_size
         /\ Range(Pruned(s)) \subseteq Range(s)
         /\ max_size >= 2 * Cardinality(Objectives) =>
              \A i \in Extremes(s) : s[i] \in Range(Pruned(s))
PROOF
<1> DEFINE D == DOMAIN s
           far == Extremes(s)
           R == Farther(s)
           p == Pruned(s)
<1>1. s \in Seq(Offers) /\ s # <<>> /\ Len(s) \in Nat
  OBVIOUS
<1>2. D = 1..Len(s) /\ IsFiniteSet(D) /\ Cardinality(D) = Len(s)
  <2>1. D \in SUBSET DOMAIN s /\ D = 1..Len(s)
    OBVIOUS
  <2> QED BY <2>1, PlacesFinite
<1>3. Ordered(R, D)
  BY <1>1, FartherOrdered
<1>4. max_size \in 0..Cardinality(D)
  BY <1>1, <1>2
<1>5. p = Listed(s, D, R, max_size)
  BY DEF Pruned
<1>6. /\ far \subseteq D /\ IsFiniteSet(far) /\ Cardinality(far) \in Nat
      /\ Cardinality(far) <= 2 * Cardinality(Objectives)
  BY <1>1, ExtremesFew, FS_CardinalityType
<1>7. \A i \in far : Preceding(D, R, i) \subseteq far
  BY DEF Preceding, Farther, crowding
<1>8. \A k \in D : s[k] \in S /\ s[k] \in Range(s)
  BY DEF Range
<1> HIDE DEF D, far, R, p
<1>9. IsListing(p, s, D, R, max_size)
  BY ONLY <1>2, <1>3, <1>4, <1>5, ListedFacts
<1>10. /\ p \in Seq(S) /\ Len(p) = max_size
       /\ Range(p) = {p[k] : k \in 1..max_size}
  <2>1. DOMAIN p = 1..max_size
    BY <1>9 DEF IsListing
  <2>2. p \in Seq(S) /\ Len(p) = max_size
    BY <1>8, <1>9 DEF IsListing
  <2> QED BY <2>1, <2>2 DEF Range
<1>11. ASSUME max_size >= 2 * Cardinality(Objectives), NEW i \in far
       PROVE  s[i] \in Range(p)
  <2>1. i \in D /\ i \notin Preceding(D, R, i)
    BY <1>3, <1>6 DEF Preceding, Ordered
  <2>2. Preceding(D, R, i) \in SUBSET far /\ Preceding(D, R, i) # far
    BY <1>7, <2>1, <1>11
  <2>3. IsFiniteSet(Preceding(D, R, i))
    BY <1>6, <2>2, FS_Subset
  <2>4. /\ Cardinality(Preceding(D, R, i)) \in Nat
        /\ Cardinality(Preceding(D, R, i)) <= Cardinality(far)
        /\ Cardinality(Preceding(D, R, i)) # Cardinality(far)
    BY <1>6, <2>2, <2>3, FS_Subset, FS_CardinalityType
  <2>5. Cardinality(Objectives) \in Nat
    BY ObjectivesAssumption, FS_CardinalityType
  <2>6. Cardinality(Preceding(D, R, i)) < max_size
    BY <1>6, <1>11, <2>4, <2>5
  <2> QED BY <1>9, <1>10, <2>1, <2>6 DEF IsListing
<1>12. Range(p) \subseteq Range(s)
  <2>1. \A k \in 1..max_size : \E i \in D : p[k] = s[i]
    BY <1>9 DEF IsListing
  <2>2. \A k \in 1..max_size : p[k] \in Range(s)
    BY <1>8, <2>1
  <2> QED BY <1>10, <2>2
<1> QED BY <1>10, <1>11, <1>12 DEF p, far

\* The list that is kept.
LEMMA FitFacts ==
  ASSUME NEW S \in SUBSET Offers, NEW s \in Seq(S), max_size \in Nat
  PROVE  /\ Fit(s) \in Seq(S) /\ Len(Fit(s)) <= max_size
         /\ Range(Fit(s)) \subseteq Range(s)
         /\ Len(s) <= max_size => Fit(s) = s
PROOF
<1>1. Len(s) \in Nat
  OBVIOUS
<1>2. CASE Len(s) > max_size
  BY <1>1, <1>2, PrunedFacts DEF Fit
<1>3. CASE ~(Len(s) > max_size)
  BY <1>1, <1>3 DEF Fit
<1> QED BY <1>2, <1>3
-----------------------------------------------------------------------------
(***************************************************************************)
(* The abstract frontier, ParetoSet.  Dominance is irreflexive, so a       *)
(* solution never removes itself, and transitive between solutions that    *)
(* state the same objectives, so what a removed solution dominated is      *)
(* dominated by the one that removed it.                                   *)
(***************************************************************************)

\* All that was offered is in the set, or dominated by a solution in it.
Covered ==
  Frontier!Complete /\ ~pruned =>
    \A v \in offered :
      v \in Range(solutions) \/ \E e \in Range(solutions) : Frontier!Dominates(e, v, minimize)

SetInv == Frontier!TypeOK /\ Frontier!Antichain /\ Covered

\* The abstract frontier counts as the lemmas do.
LEMMA SameCardinality == \A s : Frontier!Cardinality(s) = Cardinality(s)
PROOF BY DEF Frontier!Cardinality, Cardinality

LEMMA Irreflexive ==
  ASSUME NEW a, NEW least PROVE ~Frontier!Dominates(a, a, least)
PROOF BY DEF Frontier!Dominates

\* Solutions that state all objectives.
Stated(v) == v \in Offers /\ DOMAIN v = Objectives

LEMMA Transitive ==
  ASSUME NEW a, NEW b, NEW c, Stated(a), Stated(b), Stated(c), NEW least,
         Frontier!Dominates(a, b, least), Frontier!Dominates(b, c, least)
  PROVE  Frontier!Dominates(a, c, least)
PROOF
<1>1. \A o \in Objectives : a[o] \in Int /\ b[o] \in Int /\ c[o] \in Int
  BY OffersAssumption DEF Stated
<1>2. \A o \in Objectives :
        /\ IF o \in least THEN a[o] <= b[o] ELSE a[o] >= b[o]
        /\ IF o \in least THEN b[o] <= c[o] ELSE b[o] >= c[o]
  BY DEF Frontier!Dominates, Stated
<1>3. PICK p \in Objectives : a[p] # b[p]
  BY DEF Frontier!Dominates, Stated
<1>4. ASSUME NEW o \in Objectives
      PROVE  IF o \in least THEN a[o] <= c[o] ELSE a[o] >= c[o]
  <2>1. CASE o \in least
    BY <1>1, <1>2, <2>1
  <2>2. CASE o \notin least
    BY <1>1, <1>2, <2>2
  <2> QED BY <2>1, <2>2
<1>5. a[p] # c[p]
  BY <1>1, <1>2, <1>3
<1> QED BY <1>4, <1>5 DEF Frontier!Dominates, Stated

\* What was offered, when all of it states all objectives.
LEMMA CompleteStated ==
  ASSUME Frontier!TypeOK, Frontier!Complete, NEW v \in offered PROVE Stated(v)
PROOF BY DEF Frontier!TypeOK, Frontier!Complete, Stated

\* The empty frontier.
LEMMA InitSet == Frontier!Init => SetInv
PROOF BY DEF Frontier!Init, SetInv, Frontier!TypeOK, Frontier!Antichain, Covered

\* Each addition to the set, whichever solutions it gives up.
LEMMA SetStep ==
  ASSUME SetInv, NEW v \in Offers, Frontier!add(v)
  PROVE  SetInv'
PROOF
<1> DEFINE best == {e \in Range(solutions) : ~Frontier!Dominates(v, e, minimize)} \cup {v}
<1>1. offered' = offered \cup {v} /\ UNCHANGED <<max_size, minimize>>
  BY DEF Frontier!add
<1>2. Frontier!TypeOK /\ Frontier!Antichain /\ Covered
  BY DEF SetInv
<1>3. CASE /\ \E e \in Range(solutions) : Frontier!Dominates(e, v, minimize)
           /\ UNCHANGED <<Range(solutions), pruned>>
  <2>1. Frontier!TypeOK' /\ Frontier!Antichain'
    BY <1>1, <1>2, <1>3 DEF Frontier!TypeOK, Frontier!Antichain
  <2>2. Covered'
    BY <1>1, <1>2, <1>3 DEF Covered, Frontier!Complete
  <2> QED BY <2>1, <2>2 DEF SetInv
<1>4. CASE /\ \A e \in Range(solutions) : ~Frontier!Dominates(e, v, minimize)
           /\ Range(solutions)' \in SUBSET best
           /\ pruned' \in BOOLEAN /\ (pruned \/ Range(solutions)' # best => pruned')
  <2>1. Frontier!TypeOK'
    BY <1>1, <1>2, <1>4 DEF Frontier!TypeOK
  <2>2. \A a, b \in best : ~Frontier!Dominates(a, b, minimize)
    BY <1>2, <1>4, Irreflexive DEF Frontier!Antichain
  <2>3. Frontier!Antichain'
    BY <1>1, <1>4, <2>2 DEF Frontier!Antichain
  <2>4. Covered'
    <3> SUFFICES ASSUME Frontier!Complete', ~pruned', NEW w \in offered'
                 PROVE  \/ w \in Range(solutions)'
                        \/ \E e \in Range(solutions)' : Frontier!Dominates(e, w, minimize)
      BY <1>1 DEF Covered
    <3>1. Range(solutions)' = best /\ ~pruned
      BY <1>2, <1>4 DEF Frontier!TypeOK
    <3>2. Frontier!Complete /\ Stated(v)
      BY <1>1 DEF Frontier!Complete, Stated
    <3>3. CASE w = v
      BY <3>1, <3>3
    <3>4. CASE w \in Range(solutions)
      BY <3>1, <3>4
    <3>5. CASE \E e \in Range(solutions) : Frontier!Dominates(e, w, minimize)
      <4>1. PICK e \in Range(solutions) : Frontier!Dominates(e, w, minimize)
        BY <3>5
      <4>2. CASE Frontier!Dominates(v, e, minimize)
        <5>1. e \in offered /\ w \in offered \cup {v}
          BY <1>1, <1>2 DEF Frontier!TypeOK
        <5>2. Stated(e) /\ Stated(w)
          BY <5>1, <3>2, <1>2, CompleteStated
        <5>3. Frontier!Dominates(v, w, minimize)
          BY <4>1, <4>2, <3>2, <5>2, Transitive
        <5> QED BY <5>3, <3>1
      <4>3. CASE ~Frontier!Dominates(v, e, minimize)
        BY <4>1, <4>3, <3>1
      <4> QED BY <4>2, <4>3
    <3> QED BY <1>1, <1>2, <3>1, <3>2, <3>3, <3>4, <3>5 DEF Covered
  <2> QED BY <2>1, <2>3, <2>4 DEF SetInv
<1> QED BY <1>3, <1>4 DEF Frontier!add

\* The invariant of the abstract frontier is inductive.
THEOREM SetInductive == Frontier!Spec => []SetInv
PROOF
<1>1. SetInv /\ [Frontier!Next]_Frontier!vars => SetInv'
  <2>1. ASSUME SetInv, NEW v \in Offers, Frontier!add(v) PROVE SetInv'
    BY <2>1, SetStep
  <2>2. ASSUME SetInv, UNCHANGED Frontier!vars PROVE SetInv'
    BY <2>2 DEF SetInv, Frontier!TypeOK, Frontier!Antichain, Covered, Frontier!Complete,
                Frontier!vars
  <2> QED BY <2>1, <2>2 DEF Frontier!Next
<1> QED BY InitSet, <1>1, PTL DEF Frontier!Spec

\* No solution of the frontier dominates another, whatever objectives they state.
THEOREM NoneDominated == Frontier!Spec => []Frontier!Antichain
PROOF BY SetInductive, PTL DEF SetInv

\* While nothing was given up the frontier is what no other offer dominates.
THEOREM FrontierIsMaximal == Frontier!Spec => []Frontier!Maximal
PROOF
<1>1. SetInv => Frontier!Maximal
  <2> SUFFICES ASSUME Frontier!TypeOK, Frontier!Antichain, Covered, Frontier!Complete, ~pruned
               PROVE  Range(solutions) =
                        {v \in offered : \A w \in offered : ~Frontier!Dominates(w, v, minimize)}
    BY DEF SetInv, Frontier!Maximal
  <2>1. ASSUME NEW v \in Range(solutions), NEW w \in offered, Frontier!Dominates(w, v, minimize)
        PROVE  FALSE
    <3>1. CASE w \in Range(solutions)
      BY <2>1, <3>1 DEF Frontier!Antichain
    <3>2. CASE \E e \in Range(solutions) : Frontier!Dominates(e, w, minimize)
      <4>1. PICK e \in Range(solutions) : Frontier!Dominates(e, w, minimize)
        BY <3>2
      <4>2. Stated(e) /\ Stated(w) /\ Stated(v)
        BY <2>1, <4>1, CompleteStated DEF Frontier!TypeOK
      <4>3. Frontier!Dominates(e, v, minimize)
        BY <2>1, <4>1, <4>2, Transitive
      <4> QED BY <4>3 DEF Frontier!Antichain
    <3> QED BY <3>1, <3>2, <2>1 DEF Covered
  <2>2. ASSUME NEW v \in offered, \A w \in offered : ~Frontier!Dominates(w, v, minimize)
        PROVE  v \in Range(solutions)
    BY <2>2 DEF Covered, Frontier!TypeOK
  <2> QED BY <2>1, <2>2 DEF Frontier!TypeOK
<1> QED BY SetInductive, <1>1, PTL
-----------------------------------------------------------------------------
(***************************************************************************)
(* The list, ParetoFrontier.                                               *)
(***************************************************************************)

ShapeInv ==
  /\ max_size \in MaxSizes
  /\ minimize \subseteq Objectives
  /\ offered \subseteq Offers
  /\ solutions \in Seq(offered) /\ Len(solutions) <= max_size
  /\ pruned \in BOOLEAN

\* One solution is no worse than another for an objective that both state.
NoWorse(a, b, o) == IF o \in minimize THEN a[o] <= b[o] ELSE a[o] >= b[o]

\* With place for all ends, each offer is matched in each objective.
BestInv ==
  Complete /\ max_size >= 2 * Cardinality(Objectives) =>
    \A o \in Objectives, v \in offered : \E e \in Range(solutions) : NoWorse(e, v, o)

\* The elements of a list, and of one with an element more.
LEMMA RangeOfList ==
  ASSUME NEW S, NEW s \in Seq(S)
  PROVE  /\ Range(s) = {s[i] : i \in 1..Len(s)} /\ Range(s) \subseteq S
         /\ \A v \in S : Range(Append(s, v)) = Range(s) \cup {v}
PROOF
<1>1. DOMAIN s = 1..Len(s) /\ Len(s) \in Nat
  OBVIOUS
<1>2. Range(s) = {s[i] : i \in 1..Len(s)} /\ Range(s) \subseteq S
  BY <1>1 DEF Range
<1>3. ASSUME NEW v \in S PROVE Range(Append(s, v)) = Range(s) \cup {v}
  <2> DEFINE t == Append(s, v)
  <2>1. /\ DOMAIN t = 1..(Len(s) + 1) /\ t[Len(s) + 1] = v
        /\ \A i \in 1..Len(s) : t[i] = s[i]
    OBVIOUS
  <2> HIDE DEF t
  <2>2. Range(t) = {t[i] : i \in 1..(Len(s) + 1)}
    BY <2>1 DEF Range
  <2>3. \A i \in 1..(Len(s) + 1) : i \in 1..Len(s) \/ i = Len(s) + 1
    BY <1>1
  <2>4. 1..Len(s) \subseteq 1..(Len(s) + 1) /\ Len(s) + 1 \in 1..(Len(s) + 1)
    BY <1>1
  <2>5. ASSUME NEW x \in Range(t) PROVE x \in Range(s) \cup {v}
    BY <1>2, <2>1, <2>2, <2>3
  <2>6. ASSUME NEW x \in Range(s) \cup {v} PROVE x \in Range(t)
    BY <1>2, <2>1, <2>2, <2>4
  <2> QED BY <2>5, <2>6 DEF t
<1> QED BY <1>2, <1>3

\* A solution that is not turned down: the list before it is cut.
LEMMA Extended ==
  ASSUME ShapeInv, NEW v \in Offers
  PROVE  LET s == Append(Remaining(v), v)
         IN /\ s \in Seq(offered \cup {v}) /\ s # <<>> /\ Len(s) = Len(Remaining(v)) + 1
            /\ Range(s) = {e \in Range(solutions) : ~dominates(v, e)} \cup {v}
PROOF
<1> DEFINE r == Remaining(v)
           S == offered \cup {v}
<1>1. solutions \in Seq(S)
  BY DEF ShapeInv
<1>2. r \in Seq(S) /\ Range(r) = {e \in Range(solutions) : ~dominates(v, e)}
  BY <1>1, RemainingFacts
<1> HIDE DEF r
<1>3. Range(Append(r, v)) = Range(r) \cup {v}
  BY <1>2, RangeOfList
<1>4. Append(r, v) \in Seq(S) /\ Append(r, v) # <<>> /\ Len(Append(r, v)) = Len(r) + 1
  <2>1. v \in S
    OBVIOUS
  <2> HIDE DEF S
  <2>2. Append(r, v) \in Seq(S) /\ Len(Append(r, v)) = Len(r) + 1 /\ Len(r) \in Nat
    BY <1>2, <2>1
  <2>3. Len(<<>>) = 0
    OBVIOUS
  <2> QED BY <2>2, <2>3
<1> QED BY <1>2, <1>3, <1>4 DEF r

\* Each addition leaves a list of what was offered, within its size.
LEMMA ShapeStep ==
  ASSUME ShapeInv, NEW v \in Offers, add(v)
  PROVE  ShapeInv'
PROOF
<1>1. offered' = offered \cup {v} /\ UNCHANGED <<max_size, minimize>>
  BY DEF add
<1>2. max_size \in Nat
  BY SizesAssumption DEF ShapeInv
<1>3. CASE UNCHANGED <<solutions, pruned>>
  BY <1>1, <1>3 DEF ShapeInv
<1>4. CASE /\ solutions' = Fit(Append(Remaining(v), v))
           /\ pruned' = (pruned \/ Len(Remaining(v)) >= max_size)
  <2>1. Append(Remaining(v), v) \in Seq(offered')
    BY <1>1, Extended
  <2>2. offered' \in SUBSET Offers
    BY <1>1 DEF ShapeInv
  <2>3. solutions' \in Seq(offered') /\ Len(solutions') <= max_size
    BY <1>2, <1>4, <2>1, <2>2, FitFacts
  <2> QED BY <1>1, <1>4, <2>2, <2>3 DEF ShapeInv
<1> QED BY <1>3, <1>4 DEF add

\* Each addition to the list is one to the set.
LEMMA SetAdd ==
  ASSUME ShapeInv, NEW v \in Offers, add(v)
  PROVE  Frontier!add(v)
PROOF
<1> DEFINE best == {e \in Range(solutions) : ~Frontier!Dominates(v, e, minimize)} \cup {v}
           s == Append(Remaining(v), v)
<1>1. offered' = offered \cup {v} /\ UNCHANGED <<max_size, minimize>>
  BY DEF add
<1>2. max_size \in Nat
  BY SizesAssumption DEF ShapeInv
<1>3. \A a, b : dominates(a, b) <=> Frontier!Dominates(a, b, minimize)
  BY DEF dominates, Dominates, Frontier!Dominates
<1>4. Range(solutions) = {solutions[i] : i \in 1..Len(solutions)}
  BY RangeOfList DEF ShapeInv
<1>5. CASE (\E i \in 1..Len(solutions) : dominates(solutions[i], v)) /\ UNCHANGED <<solutions, pruned>>
  <2>1. \E e \in Range(solutions) : Frontier!Dominates(e, v, minimize)
    BY <1>3, <1>4, <1>5
  <2> QED BY <1>1, <1>5, <2>1 DEF Frontier!add
<1>6. CASE /\ ~\E i \in 1..Len(solutions) : dominates(solutions[i], v)
           /\ solutions' = Fit(s)
           /\ pruned' = (pruned \/ Len(Remaining(v)) >= max_size)
  <2>1. \A e \in Range(solutions) : ~Frontier!Dominates(e, v, minimize)
    BY <1>3, <1>4, <1>6
  <2>2. s \in Seq(offered') /\ Len(s) = Len(Remaining(v)) + 1 /\ Range(s) = best
    BY <1>1, <1>3, Extended
  <2>3. offered' \in SUBSET Offers
    BY <1>1 DEF ShapeInv
  <2>4. Len(Remaining(v)) \in Nat
    BY RemainingFacts DEF ShapeInv
  <2> HIDE DEF s, best
  <2>5. /\ solutions' \in Seq(offered') /\ Len(solutions') <= max_size
        /\ Range(solutions)' \subseteq best
        /\ Len(s) <= max_size => solutions' = s
    BY <1>2, <1>6, <2>2, <2>3, FitFacts
  <2>6. pruned' \in BOOLEAN /\ (pruned \/ Range(solutions)' # best => pruned')
    <3>1. CASE Len(s) <= max_size
      BY <1>6, <2>2, <2>5, <3>1 DEF ShapeInv
    <3>2. CASE ~(Len(s) <= max_size)
      <4>1. Len(Remaining(v)) >= max_size
        BY <1>2, <2>2, <2>4, <3>2
      <4> QED BY <1>6, <4>1
    <3> QED BY <3>1, <3>2
  <2>7. Cardinality(Range(solutions)') <= max_size
    <3> DEFINE t == solutions'
               n == Len(solutions')
    <3>1. n \in Nat /\ t \in [1..n -> offered'] /\ Range(t) = {t[i] : i \in 1..n}
      BY <2>5, RangeOfList
    <3> HIDE DEF t, n
    <3>2. t \in Surjection(1..n, Range(t))
      BY <3>1 DEF Surjection
    <3>3. Cardinality(Range(t)) <= n
      BY <3>1, <3>2, FS_SurjCardinalityBound DEF ExistsSurjection
    <3>4. IsFiniteSet(1..n)
      BY <3>1, FS_Interval
    <3>5. Cardinality(Range(t)) \in Nat
      BY <3>2, <3>4, FS_Surjection, FS_CardinalityType
    <3>6. n <= max_size
      BY <2>5 DEF n
    <3>7. Cardinality(Range(t)) <= max_size
      BY <1>2, <3>1, <3>3, <3>5, <3>6
    <3> QED BY <3>7 DEF t
  <2>8. Frontier!Cardinality(Range(solutions)') <= max_size
    BY <2>7, SameCardinality
  <2> QED BY <1>1, <2>1, <2>5, <2>6, <2>8 DEF Frontier!add, best
<1> QED BY <1>5, <1>6 DEF add

\* Cutting the list does not give up what is best: it is at an end.
LEMMA BestStep ==
  ASSUME ShapeInv, BestInv, NEW v \in Offers, add(v)
  PROVE  BestInv'
PROOF
<1> DEFINE s == Append(Remaining(v), v)
<1>1. offered' = offered \cup {v} /\ UNCHANGED <<max_size, minimize>>
  BY DEF add
<1> SUFFICES ASSUME Complete', max_size >= 2 * Cardinality(Objectives),
                    NEW o \in Objectives, NEW w \in offered'
             PROVE  \E e \in Range(solutions)' : NoWorse(e, w, o)
  BY <1>1 DEF BestInv, NoWorse
<1>2. max_size \in Nat /\ offered' \in SUBSET Offers /\ Range(solutions) \subseteq offered
  BY <1>1, SizesAssumption, RangeOfList DEF ShapeInv
<1>3. \A a \in offered' : Stated(a) /\ a[o] \in Int
  <2>1. \A a \in offered' : DOMAIN a = Objectives /\ a \in Offers
    BY <1>2 DEF Complete, Frontier!Complete
  <2> QED BY <2>1, OffersAssumption DEF Stated
<1>4. \A a, b, c \in offered' : NoWorse(a, b, o) /\ NoWorse(b, c, o) => NoWorse(a, c, o)
  <2> TAKE a, b, c \in offered'
  <2>1. a[o] \in Int /\ b[o] \in Int /\ c[o] \in Int
    BY <1>3
  <2> QED BY <2>1 DEF NoWorse
<1>5. \A a, b \in offered' : dominates(a, b) => NoWorse(a, b, o)
  BY <1>3 DEF dominates, Dominates, NoWorse, Stated
<1>6. \A a \in offered' : NoWorse(a, a, o)
  BY <1>3 DEF NoWorse
<1>7. w = v \/ \E e \in Range(solutions) : NoWorse(e, w, o)
  <2>1. Complete
    BY <1>1 DEF Complete, Frontier!Complete
  <2> QED BY <1>1, <2>1 DEF BestInv
<1>8. CASE /\ \E i \in 1..Len(solutions) : dominates(solutions[i], v)
           /\ UNCHANGED <<solutions, pruned>>
  <2>1. PICK i \in 1..Len(solutions) : dominates(solutions[i], v)
    BY <1>8
  <2>2. solutions[i] \in Range(solutions)
    BY RangeOfList DEF ShapeInv
  <2>3. NoWorse(solutions[i], v, o)
    BY <1>1, <1>2, <1>5, <2>1, <2>2
  <2> QED BY <1>7, <1>8, <2>2, <2>3
<1>9. CASE solutions' = Fit(s)
  <2>1. /\ s \in Seq(offered') /\ s # <<>>
        /\ Range(s) = {e \in Range(solutions) : ~dominates(v, e)} \cup {v}
    BY <1>1, Extended
  <2> HIDE DEF s
  <2>2. PICK e \in Range(s) : NoWorse(e, w, o)
    <3>1. CASE w = v
      BY <1>1, <1>6, <2>1, <3>1
    <3>2. CASE \E e \in Range(solutions) : NoWorse(e, w, o)
      <4>1. PICK e \in Range(solutions) : NoWorse(e, w, o)
        BY <3>2
      <4>2. CASE dominates(v, e)
        <5>1. e \in offered' /\ v \in offered' /\ w \in offered'
          BY <1>1, <1>2
        <5>2. NoWorse(v, w, o)
          BY <1>4, <1>5, <4>1, <4>2, <5>1
        <5> QED BY <2>1, <5>2
      <4>3. CASE ~dominates(v, e)
        BY <2>1, <4>1, <4>3
      <4> QED BY <4>2, <4>3
    <3> QED BY <1>7, <3>1, <3>2
  <2>3. CASE Len(s) <= max_size
    BY <1>2, <1>9, <2>1, <2>2, <2>3, FitFacts
  <2>4. CASE ~(Len(s) <= max_size)
    <3>1. Len(s) > max_size
      BY <1>2, <2>1, <2>4
    <3>2. solutions' = Pruned(s)
      BY <1>9, <3>1 DEF Fit
    <3> DEFINE R == ByValue(s, o)
               end == IF o \in minimize THEN Least(DOMAIN s, R) ELSE Greatest(DOMAIN s, R)
    <3>3. s \in Seq(Offers)
      BY <1>2, <2>1
    <3>4. \A i \in DOMAIN s : s[i] \in offered' /\ s[i] \in Range(s)
      BY <2>1 DEF Range
    <3>5. \A i \in DOMAIN s : get(s[i], o, 0) = s[i][o] /\ s[i][o] \in Int
      BY <1>3, <3>4 DEF get, Stated
    <3>6. end \in DOMAIN s /\ \A j \in DOMAIN s : NoWorse(s[end], s[j], o)
      <4>1. /\ Least(DOMAIN s, R) \in DOMAIN s /\ Greatest(DOMAIN s, R) \in DOMAIN s
            /\ \A j \in DOMAIN s :
                 /\ get(s[Least(DOMAIN s, R)], o, 0) <= get(s[j], o, 0)
                 /\ get(s[j], o, 0) <= get(s[Greatest(DOMAIN s, R)], o, 0)
        BY <2>1, <3>3, ObjectiveEnds
      <4> HIDE DEF R
      <4>2. CASE o \in minimize
        BY <3>5, <4>1, <4>2 DEF NoWorse
      <4>3. CASE o \notin minimize
        BY <3>5, <4>1, <4>3 DEF NoWorse
      <4> QED BY <4>2, <4>3
    <3>7. end \in Extremes(s)
      <4>1. 1 \in DOMAIN s
        BY <2>1
      <4>2. o \in DOMAIN s[1]
        BY <1>3, <3>4, <4>1 DEF Stated
      <4> QED BY <4>2 DEF Extremes
    <3> HIDE DEF end
    <3>8. s[end] \in Range(solutions)'
      BY <1>2, <2>1, <3>1, <3>2, <3>7, PrunedFacts
    <3>9. PICK j \in DOMAIN s : e = s[j]
      BY <2>2 DEF Range
    <3>10. NoWorse(s[end], w, o)
      BY <1>4, <2>2, <3>4, <3>6, <3>9
    <3> QED BY <3>8, <3>10
  <2> QED BY <2>3, <2>4
<1> QED BY <1>8, <1>9 DEF add

IInv == ShapeInv /\ BestInv

\* The invariant of the list is inductive.
THEOREM Inductive == Spec => []IInv
PROOF
<1>1. Init => IInv
  <2>1. Init => ShapeInv
    <3>1. <<>> \in Seq({}) /\ Len(<<>>) = 0
      OBVIOUS
    <3>2. \A m \in MaxSizes : m \in Nat /\ 0 <= m
      BY SizesAssumption
    <3> QED BY <3>1, <3>2 DEF Init, ShapeInv
  <2>2. Init => BestInv
    BY DEF Init, BestInv
  <2> QED BY <2>1, <2>2 DEF IInv
<1>2. IInv /\ [Next]_vars => IInv'
  <2>1. ASSUME IInv, NEW v \in Offers, add(v) PROVE IInv'
    BY <2>1, ShapeStep, BestStep DEF IInv
  <2>2. ASSUME IInv, UNCHANGED vars PROVE IInv'
    BY <2>2 DEF IInv, ShapeInv, BestInv, NoWorse, Complete, Frontier!Complete, vars
  <2> QED BY <2>1, <2>2 DEF Next
<1> QED BY <1>1, <1>2, PTL DEF Spec

\* The state stays within its types, and the list keeps to its size.
THEOREM TypeCorrect == Spec => []TypeOK
PROOF
<1>1. IInv => TypeOK
  BY RangeOfList DEF IInv, ShapeInv, TypeOK
<1> QED BY Inductive, <1>1, PTL

\* Whatever is pruned for its crowding, the list implements the abstract frontier.
THEOREM ListImplementsSet == Spec => ImplementsParetoSet
PROOF
<1>1. Init => Frontier!Init
  <2>1. Range(<<>>) = {}
    BY DEF Range
  <2> QED BY <2>1 DEF Init, Frontier!Init
<1>2. IInv /\ [Next]_vars => [Frontier!Next]_Frontier!vars
  <2>1. ASSUME IInv, NEW v \in Offers, add(v) PROVE Frontier!Next
    BY <2>1, SetAdd DEF IInv, Frontier!Next
  <2>2. ASSUME UNCHANGED vars PROVE UNCHANGED Frontier!vars
    BY <2>2 DEF vars, Frontier!vars
  <2> QED BY <2>1, <2>2 DEF Next
<1> QED BY Inductive, <1>1, <1>2, PTL DEF Spec, ImplementsParetoSet, Frontier!Spec

\* So the list has what was proved of the set: no solution that add has left on it
\* dominates another.
THEOREM ListIsAntichain == Spec => []Frontier!Antichain
PROOF BY ListImplementsSet, NoneDominated, PTL DEF ImplementsParetoSet

\* And while _prune has given up none, the list holds exactly what no other offer dominates.
THEOREM ListIsMaximal == Spec => []Frontier!Maximal
PROOF BY ListImplementsSet, FrontierIsMaximal, PTL DEF ImplementsParetoSet
-----------------------------------------------------------------------------
\* The one that First selects by scores has the best.
LEMMA FirstIsBest ==
  ASSUME NEW S, solutions \in Seq(S), solutions # <<>>,
         NEW score \in [1..Len(solutions) -> Int]
  PROVE  \E i \in 1..Len(solutions) :
           First(score) = solutions[i] /\ \A j \in 1..Len(solutions) : score[j] <= score[i]
PROOF
<1> DEFINE D == 1..Len(solutions)
           R == {p \in D \X D : score[p[2]] < score[p[1]] \/ (score[p[2]] = score[p[1]] /\ p[1] < p[2])}
<1>1. D # {} /\ IsFiniteSet(D) /\ D \subseteq Int
  <2>1. Len(solutions) \in Nat /\ Len(solutions) # 0 /\ DOMAIN solutions = D
    OBVIOUS
  <2>2. 1 \in D
    BY <2>1
  <2>3. D \in SUBSET DOMAIN solutions
    BY <2>1
  <2> QED BY <2>2, <2>3, PlacesFinite
<1>2. \A i, j \in D : <<i, j>> \in R <=> score[j] < score[i] \/ (score[j] = score[i] /\ i < j)
  OBVIOUS
<1>3. \A i \in D : score[i] \in Int
  OBVIOUS
<1>4. DOMAIN score = D
  OBVIOUS
<1> HIDE DEF D, R
<1>5. Ordered(R, D)
  BY ONLY <1>1, <1>2, <1>3 DEF Ordered
<1>6. PICK i \in D : \A j \in D \ {i} : <<i, j>> \in R
  <2>1. Least(D, R) \in D /\ \A j \in D \ {Least(D, R)} : <<Least(D, R), j>> \in R
    BY <1>1, <1>5, EndsExist
  <2> QED BY <2>1
<1>7. \A j \in D : score[j] < score[i] \/ (score[j] = score[i] /\ i <= j)
  <2> TAKE j \in D
  <2>1. CASE j = i
    BY <1>1, <2>1
  <2>2. CASE j # i
    <3>1. <<i, j>> \in R /\ i \in Int /\ j \in Int
      BY <1>1, <1>6, <2>2
    <3>2. score[j] < score[i] \/ (score[j] = score[i] /\ i < j)
      BY <1>2, <3>1
    <3> QED BY <3>1, <3>2
  <2> QED BY <2>1, <2>2
<1> DEFINE k == CHOOSE k \in D : \A j \in D : score[j] < score[k] \/ (score[j] = score[k] /\ k <= j)
<1>8. k \in D /\ \A j \in D : score[j] < score[k] \/ (score[j] = score[k] /\ k <= j)
  BY <1>7
<1>9. First(score) = solutions[k]
  BY <1>4 DEF First
<1> HIDE DEF k
<1>10. \A j \in D : score[j] <= score[k]
  BY <1>3, <1>8
<1> QED BY <1>8, <1>9, <1>10 DEF D

\* Where each end of each objective has its place, get_best returns the best that was
\* ever offered for it, however often the list was pruned.
THEOREM BestNeverLost == Spec => []BestIsKept
PROOF
<1>1. IInv => BestIsKept
  <2> SUFFICES ASSUME ShapeInv, BestInv, Complete, max_size >= 2 * Cardinality(Objectives),
                      NEW o \in Objectives, NEW v \in offered
               PROVE  NoWorse(get_best(o), v, o)
    BY DEF IInv, BestIsKept, NoWorse
  <2> DEFINE n == Len(solutions)
             sign == IF o \in minimize THEN -1 ELSE 1
             score == [i \in 1..n |-> sign * solutions[i][o]]
  <2>1. solutions \in Seq(offered) /\ n \in Nat /\ Range(solutions) = {solutions[i] : i \in 1..n}
    BY RangeOfList DEF ShapeInv
  <2>2. \A a \in offered : a[o] \in Int
    BY OffersAssumption DEF ShapeInv, Complete, Frontier!Complete
  <2>3. \A i \in 1..n : solutions[i] \in offered /\ solutions[i][o] \in Int
    BY <2>1, <2>2
  <2>4. score \in [1..n -> Int]
    <3>1. sign \in Int
      OBVIOUS
    <3> HIDE DEF sign
    <3> QED BY <2>3, <3>1
  <2>5. PICK e \in Range(solutions) : NoWorse(e, v, o)
    BY DEF BestInv
  <2>6. PICK j \in 1..n : e = solutions[j]
    BY <2>1
  <2>7. solutions # <<>>
    BY <2>1, <2>6
  <2>8. PICK i \in 1..n : First(score) = solutions[i] /\ \A m \in 1..n : score[m] <= score[i]
    <3> HIDE DEF score
    <3> QED BY <2>1, <2>4, <2>7, FirstIsBest
  <2>9. get_best(o) = solutions[i]
    BY <2>8 DEF get_best
  <2>10. sign * solutions[j][o] <= sign * solutions[i][o]
    BY <2>8
  <2>11. v[o] \in Int /\ solutions[i][o] \in Int /\ solutions[j][o] \in Int
    BY <2>2, <2>3
  <2>12. NoWorse(solutions[i], v, o)
    <3>1. CASE o \in minimize
      BY <2>5, <2>6, <2>10, <2>11, <3>1 DEF NoWorse
    <3>2. CASE o \notin minimize
      BY <2>5, <2>6, <2>10, <2>11, <3>2 DEF NoWorse
    <3> QED BY <3>1, <3>2
  <2> QED BY <2>9, <2>12
<1> QED BY Inductive, <1>1, PTL

\* A solution that dominates another does not score less, for any weights.
LEMMA DominantScores ==
  ASSUME NEW a, NEW b, Stated(a), Stated(b), NEW w \in Weights,
         Frontier!Dominates(a, b, minimize) \/ a = b
  PROVE  /\ weighted_score(a, w) \in Int /\ weighted_score(b, w) \in Int
         /\ weighted_score(b, w) <= weighted_score(a, w)
PROOF
<1> DEFINE summand(v) == [o \in Objectives |-> (IF o \in minimize THEN -1 ELSE 1) * w[o] * get(v, o, 0)]
<1>1. w \in [Objectives -> Nat] /\ DOMAIN w = Objectives
  BY WeightsAssumption
<1>2. weighted_score(a, w) = SumFunction(summand(a)) /\ weighted_score(b, w) = SumFunction(summand(b))
  BY <1>1 DEF weighted_score
<1>3. ASSUME NEW o \in Objectives
      PROVE  /\ summand(a)[o] \in Int /\ summand(b)[o] \in Int
             /\ summand(b)[o] <= summand(a)[o]
  <2>1. w[o] \in Nat
    BY <1>1
  <2>2. get(a, o, 0) = a[o] /\ get(b, o, 0) = b[o] /\ a[o] \in Int /\ b[o] \in Int
    BY OffersAssumption DEF get, Stated
  <2>3. IF o \in minimize THEN a[o] <= b[o] ELSE a[o] >= b[o]
    BY <2>2 DEF Frontier!Dominates, Stated
  <2>4. \A m \in Nat, x, y \in Int : x <= y => m * x <= m * y /\ m * x \in Int /\ m * y \in Int
    OBVIOUS
  <2>5. CASE o \in minimize
    <3>1. summand(a)[o] = (-1) * w[o] * a[o] /\ summand(b)[o] = (-1) * w[o] * b[o]
      BY <2>2, <2>5
    <3>2. w[o] * a[o] \in Int /\ w[o] * b[o] \in Int /\ w[o] * a[o] <= w[o] * b[o]
      BY <2>1, <2>2, <2>3, <2>4, <2>5
    <3>3. (-1) * w[o] * a[o] = -(w[o] * a[o]) /\ (-1) * w[o] * b[o] = -(w[o] * b[o])
      BY <2>1, <2>2
    <3> QED BY <3>1, <3>2, <3>3
  <2>6. CASE o \notin minimize
    <3>1. summand(a)[o] = 1 * w[o] * a[o] /\ summand(b)[o] = 1 * w[o] * b[o]
      BY <2>2, <2>6
    <3>2. w[o] * a[o] \in Int /\ w[o] * b[o] \in Int /\ w[o] * b[o] <= w[o] * a[o]
      BY <2>1, <2>2, <2>3, <2>4, <2>6
    <3>3. 1 * w[o] * a[o] = w[o] * a[o] /\ 1 * w[o] * b[o] = w[o] * b[o]
      BY <2>1, <2>2
    <3> QED BY <3>1, <3>2, <3>3
  <2> QED BY <2>5, <2>6
<1>4. \A v : summand(v) = [o \in Objectives |-> summand(v)[o]]
  OBVIOUS
<1> HIDE DEF summand
<1>5. summand(a) \in [Objectives -> Int] /\ summand(b) \in [Objectives -> Int]
  BY <1>3, <1>4
<1> QED BY <1>2, <1>3, <1>5, ObjectivesAssumption, SumGrows

\* As long as nothing was pruned the compromise is the best of all that was offered, for
\* any weights: what is no longer on the list is dominated by what is.
THEOREM CompromiseNeverLost == Spec => []CompromiseIsBest
PROOF
<1>1. IInv /\ SetInv => CompromiseIsBest
  <2> SUFFICES ASSUME ShapeInv, SetInv, Complete, ~pruned, NEW w \in Weights, NEW v \in offered
               PROVE  weighted_score(v, w) <= weighted_score(get_compromise(w), w)
    BY DEF IInv, CompromiseIsBest
  <2> DEFINE n == Len(solutions)
             score == [i \in 1..n |-> weighted_score(solutions[i], w)]
  <2>1. solutions \in Seq(offered) /\ n \in Nat /\ Range(solutions) = {solutions[i] : i \in 1..n}
    BY RangeOfList DEF ShapeInv
  <2>2. \A a \in offered : Stated(a)
    BY DEF ShapeInv, Complete, Frontier!Complete, Stated
  <2>3. \A a \in offered : weighted_score(a, w) \in Int
    BY <2>2, DominantScores
  <2>4. score \in [1..n -> Int]
    BY <2>1, <2>3
  <2>5. PICK j \in 1..n : solutions[j] = v \/ Frontier!Dominates(solutions[j], v, minimize)
    BY <2>1 DEF SetInv, Covered, Complete
  <2>6. solutions # <<>>
    BY <2>1, <2>5
  <2>7. PICK i \in 1..n : First(score) = solutions[i] /\ \A m \in 1..n : score[m] <= score[i]
    <3> HIDE DEF score
    <3> QED BY <2>1, <2>4, <2>6, FirstIsBest
  <2>8. get_compromise(w) = solutions[i]
    BY <2>7 DEF get_compromise
  <2>9. weighted_score(solutions[j], w) <= weighted_score(solutions[i], w)
    BY <2>7
  <2>10. solutions[i] \in offered /\ solutions[j] \in offered
    BY <2>1
  <2>11. weighted_score(v, w) <= weighted_score(solutions[j], w)
    BY <2>2, <2>5, <2>10, DominantScores
  <2> QED BY <2>3, <2>8, <2>9, <2>10, <2>11
<1> QED BY Inductive, ListImplementsSet, SetInductive, <1>1, PTL DEF ImplementsParetoSet
=============================================================================
