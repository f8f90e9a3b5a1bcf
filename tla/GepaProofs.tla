---------------------------- MODULE GepaProofs ------------------------------
(***************************************************************************)
(* Proofs about Gepa: the frontier is an antichain, keeps to its size, and *)
(* does not lose the best total score, for any models, cycles, answers and *)
(* scores, and any crashes.                                                *)
(***************************************************************************)
EXTENDS Gepa, FiniteSetTheorems, SequenceTheorems, TLAPS

\* For its lemmas on orders, lists and sums, which speak of none of its parameters.
Pareto == INSTANCE ParetoFrontierProofs
  WITH Objectives <- {}, Offers <- {}, MaxSizes <- {}, Weights <- {}, max_size <- 0,
       minimize <- {}, solutions <- <<>>, offered <- {}, pruned <- FALSE

M == Elements(Models)
Drafts == [id : Ids, model : M]
Variants == [id : Ids, model : M, scores : Scores]
Antichain(f) == \A v, w \in Elements(f) : dominates(v, w) => v.id = w.id

ShapeInv ==
  /\ up \in BOOLEAN /\ starts \in Nat /\ recorded \in Nat /\ clock \in Nat
  /\ buffer \in Seq(BOOLEAN) /\ Len(buffer) <= 2 * SAMPLE_SIZE
  /\ frontier \in Seq(Variants) /\ Len(frontier) <= FRONTIER_SIZE
  /\ saved \in Seq(Variants) /\ Len(saved) <= FRONTIER_SIZE
  /\ archive \subseteq Scores
  /\ disk \in {"absent", "torn", "saved"}
  /\ pc \in [Cycles -> {"idle", "propose", "benchmark", "done", "lost"}]
  /\ asked \in [Cycles -> 0..Len(Models)]
  /\ \A c \in Cycles :
       /\ pc[c] = "idle" => asked[c] = 0
       /\ pc[c] = "propose" => asked[c] < Len(Models)
  /\ drafts \in [Cycles -> Seq(Drafts)]
  /\ prompts \in [Cycles -> SUBSET M]

\* What is on the frontier, and what a start may bring back.
ChainInv == Antichain(frontier) /\ Antichain(saved)

\* The best of all that was merged is in the file, and on the frontier as long as the
\* process runs: what a start brings back is what was last merged.
BestSaved == \A x \in archive : \E w \in Elements(saved) : Sum(w) >= Total(x)

SurviveInv ==
  /\ up => frontier = saved
  /\ disk = "absent" => saved = <<>>
  /\ \A v \in Elements(saved) : v.scores \in archive
  /\ SameObjectives => BestSaved

IInv == ShapeInv /\ ChainInv /\ SurviveInv
-----------------------------------------------------------------------------
\* The operators of the library and of Lists are the same in both modules.
LEMMA SameOperators ==
  /\ \A s : Pareto!Cardinality(s) = Cardinality(s)
  /\ \A s : Pareto!IsFiniteSet(s) <=> IsFiniteSet(s)
  /\ \A s : Pareto!AsListed(s) = AsListed(s)
PROOF
<1>1. \A s : Pareto!Cardinality(s) = Cardinality(s)
  BY DEF Pareto!Cardinality, Cardinality
<1>2. \A s : Pareto!IsFiniteSet(s) <=> IsFiniteSet(s)
  BY DEF Pareto!IsFiniteSet, IsFiniteSet
<1>3. \A s : Pareto!AsListed(s) = AsListed(s)
  BY DEF Pareto!AsListed, AsListed
<1> QED BY <1>1, <1>2, <1>3

LEMMA SameListed ==
  \A s, places, order, n : Pareto!Listed(s, places, order, n) = Listed(s, places, order, n)
PROOF
BY DEF Pareto!Listed, Listed, Pareto!Cardinality, Cardinality, Pareto!IsFiniteSet, IsFiniteSet

LEMMA SameSum == \A f : Pareto!SumFunction(f) = SumFunction(f)
PROOF
BY DEF Pareto!SumFunction, SumFunction, Pareto!SumFunctionOnSet, SumFunctionOnSet,
       Pareto!FoldFunctionOnSet, FoldFunctionOnSet, Pareto!MapThenFoldSet, MapThenFoldSet

\* What the lemmas assume of the objectives, of which there are none here.
LEMMA NoObjectives == Pareto!IsFiniteSet({})
PROOF BY SameOperators, FS_EmptySet

\* A total is a number, and grows with the scores.
LEMMA TotalGrows ==
  ASSUME NEW x \in Scores, NEW y \in Scores, DOMAIN x = DOMAIN y,
         \A o \in DOMAIN x : x[o] <= y[o]
  PROVE  /\ Total(x) \in Int /\ Total(y) \in Int
         /\ (\E o \in DOMAIN x : x[o] # y[o]) => Total(x) < Total(y)
PROOF
<1>1. Pareto!IsFiniteSet(DOMAIN x) /\ x \in [DOMAIN x -> Int] /\ y \in [DOMAIN x -> Int]
  BY ScoresAssumption, SameOperators
<1>2. /\ Pareto!SumFunction(x) \in Int /\ Pareto!SumFunction(y) \in Int
      /\ (\E o \in DOMAIN x : x[o] # y[o]) => Pareto!SumFunction(x) < Pareto!SumFunction(y)
  BY <1>1, NoObjectives, Pareto!SumGrows
<1> QED BY <1>2, SameSum DEF Total

LEMMA TotalIsInt ==
  ASSUME NEW x \in Scores
  PROVE  Total(x) \in Int
PROOF
<1>1. \A o \in DOMAIN x : x[o] <= x[o]
  BY ScoresAssumption
<1> QED BY <1>1, TotalGrows

LEMMA ElementsOf ==
  ASSUME NEW S, NEW s \in Seq(S)
  PROVE  Elements(s) = {s[i] : i \in 1..Len(s)} /\ Elements(s) \subseteq S
PROOF BY DEF Elements

\* The order by total scores, place by place.
LEMMA BestFirstPairs ==
  ASSUME NEW s
  PROVE  \A i, j \in DOMAIN s :
           <<i, j>> \in BestFirst(s) <=> Sum(s[i]) > Sum(s[j]) \/ (Sum(s[i]) = Sum(s[j]) /\ i < j)
PROOF
<1> TAKE i, j \in DOMAIN s
<1>1. ASSUME <<i, j>> \in BestFirst(s)
      PROVE  Before(<<i, Sum(s[i])>>, <<j, Sum(s[j])>>)
  <2>1. PICK p \in Totals(s) \X Totals(s) : Before(p[1], p[2]) /\ p[1][1] = i /\ p[2][1] = j
    BY <1>1 DEF BestFirst
  <2>2. p[1] = <<i, Sum(s[i])>> /\ p[2] = <<j, Sum(s[j])>>
    BY <2>1 DEF Totals
  <2> QED BY <2>1, <2>2
<1>2. ASSUME Before(<<i, Sum(s[i])>>, <<j, Sum(s[j])>>)
      PROVE  <<i, j>> \in BestFirst(s)
  <2> DEFINE p == <<<<i, Sum(s[i])>>, <<j, Sum(s[j])>>>>
  <2>1. p \in Totals(s) \X Totals(s) /\ Before(p[1], p[2]) /\ p[1][1] = i /\ p[2][1] = j
    BY <1>2 DEF Totals
  <2> QED BY <2>1 DEF BestFirst
<1>3. Before(<<i, Sum(s[i])>>, <<j, Sum(s[j])>>) <=>
        Sum(s[i]) > Sum(s[j]) \/ (Sum(s[i]) = Sum(s[j]) /\ i < j)
  BY DEF Before
<1> QED BY <1>1, <1>2, <1>3

\* Both orders are strict and total, on any places of a list of variants.
LEMMA Orders ==
  ASSUME NEW s \in Seq(Variants), NEW R \in {BestFirst(s), AsListed(s)}
  PROVE  Pareto!Ordered(R, DOMAIN s)
PROOF
<1>1. DOMAIN s = 1..Len(s) /\ Len(s) \in Nat
  OBVIOUS
<1> DEFINE sum == [i \in 1..Len(s) |-> Sum(s[i])]
<1>2. sum \in [1..Len(s) -> Int] /\ \A i \in DOMAIN s : sum[i] = Sum(s[i])
  <2>1. \A v \in Variants : Sum(v) \in Int
    BY TotalIsInt DEF Sum, Variants
  <2>2. \A i \in 1..Len(s) : s[i] \in Variants
    BY <1>1
  <2> QED BY <1>1, <2>1, <2>2
<1> HIDE DEF sum
<1>3. CASE R = AsListed(s)
  <2>1. \A i, j \in DOMAIN s : <<i, j>> \in R <=> i < j
    BY <1>3 DEF AsListed
  <2> QED BY <1>1, <2>1 DEF Pareto!Ordered
<1>4. CASE R = BestFirst(s)
  <2>1. \A i, j \in DOMAIN s :
           <<i, j>> \in R <=> sum[i] > sum[j] \/ (sum[i] = sum[j] /\ i < j)
    <3>1. \A i, j \in DOMAIN s :
             <<i, j>> \in R <=> Sum(s[i]) > Sum(s[j]) \/ (Sum(s[i]) = Sum(s[j]) /\ i < j)
      BY <1>4, BestFirstPairs, Zenon
    <3>2. \A i \in DOMAIN s : Sum(s[i]) = sum[i]
      BY <1>2
    <3> TAKE i, j \in DOMAIN s
    <3>3. Sum(s[i]) = sum[i] /\ Sum(s[j]) = sum[j]
      BY <3>2
    <3> QED BY <3>1, <3>3
  <2>2. \A i, j \in DOMAIN s : i # j => <<i, j>> \in R \/ <<j, i>> \in R
    BY ONLY <1>1, <1>2, <2>1
  <2>3. \A i \in DOMAIN s : <<i, i>> \notin R
    BY ONLY <1>1, <1>2, <2>1
  <2>4. \A i, j, k \in DOMAIN s : <<i, j>> \in R /\ <<j, k>> \in R => <<i, k>> \in R
    BY ONLY <1>1, <1>2, <2>1
  <2> QED BY <2>2, <2>3, <2>4 DEF Pareto!Ordered
<1> QED BY <1>3, <1>4

\* l lists variants at n of these places: at all of them, if they are so many, and for
\* each at the place itself or at one before it; none is behind a place that is left out.
IsCut(l, s, places, R, n) ==
  /\ l \in Seq(Variants) /\ Len(l) = n
  /\ \A k \in 1..n : \E i \in places : l[k] = s[i]
  /\ n = Cardinality(places) => \A i \in places : \E k \in 1..n : l[k] = s[i]
  /\ n > 0 => \A i \in places : \E k \in 1..n, j \in places :
                 l[k] = s[j] /\ (j = i \/ <<j, i>> \in R)
  /\ \A i \in places, k \in 1..n :
       \/ \E m \in 1..n : l[m] = s[i]
       \/ \E j \in places : l[k] = s[j] /\ <<j, i>> \in R

LEMMA ListedFacts ==
  ASSUME NEW s \in Seq(Variants), NEW places \in SUBSET DOMAIN s,
         NEW R \in {BestFirst(s), AsListed(s)}, NEW n \in 0..Cardinality(places)
  PROVE  IsCut(Listed(s, places, R, n), s, places, R, n)
PROOF
<1> DEFINE l == Listed(s, places, R, n)
<1>1. IsFiniteSet(places) /\ Cardinality(places) \in Nat
  <2>1. IsFiniteSet(DOMAIN s)
    BY FS_Interval
  <2> QED BY <2>1, FS_Subset, FS_CardinalityType
<1>2. Pareto!Ordered(R, places)
  BY Orders DEF Pareto!Ordered
<1>3. Pareto!IsFiniteSet(places) /\ n \in 0..Pareto!Cardinality(places)
  BY <1>1, SameOperators
<1>4. Pareto!IsListing(l, s, places, R, n)
  <2>1. Pareto!IsListing(Pareto!Listed(s, places, R, n), s, places, R, n)
    BY ONLY <1>2, <1>3, NoObjectives, Pareto!ListedFacts
  <2> QED BY <2>1, SameListed
<1>5. \A i \in places : Pareto!Cardinality(Pareto!Preceding(places, R, i)) < Cardinality(places)
  <2>1. \A i \in places : Pareto!Cardinality(Pareto!Preceding(places, R, i)) < Pareto!Cardinality(places)
    BY ONLY <1>2, <1>3, NoObjectives, Pareto!Ranked
  <2> QED BY <2>1, SameOperators
<1> HIDE DEF l
<1>6. /\ l = [k \in 1..n |-> l[k]]
      /\ \A k \in 1..n : \E i \in places : l[k] = s[i]
      /\ n = Cardinality(places) => \A i \in places : \E k \in 1..n : l[k] = s[i]
      /\ n > 0 => \A i \in places : \E k \in 1..n, j \in places :
                     l[k] = s[j] /\ (j = i \/ <<j, i>> \in R)
      /\ \A i \in places, k \in 1..n :
           \/ \E m \in 1..n : l[m] = s[i]
           \/ \E j \in places : l[k] = s[j] /\ <<j, i>> \in R
  BY <1>4, <1>5 DEF Pareto!IsListing
<1>7. \A k \in 1..n : l[k] \in Variants
  <2>1. \A i \in places : s[i] \in Variants
    OBVIOUS
  <2> QED BY <1>6, <2>1
<1>8. l \in Seq(Variants) /\ Len(l) = n
  BY <1>1, <1>6, <1>7
<1> QED BY <1>6, <1>8 DEF l, IsCut

LEMMA ElementsOfBoth ==
  ASSUME NEW S, NEW s \in Seq(S), NEW t \in Seq(S)
  PROVE  s \o t \in Seq(S) /\ Elements(s \o t) = Elements(s) \cup Elements(t)
PROOF
<1> DEFINE c == s \o t
<1>1. /\ c \in Seq(S) /\ Len(c) = Len(s) + Len(t)
      /\ \A i \in 1..Len(s) : c[i] = s[i]
      /\ \A i \in 1..Len(t) : c[Len(s) + i] = t[i]
  BY ConcatProperties
<1>2. Len(s) \in Nat /\ Len(t) \in Nat
  OBVIOUS
<1> HIDE DEF c
<1>3. /\ Elements(c) = {c[i] : i \in 1..Len(c)}
      /\ Elements(s) = {s[i] : i \in 1..Len(s)}
      /\ Elements(t) = {t[i] : i \in 1..Len(t)}
  BY <1>1, ElementsOf
<1>4. ASSUME NEW x \in Elements(c) PROVE x \in Elements(s) \cup Elements(t)
  <2>1. PICK i \in 1..Len(c) : x = c[i]
    BY <1>3
  <2>2. CASE i <= Len(s)
    <3>1. i \in 1..Len(s)
      BY <1>2, <2>2
    <3> QED BY <1>1, <1>3, <2>1, <3>1
  <2>3. CASE ~(i <= Len(s))
    <3>1. i - Len(s) \in 1..Len(t) /\ Len(s) + (i - Len(s)) = i
      BY <1>1, <1>2, <2>3
    <3> QED BY <1>1, <1>3, <2>1, <3>1
  <2> QED BY <2>2, <2>3
<1>5. ASSUME NEW x \in Elements(s) PROVE x \in Elements(c)
  <2>1. PICK i \in 1..Len(s) : x = s[i]
    BY <1>3
  <2>2. i \in 1..Len(c)
    BY <1>1, <1>2
  <2> QED BY <1>1, <1>3, <2>1, <2>2
<1>6. ASSUME NEW x \in Elements(t) PROVE x \in Elements(c)
  <2>1. PICK i \in 1..Len(t) : x = t[i]
    BY <1>3
  <2>2. Len(s) + i \in 1..Len(c)
    BY <1>1, <1>2
  <2> QED BY <1>1, <1>3, <2>1, <2>2
<1> QED BY <1>1, <1>4, <1>5, <1>6 DEF c

\* What dominates, on the same objectives, has a higher total.
LEMMA DominantTotal ==
  ASSUME NEW v \in Variants, NEW w \in Variants, DOMAIN v.scores = DOMAIN w.scores,
         dominates(w, v)
  PROVE  Sum(v) \in Int /\ Sum(w) \in Int /\ Sum(w) > Sum(v)
PROOF
<1> DEFINE x == v.scores
           y == w.scores
<1>1. x \in Scores /\ y \in Scores /\ DOMAIN x = DOMAIN y
  BY DEF Variants
<1>2. x \in [DOMAIN x -> Int] /\ y \in [DOMAIN x -> Int]
  BY <1>1, ScoresAssumption
<1>3. /\ \A o \in DOMAIN x : y[o] >= x[o]
      /\ \E o \in DOMAIN x : y[o] > x[o]
  BY DEF dominates, Common
<1> HIDE DEF x, y
<1>4. \A o \in DOMAIN x : x[o] <= y[o]
  BY <1>2, <1>3
<1>5. \E o \in DOMAIN x : x[o] # y[o]
  BY <1>2, <1>3
<1>6. Total(x) \in Int /\ Total(y) \in Int /\ Total(x) < Total(y)
  BY <1>1, <1>4, <1>5, TotalGrows
<1> QED BY <1>6 DEF Sum, x, y

\* On the same objectives dominance is transitive.
LEMMA DominanceTransitive ==
  ASSUME NEW u \in Variants, NEW v \in Variants, NEW w \in Variants,
         DOMAIN u.scores = DOMAIN v.scores, DOMAIN w.scores = DOMAIN v.scores,
         dominates(u, v), dominates(v, w)
  PROVE  dominates(u, w)
PROOF
<1> DEFINE x == u.scores
           y == v.scores
           z == w.scores
           D == DOMAIN y
<1>1. x \in [D -> Int] /\ y \in [D -> Int] /\ z \in [D -> Int]
  BY ScoresAssumption DEF Variants
<1>2. /\ \A o \in D : x[o] >= y[o]
      /\ \A o \in D : y[o] >= z[o]
      /\ \E o \in D : x[o] > y[o]
  BY DEF dominates, Common
<1>3. (dominates(u, w) <=> (\A o \in D : x[o] >= z[o]) /\ \E o \in D : x[o] > z[o])
  BY DEF dominates, Common
<1> HIDE DEF x, y, z, D
<1>4. \A o \in D : x[o] >= z[o]
  BY <1>1, <1>2
<1>5. \E o \in D : x[o] > z[o]
  BY <1>1, <1>2
<1> QED BY <1>3, <1>4, <1>5

\* A list of variants scored on the same objectives.
Comparable(all) == \A v, w \in Elements(all) : DOMAIN v.scores = DOMAIN w.scores

\* The first variant in the order by total score is not dominated: what dominates has a
\* higher total.
LEMMA BestUndominated ==
  ASSUME NEW all \in Seq(Variants), all # <<>>, Comparable(all)
  PROVE  \E m \in NonDominated(all) : \A i \in DOMAIN all : Sum(all[m]) >= Sum(all[i])
PROOF
<1> DEFINE R == BestFirst(all)
           D == DOMAIN all
<1>1. D = 1..Len(all) /\ Len(all) \in Nat /\ Len(all) # 0
  OBVIOUS
<1>2. Pareto!IsFiniteSet(D) /\ D # {} /\ Pareto!Ordered(R, D)
  <2>1. IsFiniteSet(D) /\ 1 \in D
    BY <1>1, FS_Interval
  <2> QED BY <2>1, SameOperators, Orders
<1>3. PICK m \in D : \A j \in D \ {m} : <<m, j>> \in R
  <2> HIDE DEF R, D
  <2>1. /\ Pareto!Least(D, R) \in D
        /\ \A j \in D \ {Pareto!Least(D, R)} : <<Pareto!Least(D, R), j>> \in R
    BY ONLY <1>2, NoObjectives, Pareto!EndsExist
  <2> QED BY <2>1
<1>4. \A i \in D : all[i] \in Variants /\ all[i] \in Elements(all) /\ Sum(all[i]) \in Int
  <2>1. \A v \in Variants : Sum(v) \in Int
    BY TotalIsInt DEF Sum, Variants
  <2> QED BY <2>1 DEF Elements
<1>5. ASSUME NEW i \in D PROVE Sum(all[m]) >= Sum(all[i])
  <2>1. CASE i = m
    BY <1>4, <2>1
  <2>2. CASE i # m
    <3>1. <<m, i>> \in R
      BY <1>3, <2>2
    <3> HIDE DEF D
    <3>2. Sum(all[m]) > Sum(all[i]) \/ Sum(all[m]) = Sum(all[i])
      BY <3>1, BestFirstPairs DEF D
    <3> QED BY <1>4, <3>2
  <2> QED BY <2>1, <2>2
<1>6. ASSUME NEW w \in Elements(all), dominates(w, all[m]) PROVE FALSE
  <2>1. PICK i \in D : w = all[i]
    BY DEF Elements
  <2>2. Sum(w) > Sum(all[m]) /\ Sum(all[m]) >= Sum(w)
    BY <1>4, <1>5, <1>6, <2>1, DominantTotal DEF Comparable
  <2> QED BY <1>4, <2>1, <2>2
<1>7. m \in NonDominated(all)
  BY <1>6 DEF NonDominated
<1> QED BY <1>5, <1>7

\* Of all that dominate a variant, the first in the order by total score is not dominated.
LEMMA DominatorKept ==
  ASSUME NEW all \in Seq(Variants), Comparable(all), NEW x \in Elements(all),
         NEW w \in Elements(all), dominates(w, x)
  PROVE  \E d \in NonDominated(all) : dominates(all[d], x)
PROOF
<1> DEFINE D == {j \in DOMAIN all : dominates(all[j], x)}
           R == BestFirst(all)
<1>1. DOMAIN all = 1..Len(all) /\ Len(all) \in Nat
  OBVIOUS
<1>2. PICK i \in DOMAIN all : w = all[i]
  BY DEF Elements
<1>3. Pareto!IsFiniteSet(D) /\ D # {} /\ Pareto!Ordered(R, D)
  <2>1. IsFiniteSet(D) /\ i \in D
    <3>1. IsFiniteSet(1..Len(all)) /\ D \in SUBSET (1..Len(all)) /\ i \in D
      BY <1>1, <1>2, FS_Interval
    <3> HIDE DEF D
    <3> QED BY <3>1, FS_Subset
  <2>2. Pareto!Ordered(R, DOMAIN all)
    BY Orders
  <2> QED BY <2>1, <2>2, SameOperators DEF Pareto!Ordered
<1>4. PICK d \in D : \A j \in D \ {d} : <<d, j>> \in R
  <2> HIDE DEF R, D
  <2>1. /\ Pareto!Least(D, R) \in D
        /\ \A j \in D \ {Pareto!Least(D, R)} : <<Pareto!Least(D, R), j>> \in R
    BY ONLY <1>3, NoObjectives, Pareto!EndsExist
  <2> QED BY <2>1
<1>5. \A j \in DOMAIN all : all[j] \in Variants /\ all[j] \in Elements(all)
  BY DEF Elements
<1>6. x \in Variants
  BY ElementsOf
<1>7. ASSUME NEW v \in Elements(all), dominates(v, all[d]) PROVE FALSE
  <2>1. PICK e \in DOMAIN all : v = all[e]
    BY DEF Elements
  <2>2. dominates(v, x)
    BY <1>5, <1>6, <1>7, <2>1, DominanceTransitive DEF Comparable
  <2>3. Sum(v) \in Int /\ Sum(all[d]) \in Int /\ Sum(v) > Sum(all[d])
    BY <1>5, <1>7, <2>1, DominantTotal DEF Comparable
  <2>4. e \in D \ {d}
    BY <2>1, <2>2, <2>3
  <2>5. Sum(all[d]) > Sum(v) \/ Sum(all[d]) = Sum(v)
    BY <1>4, <2>1, <2>4, BestFirstPairs
  <2> QED BY <2>3, <2>5
<1>8. d \in NonDominated(all)
  BY <1>7 DEF NonDominated
<1> QED BY <1>8

\* What is not in a new frontier u, though it was there to be: u holds what dominates it,
\* or is full of what has no lower total.
OutDone(u, x) ==
  \/ \E w \in Elements(u) : dominates(w, x)
  \/ Len(u) = FRONTIER_SIZE /\ \A w \in Elements(u) : Sum(w) >= Sum(x)

\* The new frontier: whatever its size and order, its elements are among the
\* undominated ones of the old frontier and the new variants, and hold the best.
LEMMA UpdatedFacts ==
  ASSUME NEW new \in Seq(Variants), frontier \in Seq(Variants)
  PROVE  /\ Updated(new) \in Seq(Variants)
         /\ Len(Updated(new)) <= FRONTIER_SIZE
         /\ Antichain(Updated(new))
         /\ Elements(Updated(new)) \subseteq Elements(frontier \o new)
         /\ Comparable(frontier \o new) =>
              /\ \A x \in Elements(frontier \o new) : \E w \in Elements(Updated(new)) : Sum(w) >= Sum(x)
              /\ \A x \in Elements(frontier \o new) \ Elements(Updated(new)) : OutDone(Updated(new), x)
PROOF
<1> DEFINE all == frontier \o new
           kept == NonDominated(all)
           u == Updated(new)
           n == IF Cardinality(kept) > FRONTIER_SIZE THEN FRONTIER_SIZE ELSE Cardinality(kept)
           R == IF Cardinality(kept) > FRONTIER_SIZE THEN BestFirst(all) ELSE AsListed(all)
<1>1. all \in Seq(Variants)
  BY ConcatProperties
<1>2. u = Listed(all, kept, R, n)
  BY DEF Updated
<1> HIDE DEF all
<1>3. kept \in SUBSET DOMAIN all
  BY DEF NonDominated
<1>4. Cardinality(kept) \in Nat
  <2>1. IsFiniteSet(DOMAIN all)
    BY <1>1, FS_Interval
  <2> QED BY <1>3, <2>1, FS_Subset, FS_CardinalityType
<1>5. \A i \in kept : \A w \in Elements(all) : w.id # all[i].id => ~dominates(w, all[i])
  BY DEF NonDominated
<1>6. FRONTIER_SIZE \in Nat \ {0}
  BY SizesAssumption
<1>7. /\ n \in 0..Cardinality(kept) /\ n <= FRONTIER_SIZE
      /\ n = Cardinality(kept) \/ (n > 0 /\ R = BestFirst(all))
      /\ R \in {BestFirst(all), AsListed(all)}
  BY <1>4, <1>6
<1> HIDE DEF u, n, R
<1>8. /\ u \in Seq(Variants) /\ Len(u) = n
      /\ \A k \in 1..n : \E i \in kept : u[k] = all[i]
      /\ n = Cardinality(kept) => \A i \in kept : \E k \in 1..n : u[k] = all[i]
      /\ n > 0 => \A i \in kept : \E k \in 1..n, j \in kept :
                     u[k] = all[j] /\ (j = i \/ <<j, i>> \in R)
      /\ \A i \in kept, k \in 1..n :
           \/ \E m \in 1..n : u[m] = all[i]
           \/ \E j \in kept : u[k] = all[j] /\ <<j, i>> \in R
  <2> HIDE DEF kept
  <2>1. IsCut(Listed(all, kept, R, n), all, kept, R, n)
    BY ONLY <1>1, <1>3, <1>7, ListedFacts
  <2> QED BY <1>2, <2>1 DEF IsCut
<1> HIDE DEF kept
<1>9. Elements(u) = {u[k] : k \in 1..n}
  BY <1>8, ElementsOf
<1>10. \A v \in Elements(u) : \E i \in kept : v = all[i]
  <2>1. \A k \in 1..n : \E i \in kept : u[k] = all[i]
    BY <1>8
  <2> QED BY ONLY <1>9, <2>1
<1>11. \A i \in kept : all[i] \in Elements(all)
  BY <1>3 DEF Elements
<1>12. Antichain(u)
  BY <1>5, <1>10, <1>11 DEF Antichain
<1>13. ASSUME Comparable(all), NEW x \in Elements(all)
       PROVE  \E w \in Elements(u) : Sum(w) >= Sum(x)
  <2>1. PICK i \in DOMAIN all : x = all[i]
    BY <1>13 DEF Elements
  <2>2. PICK m \in kept : Sum(all[m]) >= Sum(all[i])
    <3>1. all # <<>>
      BY <2>1
    <3> QED BY <1>1, <1>13, <3>1, BestUndominated DEF kept
  <2>3. \A j \in DOMAIN all : Sum(all[j]) \in Int
    <3>1. \A v \in Variants : Sum(v) \in Int
      BY TotalIsInt DEF Sum, Variants
    <3> QED BY <1>1, <3>1
  <2>4. PICK k \in 1..n, j \in kept : u[k] = all[j] /\ Sum(all[j]) >= Sum(all[m])
    <3>1. CASE n = Cardinality(kept)
      <4>1. PICK k \in 1..n : u[k] = all[m]
        BY <1>8, <3>1
      <4>2. Sum(all[m]) >= Sum(all[m])
        BY <1>3, <2>3
      <4> QED BY <4>1, <4>2
    <3>2. CASE n > 0 /\ R = BestFirst(all)
      <4>1. PICK k \in 1..n, j \in kept : u[k] = all[j] /\ (j = m \/ <<j, m>> \in R)
        BY <1>8, <3>2
      <4>2. <<j, m>> \in R => Sum(all[j]) >= Sum(all[m])
        BY <1>3, <2>3, <3>2, BestFirstPairs
      <4>3. Sum(all[j]) >= Sum(all[m])
        BY <1>3, <2>3, <4>1, <4>2
      <4> QED BY <4>1, <4>3
    <3> QED BY <1>7, <3>1, <3>2
  <2>5. u[k] \in Elements(u)
    BY <1>9
  <2>6. Sum(u[k]) >= Sum(x)
    BY <1>3, <2>1, <2>2, <2>3, <2>4
  <2> QED BY <2>5, <2>6
<1>14. Elements(u) \subseteq Elements(all)
  BY <1>10, <1>11
<1>15. \A v \in Variants : Sum(v) \in Int
  BY TotalIsInt DEF Sum, Variants
<1>16. ASSUME NEW i \in kept, all[i] \notin Elements(u)
       PROVE  /\ Len(u) = FRONTIER_SIZE
              /\ \A w \in Elements(u) : Sum(w) \in Int /\ Sum(w) >= Sum(all[i])
  <2>1. ~\E m \in 1..n : u[m] = all[i]
    BY <1>9, <1>16
  <2>2. n # Cardinality(kept)
    BY <1>8, <2>1
  <2>3. Len(u) = FRONTIER_SIZE /\ R = BestFirst(all)
    BY <1>4, <1>8, <2>2 DEF n, R
  <2>4. ASSUME NEW w \in Elements(u) PROVE Sum(w) \in Int /\ Sum(w) >= Sum(all[i])
    <3>1. PICK k \in 1..n : w = u[k]
      BY <1>9
    <3>2. PICK j \in kept : u[k] = all[j] /\ <<j, i>> \in R
      BY <1>8, <2>1
    <3>3. i \in DOMAIN all /\ j \in DOMAIN all
      BY <1>3
    <3>4. Sum(all[j]) > Sum(all[i]) \/ Sum(all[j]) = Sum(all[i])
      BY <2>3, <3>2, <3>3, BestFirstPairs
    <3>5. Sum(all[i]) \in Int /\ Sum(all[j]) \in Int
      BY <1>1, <1>15, <3>3
    <3> QED BY <3>1, <3>2, <3>4, <3>5
  <2> QED BY <2>3, <2>4
<1>17. ASSUME Comparable(all), NEW x \in Elements(all), x \notin Elements(u)
       PROVE  OutDone(u, x)
  <2>1. PICK i \in DOMAIN all : x = all[i]
    BY <1>17 DEF Elements
  <2>2. CASE i \in kept
    BY <1>16, <1>17, <2>1, <2>2 DEF OutDone
  <2>3. CASE i \notin kept
    <3>1. PICK y \in Elements(all) : dominates(y, x)
      BY <2>1, <2>3 DEF kept, NonDominated
    <3>2. PICK d \in kept : dominates(all[d], x)
      BY <1>1, <1>17, <3>1, DominatorKept DEF kept
    <3>3. CASE all[d] \in Elements(u)
      BY <3>2, <3>3 DEF OutDone
    <3>4. CASE all[d] \notin Elements(u)
      <4>1. Sum(x) \in Int /\ Sum(all[d]) \in Int /\ Sum(all[d]) > Sum(x)
        <5>1. all[d] \in Variants /\ all[d] \in Elements(all) /\ x \in Variants
          BY <1>1, <1>3, <1>11, <2>1
        <5> QED BY <1>17, <3>2, <5>1, DominantTotal DEF Comparable
      <4>2. /\ Len(u) = FRONTIER_SIZE
            /\ \A w \in Elements(u) : Sum(w) \in Int /\ Sum(w) >= Sum(all[d])
        BY <1>16, <3>4
      <4>3. \A w \in Elements(u) : Sum(w) >= Sum(x)
        BY <4>1, <4>2
      <4> QED BY <4>2, <4>3 DEF OutDone
    <3> QED BY <3>3, <3>4
  <2> QED BY <2>2, <2>3
<1> QED BY <1>7, <1>8, <1>12, <1>13, <1>14, <1>17 DEF u, all

LEMMA ScoredFacts ==
  ASSUME NEW ds \in Seq(Drafts), NEW scores \in [DOMAIN ds -> Scores]
  PROVE  Scored(ds, scores) \in Seq(Variants) /\ \A v \in Elements(Scored(ds, scores)) : v.scores \in Scores
PROOF
<1>1. DOMAIN ds = 1..Len(ds) /\ Len(ds) \in Nat
  OBVIOUS
<1>2. \A i \in 1..Len(ds) : [id |-> ds[i].id, model |-> ds[i].model, scores |-> scores[i]] \in Variants
  <2> TAKE i \in 1..Len(ds)
  <2>1. ds[i] \in Drafts /\ scores[i] \in Scores
    BY <1>1
  <2> QED BY <2>1 DEF Drafts, Variants
<1>3. Scored(ds, scores) \in Seq(Variants)
  BY <1>1, <1>2 DEF Scored
<1>4. Elements(Scored(ds, scores)) \subseteq Variants
  BY <1>3, ElementsOf
<1> QED BY <1>3, <1>4 DEF Variants

LEMMA AnswerFacts ==
  ASSUME NEW m \in M, NEW second \in Nat, NEW n \in Nat
  PROVE  Answer(m, second, n) \in Seq(Drafts)
PROOF
<1>1. \A i \in 1..n : <<m, second, i>> \in Ids
  BY DEF Ids, M
<1> QED BY <1>1 DEF Answer, Drafts

\* The buffer keeps to twice the sample.
LEMMA TrimmedFacts ==
  ASSUME NEW b \in Seq(BOOLEAN)
  PROVE  Trimmed(b) \in Seq(BOOLEAN) /\ Len(Trimmed(b)) <= 2 * SAMPLE_SIZE
PROOF
<1>1. SAMPLE_SIZE \in Nat \ {0} /\ Len(b) \in Nat
  BY SizesAssumption
<1>2. CASE Len(b) > 2 * SAMPLE_SIZE
  <2> DEFINE cut == SubSeq(b, Len(b) - 2 * SAMPLE_SIZE + 1, Len(b))
  <2>1. Trimmed(b) = cut
    BY <1>1, <1>2 DEF Trimmed, LastOf
  <2>2. cut \in Seq(BOOLEAN) /\ Len(cut) = 2 * SAMPLE_SIZE
    BY <1>1, <1>2
  <2> QED BY <1>1, <2>1, <2>2
<1>3. CASE ~(Len(b) > 2 * SAMPLE_SIZE)
  BY <1>1, <1>3 DEF Trimmed
<1> QED BY <1>2, <1>3
-----------------------------------------------------------------------------
\* A step that merges nothing, and leaves in the file what is on the frontier.
LEMMA NothingMerged ==
  ASSUME SurviveInv, saved' = saved, archive' = archive,
         up' => frontier' = saved, disk' = "absent" => disk = "absent"
  PROVE  SurviveInv'
PROOF BY DEF SurviveInv, SameObjectives, BestSaved

LEMMA InitInv == Init => IInv
PROOF
<1> SUFFICES ASSUME Init PROVE IInv
  OBVIOUS
<1> USE DEF Init
<1>1. Elements(<<>>) = {}
  BY DEF Elements
<1>2. Len(Models) \in Nat \ {0}
  BY ModelsAssumption
<1>3. SurviveInv
  BY <1>1 DEF SurviveInv, BestSaved
<1> QED BY <1>1, <1>2, <1>3, SizesAssumption DEF IInv, ShapeInv, ChainInv, Antichain

LEMMA RecordStep ==
  ASSUME IInv, NEW ok \in BOOLEAN, record_trajectory(ok)
  PROVE  IInv'
PROOF
<1>1. Append(buffer, ok) \in Seq(BOOLEAN)
  BY DEF IInv, ShapeInv
<1>2. buffer' \in Seq(BOOLEAN) /\ Len(buffer') <= 2 * SAMPLE_SIZE
  BY <1>1, TrimmedFacts DEF record_trajectory
<1>3. SurviveInv'
  BY NothingMerged DEF record_trajectory, IInv, SurviveInv
<1> QED BY <1>2, <1>3 DEF record_trajectory, IInv, ShapeInv, ChainInv, Antichain

LEMMA EvolveStep ==
  ASSUME IInv, NEW c \in Cycles, evolve(c)
  PROVE  IInv'
PROOF
<1>1. Len(Models) \in Nat \ {0}
  BY ModelsAssumption
<1>2. ShapeInv'
  <2>1. /\ pc' \in [Cycles -> {"idle", "propose", "benchmark", "done", "lost"}]
        /\ prompts' \in [Cycles -> SUBSET M]
        /\ saved' \in {saved, frontier} /\ disk' \in {disk, "saved"}
    BY DEF evolve, _save_state, IInv, ShapeInv, M
  <2>2. \A d \in Cycles : /\ pc'[d] = "idle" => asked'[d] = 0
                          /\ pc'[d] = "propose" => asked'[d] < Len(Models)
    BY <1>1 DEF evolve, IInv, ShapeInv
  <2> QED BY <2>1, <2>2 DEF evolve, IInv, ShapeInv
<1>3. ChainInv'
  BY DEF evolve, _save_state, IInv, ChainInv, Antichain
<1>4. SurviveInv'
  <2>1. saved' = saved /\ frontier' = saved /\ (disk' = "absent" => disk = "absent")
    BY DEF evolve, _save_state, IInv, SurviveInv
  <2> QED BY <2>1, NothingMerged DEF evolve, IInv
<1> QED BY <1>2, <1>3, <1>4 DEF IInv

LEMMA ProposeStep ==
  ASSUME IInv, NEW c \in Cycles, _propose_variants(c)
  PROVE  IInv'
PROOF
<1> USE DEF _propose_variants
<1>1. Len(Models) \in Nat \ {0}
  BY ModelsAssumption
<1>2. asked[c] \in 0..Len(Models) /\ asked[c] < Len(Models) /\ asked'[c] = asked[c] + 1
  BY DEF IInv, ShapeInv
<1>3. Models[asked'[c]] \in M
  BY <1>1, <1>2, ModelsAssumption DEF M, Elements
<1>4. PICK n \in 0..MAX_VARIANTS, second \in {clock, clock + 1} :
        /\ drafts' = [drafts EXCEPT ![c] = @ \o Answer(Models[asked'[c]], second, n)]
        /\ clock' = second
  OBVIOUS
<1>5. second \in Nat /\ n \in Nat
  BY BoundsAssumption DEF IInv, ShapeInv
<1>6. Answer(Models[asked'[c]], second, n) \in Seq(Drafts)
  BY <1>3, <1>5, AnswerFacts
<1>7. drafts[c] \o Answer(Models[asked'[c]], second, n) \in Seq(Drafts)
  BY <1>6, ConcatProperties DEF IInv, ShapeInv
<1>8. drafts' \in [Cycles -> Seq(Drafts)]
  BY <1>4, <1>7 DEF IInv, ShapeInv
<1>9. /\ asked' \in [Cycles -> 0..Len(Models)]
      /\ pc' \in [Cycles -> {"idle", "propose", "benchmark", "done", "lost"}]
  BY <1>1, <1>2 DEF IInv, ShapeInv
<1>10. \A d \in Cycles : /\ pc'[d] = "idle" => asked'[d] = 0
                         /\ pc'[d] = "propose" => asked'[d] < Len(Models)
  <2>1. ASSUME NEW d \in Cycles, d # c
        PROVE  pc'[d] = pc[d] /\ asked'[d] = asked[d]
    BY <2>1 DEF IInv, ShapeInv
  <2>2. pc'[c] = IF asked'[c] = Len(Models) THEN "benchmark" ELSE "propose"
    BY DEF IInv, ShapeInv
  <2>3. pc'[c] = "propose" => asked'[c] < Len(Models)
    BY <1>1, <1>2, <2>2
  <2>4. pc'[c] # "idle"
    BY <2>2
  <2>5. \A d \in Cycles : /\ pc[d] = "idle" => asked[d] = 0
                          /\ pc[d] = "propose" => asked[d] < Len(Models)
    BY DEF IInv, ShapeInv
  <2> HIDE DEF _propose_variants
  <2> QED BY <2>1, <2>3, <2>4, <2>5
<1>11. ShapeInv'
  BY <1>4, <1>5, <1>8, <1>9, <1>10 DEF IInv, ShapeInv
<1>12. ChainInv'
  BY DEF IInv, ChainInv, Antichain
<1>13. SurviveInv'
  BY NothingMerged DEF IInv, SurviveInv
<1> QED BY <1>11, <1>12, <1>13 DEF IInv

\* What a cycle merges, and what is then known of it.
Merges(new) ==
  /\ frontier = saved /\ frontier' = Updated(new)
  /\ frontier \in Seq(Variants) /\ new \in Seq(Variants)
  /\ archive' = archive \cup {v.scores : v \in Elements(new)}
  /\ Elements(frontier \o new) = Elements(saved) \cup Elements(new)
  /\ Elements(frontier') \subseteq Elements(frontier \o new)
  /\ \A v \in Elements(frontier \o new) : v.scores \in archive'
  /\ SameObjectives' => SameObjectives /\ Comparable(frontier \o new)

LEMMA MergeFacts ==
  ASSUME IInv, NEW c \in Cycles, _benchmark_variants(c)
  PROVE  \E new : Merges(new)
PROOF
<1>1. PICK scores \in [DOMAIN drafts[c] -> Scores] :
        /\ frontier' = Updated(Scored(drafts[c], scores))
        /\ archive' = archive \cup {v.scores : v \in Elements(Scored(drafts[c], scores))}
  BY DEF _benchmark_variants
<1> DEFINE new == Scored(drafts[c], scores)
<1>2. new \in Seq(Variants)
  BY ScoredFacts DEF IInv, ShapeInv
<1>3. frontier' = Updated(new) /\ archive' = archive \cup {v.scores : v \in Elements(new)}
  BY <1>1
<1> HIDE DEF new
<1>4. frontier = saved /\ frontier \in Seq(Variants)
  BY DEF _benchmark_variants, IInv, ShapeInv, SurviveInv
<1>5. Elements(frontier \o new) = Elements(saved) \cup Elements(new)
  BY <1>2, <1>4, ElementsOfBoth
<1>6. Elements(frontier') \subseteq Elements(frontier \o new)
  BY <1>2, <1>3, <1>4, UpdatedFacts
<1>7. \A v \in Elements(frontier \o new) : v.scores \in archive'
  BY <1>3, <1>5 DEF IInv, SurviveInv
<1>8. SameObjectives' => SameObjectives /\ Comparable(frontier \o new)
  BY <1>3, <1>7 DEF SameObjectives, Comparable
<1>9. Merges(new)
  BY <1>2, <1>3, <1>4, <1>5, <1>6, <1>7, <1>8 DEF Merges
<1> QED BY <1>9

LEMMA BenchmarkStep ==
  ASSUME IInv, NEW c \in Cycles, _benchmark_variants(c)
  PROVE  IInv'
PROOF
<1> USE DEF _benchmark_variants, _save_state
<1>1. PICK scores \in [DOMAIN drafts[c] -> Scores] :
        /\ frontier' = Updated(Scored(drafts[c], scores))
        /\ archive' = archive \cup {v.scores : v \in Elements(Scored(drafts[c], scores))}
  OBVIOUS
<1>2. /\ Scored(drafts[c], scores) \in Seq(Variants)
      /\ \A v \in Elements(Scored(drafts[c], scores)) : v.scores \in Scores
  BY ScoredFacts DEF IInv, ShapeInv
<1>3. frontier' \in Seq(Variants) /\ Len(frontier') <= FRONTIER_SIZE /\ Antichain(frontier')
  BY <1>1, <1>2, UpdatedFacts DEF IInv, ShapeInv
<1>4. archive' \subseteq Scores
  BY <1>1, <1>2 DEF IInv, ShapeInv
<1>5. Lessons(frontier') \subseteq M
  <2>1. Elements(frontier') \subseteq Variants
    BY <1>3, ElementsOf
  <2>2. \A v \in Variants : v.model \in M
    BY DEF Variants
  <2> QED BY <2>1, <2>2 DEF Lessons
<1>6. Len(Models) \in Nat \ {0}
  BY ModelsAssumption
<1>7. /\ pc' \in [Cycles -> {"idle", "propose", "benchmark", "done", "lost"}]
      /\ asked' \in [Cycles -> 0..Len(Models)]
      /\ drafts' \in [Cycles -> Seq(Drafts)]
      /\ prompts' \in [Cycles -> SUBSET M]
  BY <1>5, <1>6 DEF IInv, ShapeInv
<1>8. \A d \in Cycles : /\ pc'[d] = "idle" => asked'[d] = 0
                        /\ pc'[d] = "propose" => asked'[d] < Len(Models)
  BY <1>6 DEF IInv, ShapeInv
<1>9. ShapeInv'
  BY <1>3, <1>4, <1>7, <1>8 DEF IInv, ShapeInv
<1>10. ChainInv'
  BY <1>3 DEF ChainInv, Antichain
<1>11. PICK new : Merges(new)
  BY MergeFacts
<1>12. saved' = frontier' /\ disk' = "saved"
  OBVIOUS
<1>13. ASSUME SameObjectives' PROVE BestSaved'
  <2>1. SameObjectives /\ Comparable(frontier \o new)
    BY <1>11, <1>13 DEF Merges
  <2>2. \A x \in Elements(frontier \o new) : \E w \in Elements(frontier') : Sum(w) >= Sum(x)
    BY <1>11, <2>1, UpdatedFacts DEF Merges
  <2>3. ASSUME NEW x \in archive'
        PROVE  \E v \in Elements(frontier \o new) : Sum(v) >= Total(x)
    <3>1. CASE x \in archive
      BY <1>11, <2>1, <3>1 DEF Merges, IInv, SurviveInv, BestSaved
    <3>2. CASE x \in {v.scores : v \in Elements(new)}
      <4>1. PICK v \in Elements(new) : x = v.scores
        BY <3>2
      <4>2. Total(x) \in Int
        BY <1>4, TotalIsInt
      <4> QED BY <1>11, <4>1, <4>2 DEF Merges, Sum
    <3> QED BY <1>11, <3>1, <3>2 DEF Merges
  <2>4. /\ \A v \in Elements(frontier \o new) : Sum(v) \in Int
        /\ \A v \in Elements(frontier') : Sum(v) \in Int
        /\ \A x \in archive' : Total(x) \in Int
    BY <1>4, <1>11, TotalIsInt DEF Merges, Sum
  <2>5. ASSUME NEW x \in archive'
        PROVE  \E w \in Elements(frontier') : Sum(w) >= Total(x)
    <3>1. PICK v \in Elements(frontier \o new) : Sum(v) >= Total(x)
      BY <2>3
    <3>2. PICK w \in Elements(frontier') : Sum(w) >= Sum(v)
      BY <2>2
    <3> QED BY <2>4, <3>1, <3>2
  <2> QED BY <1>12, <2>5 DEF BestSaved
<1>14. SurviveInv'
  BY <1>11, <1>12, <1>13 DEF Merges, SurviveInv
<1> QED BY <1>9, <1>10, <1>14 DEF IInv

LEMMA StoppedStep ==
  ASSUME IInv, up, Stopped, saved' \in {saved, frontier}, disk' \in {disk, "saved", "torn"}
  PROVE  IInv'
PROOF
<1>1. Len(Models) \in Nat \ {0}
  BY ModelsAssumption
<1>2. /\ pc' \in [Cycles -> {"idle", "propose", "benchmark", "done", "lost"}]
      /\ asked' \in [Cycles -> 0..Len(Models)]
      /\ drafts' \in [Cycles -> Seq(Drafts)]
      /\ \A c \in Cycles : asked'[c] = 0
  BY <1>1 DEF Stopped, IInv, ShapeInv
<1>3. ShapeInv'
  <2>1. /\ saved' \in Seq(Variants) /\ Len(saved') <= FRONTIER_SIZE
        /\ frontier' \in Seq(Variants) /\ Len(frontier') <= FRONTIER_SIZE
        /\ buffer' \in Seq(BOOLEAN) /\ Len(buffer') <= 2 * SAMPLE_SIZE
    BY SizesAssumption DEF Stopped, IInv, ShapeInv
  <2> QED BY <1>1, <1>2, <2>1 DEF Stopped, IInv, ShapeInv
<1>4. ChainInv'
  BY DEF Stopped, IInv, ChainInv, Antichain, Elements
<1>5. SurviveInv'
  <2>1. saved' = saved
    BY DEF IInv, SurviveInv
  <2> QED BY <2>1, NothingMerged DEF Stopped, IInv
<1> QED BY <1>3, <1>4, <1>5 DEF IInv

LEMMA StartStep ==
  ASSUME IInv, start
  PROVE  IInv'
PROOF
<1>1. frontier' \in {<<>>, saved}
  BY DEF start, Loaded
<1>2. frontier' \in Seq(Variants) /\ Len(frontier') <= FRONTIER_SIZE
  <2>1. <<>> \in Seq(Variants) /\ Len(<<>>) <= FRONTIER_SIZE
    BY SizesAssumption
  <2> QED BY <1>1, <2>1 DEF IInv, ShapeInv
<1>3. ChainInv'
  BY <1>1 DEF start, IInv, ChainInv, Antichain, Elements
<1>4. SurviveInv'
  <2>1. frontier' = saved
    BY DEF start, Loaded, IInv, SurviveInv
  <2> QED BY <2>1, NothingMerged DEF start, IInv
<1> QED BY <1>2, <1>3, <1>4 DEF start, IInv, ShapeInv

\* No record, cycle, crash or start breaks the invariant.
THEOREM Inductive == Spec => []IInv
PROOF
<1>1. ASSUME IInv, [Next]_vars PROVE IInv'
  <2>1. ASSUME NEW ok \in BOOLEAN, record_trajectory(ok) PROVE IInv'
    BY <1>1, <2>1, RecordStep
  <2>2. ASSUME NEW c \in Cycles, evolve(c) PROVE IInv'
    BY <1>1, <2>2, EvolveStep
  <2>3. ASSUME NEW c \in Cycles, _propose_variants(c) PROVE IInv'
    BY <1>1, <2>3, ProposeStep
  <2>4. ASSUME NEW c \in Cycles, _benchmark_variants(c) PROVE IInv'
    BY <1>1, <2>4, BenchmarkStep
  <2>5. CASE crash \/ shutdown \/ die_while_saving
    BY <1>1, <2>5, StoppedStep DEF crash, shutdown, die_while_saving, _save_state
  <2>6. CASE start
    BY <1>1, <2>6, StartStep
  <2>7. CASE UNCHANGED vars
    <3>1. SurviveInv'
      BY <1>1, <2>7, NothingMerged DEF vars, IInv, SurviveInv
    <3> QED BY <1>1, <2>7, <3>1 DEF vars, IInv, ShapeInv, ChainInv, Antichain
  <2> QED BY <1>1, <2>1, <2>2, <2>3, <2>4, <2>5, <2>6, <2>7 DEF Next
<1> QED BY InitInv, <1>1, PTL DEF Spec

\* The state stays within its types, and both lists within their bounds.
THEOREM TypeCorrect == Spec => []TypeOK
PROOF
<1>1. IInv => TypeOK
  <2> SUFFICES ASSUME IInv PROVE TypeOK
    OBVIOUS
  <2>1. \A v \in Elements(frontier) \cup Elements(saved) : v \in Variants
    BY ElementsOf DEF IInv, ShapeInv
  <2>2. \A v \in Variants : IsVariant(v)
    BY DEF Variants, IsVariant, M
  <2>3. \A c \in Cycles : \A d \in Elements(drafts[c]) : d.id \in Ids
    <3>1. \A c \in Cycles : Elements(drafts[c]) \subseteq Drafts
      BY ElementsOf DEF IInv, ShapeInv
    <3> QED BY <3>1 DEF Drafts
  <2> QED BY <2>1, <2>2, <2>3 DEF IInv, ShapeInv, TypeOK, M
<1> QED BY Inductive, <1>1, PTL

\* The frontier never holds a variant that another dominates, equal names apart,
\* for any size of it and any number of models, cycles, variants and restarts.
THEOREM NoneDominated == Spec => []FrontierIsAntichain
PROOF
<1>1. IInv => FrontierIsAntichain
  BY DEF IInv, ChainInv, Antichain, FrontierIsAntichain
<1> QED BY Inductive, <1>1, PTL

\* While no benchmark failed, whatever is merged in whatever order, and whenever the
\* process stops, dies or starts again, the frontier of a running process holds a
\* variant of the best total score that was ever saved.
THEOREM BestTotalSurvives == Spec => []BestSurvives
PROOF
<1>1. IInv => BestSurvives
  BY DEF IInv, SurviveInv, BestSaved, BestSurvives
<1> QED BY Inductive, <1>1, PTL

\* While no benchmark failed, a merge drops a variant only for one it keeps that dominates
\* it, or for want of place among variants with no lower total, for any frontier, any
\* number of variants and any order in which cycles end.
THEOREM EvictionsAreJustified == Spec => EvictionJustified
PROOF
<1>1. IInv /\ [Next]_vars =>
        [up /\ up' /\ SameObjectives' =>
           \A v \in Elements(frontier) \ Elements(frontier') :
             \/ \E w \in Elements(frontier') : dominates(w, v)
             \/ /\ Len(frontier') = FRONTIER_SIZE
                /\ \A w \in Elements(frontier') : Sum(w) >= Sum(v)]_vars
  <2> DEFINE Justified ==
        up /\ up' /\ SameObjectives' =>
          \A v \in Elements(frontier) \ Elements(frontier') :
            \/ \E w \in Elements(frontier') : dominates(w, v)
            \/ /\ Len(frontier') = FRONTIER_SIZE
               /\ \A w \in Elements(frontier') : Sum(w) >= Sum(v)
  <2>1. ASSUME frontier' = frontier PROVE Justified
    BY <2>1
  <2>2. ASSUME ~up \/ ~up' PROVE Justified
    BY <2>2
  <2>3. ASSUME IInv, NEW c \in Cycles, _benchmark_variants(c) PROVE Justified
    <3> SUFFICES ASSUME SameObjectives', NEW v \in Elements(frontier) \ Elements(frontier')
                 PROVE  OutDone(frontier', v)
      BY DEF OutDone
    <3>1. PICK new : Merges(new)
      BY <2>3, MergeFacts
    <3>2. v \in Elements(frontier \o new) \ Elements(Updated(new))
      BY <3>1 DEF Merges
    <3> QED BY <3>1, <3>2, UpdatedFacts DEF Merges
  <2> SUFFICES ASSUME IInv, [Next]_vars PROVE Justified \/ UNCHANGED vars
    OBVIOUS
  <2> HIDE DEF Justified
  <2>4. ASSUME NEW ok \in BOOLEAN, record_trajectory(ok) PROVE Justified
    BY <2>1, <2>4 DEF record_trajectory
  <2>5. ASSUME NEW c \in Cycles, evolve(c) \/ _propose_variants(c) PROVE Justified
    BY <2>1, <2>5 DEF evolve, _propose_variants
  <2>6. CASE crash \/ shutdown \/ die_while_saving
    BY <2>2, <2>6 DEF crash, shutdown, die_while_saving, Stopped
  <2>7. CASE start
    BY <2>2, <2>7 DEF start
  <2> QED BY <2>3, <2>4, <2>5, <2>6, <2>7 DEF Next
<1> QED BY Inductive, <1>1, PTL DEF Spec, EvictionJustified
=============================================================================
