---------------------------- MODULE ParetoFrontier ----------------------------
(***************************************************************************)
(* ParetoFrontier of gepa/pareto.py: a list of solutions in the order they *)
(* were added, cut down to its size by crowding distance.  A solution is   *)
(* what it achieves: the values of the objectives that it states.          *)
(***************************************************************************)
EXTENDS ParetoOffers, Lists, Sequences, Functions

CONSTANTS Weights  \* weightings of all objectives

ASSUME WeightsAssumption == Weights \subseteq [Objectives -> Nat]

VARIABLES max_size, minimize, solutions,
          offered, pruned  \* (history) as in ParetoSet

vars == <<max_size, minimize, solutions, offered, pruned>>

Frontier == INSTANCE ParetoSet WITH kept <- Range(solutions)

Init ==
  /\ max_size \in MaxSizes
  /\ minimize \in SUBSET Objectives
  /\ solutions = <<>>
  /\ offered = {}
  /\ pruned = FALSE

dominates(a, b) == Dominates(a, b, minimize)

get(v, o, default) == IF o \in DOMAIN v THEN v[o] ELSE default
-----------------------------------------------------------------------------
\* The places of a list in the order of an objective's values; what states none has 0.
ByValue(s, o) ==
  {p \in (DOMAIN s) \X (DOMAIN s) :
     LET a == get(s[p[1]], o, 0) b == get(s[p[2]], o, 0)
     IN a < b \/ (a = b /\ p[1] < p[2])}

Least(places, order) == CHOOSE i \in places : \A j \in places \ {i} : <<i, j>> \in order
Greatest(places, order) == CHOOSE i \in places : \A j \in places \ {i} : <<j, i>> \in order

\* The ends of the objectives of the first solution are infinitely far from the others.
Extremes(s) ==
  UNION {{Least(DOMAIN s, ByValue(s, o)), Greatest(DOMAIN s, ByValue(s, o))} : o \in DOMAIN s[1]}

obj_range(s, o) ==
  get(s[Greatest(DOMAIN s, ByValue(s, o))], o, 0) - get(s[Least(DOMAIN s, ByValue(s, o))], o, 0)

\* How far the neighbours of place i are apart in the order of an objective.
between(s, o, i) ==
  LET sorted_indices == ByValue(s, o)
      next == Least({j \in DOMAIN s : <<i, j>> \in sorted_indices}, sorted_indices)
      last == Greatest({j \in DOMAIN s : <<j, i>> \in sorted_indices}, sorted_indices)
  IN get(s[next], o, 0) - get(s[last], o, 0)

Product(f) == FoldFunction(LAMBDA x, y : x * y, 1, f)

\* The distance of another place: for each objective the share of the range between its
\* neighbours; brought to the product of all ranges, to remain an integer.
distance(s, i) ==
  LET wide == {o \in DOMAIN s[1] : obj_range(s, o) # 0}
      others(o) == Product([q \in wide \ {o} |-> obj_range(s, q)])
  IN SumFunction([o \in wide |-> between(s, o, i) * others(o)])

crowding(s) == {<<i, distance(s, i)>> : i \in DOMAIN s \ Extremes(s)}

\* The pairs of places of which the first is farther from the others, or as far and listed first.
Farther(s) ==
  LET far == Extremes(s)
      near == crowding(s)
  IN {p \in (DOMAIN s) \X (DOMAIN s) :
        \/ p[1] \in far /\ (p[2] \in far => p[1] < p[2])
        \/ \E a, b \in near :
             /\ p = <<a[1], b[1]>>
             /\ a[2] > b[2] \/ (a[2] = b[2] /\ a[1] < b[1])}

\* (variant) sorted the wrong way round
PrunedNearest(s) == Listed(s, DOMAIN s, {<<p[2], p[1]>> : p \in Farther(s)}, max_size)

\* _prune
Pruned(s) == Listed(s, DOMAIN s, Farther(s), max_size)

\* (variant) the list is cut when it has become too long, and keeps one too many
Late(s) == IF Len(s) > max_size + 1 THEN Pruned(s) ELSE s

Fit(s) == IF Len(s) > max_size THEN Pruned(s) ELSE s

\* (variant) what the new solution dominates is left in the list
RemainingAll(v) == solutions

Remaining(v) ==
  LET left == {i \in DOMAIN solutions : ~dominates(v, solutions[i])}
  IN Listed(solutions, left, AsListed(solutions), Cardinality(left))

add(v) ==
  /\ IF \E i \in 1..Len(solutions) : dominates(solutions[i], v)
     THEN UNCHANGED <<solutions, pruned>>
     ELSE /\ solutions' = Fit(Append(Remaining(v), v))
          /\ pruned' = (pruned \/ Len(Remaining(v)) >= max_size)
  /\ offered' = offered \cup {v}
  /\ UNCHANGED <<max_size, minimize>>

Next == \E v \in Offers : add(v)

Spec == Init /\ [][Next]_vars
-----------------------------------------------------------------------------
\* The first of the solutions that are best by their scores.
First(score) ==
  solutions[CHOOSE i \in DOMAIN score : \A j \in DOMAIN score :
    score[j] < score[i] \/ (score[j] = score[i] /\ i <= j)]

\* The best for an objective, of solutions that state it.
get_best(o) ==
  First([i \in 1..Len(solutions) |-> (IF o \in minimize THEN -1 ELSE 1) * solutions[i][o]])

\* (variant) the weighted sum takes no notice of what is to be minimised
PlainScore(v, w) == SumFunction([o \in DOMAIN w |-> w[o] * get(v, o, 0)])

weighted_score(v, w) ==
  SumFunction([o \in DOMAIN w |-> (IF o \in minimize THEN -1 ELSE 1) * w[o] * get(v, o, 0)])

get_compromise(w) == First([i \in 1..Len(solutions) |-> weighted_score(solutions[i], w)])
-----------------------------------------------------------------------------
TypeOK ==
  /\ max_size \in MaxSizes
  /\ minimize \subseteq Objectives
  /\ Range(solutions) \subseteq offered /\ offered \subseteq Offers
  /\ Len(solutions) <= max_size
  /\ pruned \in BOOLEAN

Complete == Frontier!Complete

\* However often the frontier had to be cut down, the best value that was ever offered
\* for an objective is still in it, if it has place for both ends of every objective.
BestIsKept ==
  Complete /\ max_size >= 2 * Cardinality(Objectives) =>
    \A o \in Objectives :
      LET best == get_best(o)[o]
      IN \A v \in offered : IF o \in minimize THEN best <= v[o] ELSE best >= v[o]

\* As long as it was never cut down, the compromise is the best of all that was offered,
\* not only of what is left, for any weights.
CompromiseIsBest ==
  Complete /\ ~pruned =>
    \A w \in Weights :
      LET best == weighted_score(get_compromise(w), w)
      IN \A v \in offered : weighted_score(v, w) <= best

\* The frontier is a bounded set of solutions of which none dominates another, see
\* ParetoSet.
ImplementsParetoSet == Frontier!Spec
=============================================================================
