------------------------------ MODULE ParetoSet ------------------------------
(***************************************************************************)
(* What gepa/pareto.py promises: a bounded set of solutions, none of which *)
(* dominates another.  Which ones are given up when there are too many is  *)
(* left open.                                                              *)
(***************************************************************************)
EXTENDS ParetoOffers

VARIABLES max_size, minimize, \* what the frontier was made with
          kept,               \* the solutions of the frontier
          offered,            \* (history) all solutions that were added or turned down
          pruned              \* (history) solutions have been given up for their number

vars == <<max_size, minimize, kept, offered, pruned>>

Init ==
  /\ max_size \in MaxSizes
  /\ minimize \in SUBSET Objectives
  /\ kept = {}
  /\ offered = {}
  /\ pruned = FALSE

add(v) ==
  /\ offered' = offered \cup {v}
  /\ \/ /\ \E e \in kept : Dominates(e, v, minimize)
        /\ UNCHANGED <<kept, pruned>>
     \/ LET best == {e \in kept : ~Dominates(v, e, minimize)} \cup {v}
        IN /\ \A e \in kept : ~Dominates(e, v, minimize)
           /\ kept' \in SUBSET best /\ Cardinality(kept') <= max_size
           /\ pruned' \in BOOLEAN /\ (pruned \/ kept' # best => pruned')
  /\ UNCHANGED <<max_size, minimize>>

Next == \E v \in Offers : add(v)

Spec == Init /\ [][Next]_vars
-----------------------------------------------------------------------------
TypeOK ==
  /\ max_size \in MaxSizes
  /\ minimize \subseteq Objectives
  /\ kept \subseteq offered /\ offered \subseteq Offers
  /\ pruned \in BOOLEAN

\* No solution of the frontier dominates another, nor one that is like it.
Antichain == \A a, b \in kept : ~Dominates(a, b, minimize)

Complete == \A v \in offered : DOMAIN v = Objectives

\* As long as none had to be given up, and all state all objectives, the frontier is
\* what dominates all others, in whatever order they came.
Maximal ==
  Complete /\ ~pruned =>
    kept = {v \in offered : \A w \in offered : ~Dominates(w, v, minimize)}
=============================================================================
