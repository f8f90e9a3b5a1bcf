----------------------------- MODULE ParetoOffers -----------------------------
(***************************************************************************)
(* What gepa/pareto.py compares: solutions, each known by the values of    *)
(* the objectives that it states.                                          *)
(***************************************************************************)
EXTENDS Integers, FiniteSets

CONSTANTS Objectives, \* names of objectives
          Offers,     \* what solutions may achieve: values of some of them
          MaxSizes    \* sizes that a frontier may be given

ASSUME ObjectivesAssumption == IsFiniteSet(Objectives)
ASSUME OffersAssumption ==
  \A v \in Offers : DOMAIN v \subseteq Objectives /\ v \in [DOMAIN v -> Int]
ASSUME SizesAssumption == MaxSizes \subseteq Nat

\* No worse in any common objective, better in one.
Dominates(a, b, least) ==
  LET common == DOMAIN a \cap DOMAIN b
  IN /\ \A o \in common : IF o \in least THEN a[o] <= b[o] ELSE a[o] >= b[o]
     /\ \E o \in common : a[o] # b[o]
=============================================================================
