--------------------------- MODULE MCParetoFrontier ---------------------------
EXTENDS ParetoFrontier

MCObjectives == {"quality", "latency"}

\* All that can be achieved for both, and a solution that states only one.
MCOffers ==
  [quality : 0..2, latency : 0..2] \cup {[quality |-> 1]}

MCWeights == {w \in [MCObjectives -> 0..2] : \E o \in MCObjectives : w[o] # 0}
=============================================================================
