--------------------------- MODULE MCHealthCheck ----------------------------
EXTENDS HealthCheck

AllWell == [s \in Services \cup Backends |-> "healthy"]

\* All is well, or Qwen is slow and a component degraded, or Mem0 is slow, one
\* component down and another degraded.
FewFaults ==
  {AllWell,
   [AllWell EXCEPT !["qwen"] = "slow", !["oracle"] = "degraded"],
   [AllWell EXCEPT !["recall"] = "slow", !["oracle"] = "unhealthy", !["memory"] = "degraded"]}
=============================================================================
