-------------------------- MODULE MCMetacogEngine ---------------------------
(* A job whose oracle objects at each gate, and one whose replies nobody can *)
(* parse, which every gate takes for approval.                               *)
EXTENDS MetacogEngine, TLC

Job(replies, ev, sym) == [oracle |-> replies, evidence |-> ev, symbolic |-> sym]
Approve == [g \in Gates |-> "yes"]

MCJobs ==
  {Job([g \in Gates |-> "garbled"], TRUE, TRUE)}
  \cup {Job([Approve EXCEPT ![g] = "no"], g # "confidence", g = "symbolic") : g \in Gates}

Symmetry == Permutations(Requests)
=============================================================================
