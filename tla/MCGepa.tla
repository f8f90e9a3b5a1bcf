------------------------------- MODULE MCGepa -------------------------------
EXTENDS Gepa, TLC

MCModels == <<"v32", "glm", "qwen">>

\* A higher score is better; a failed benchmark yields an accuracy and no more.
Score(a, u) == [accuracy |-> a, tool_use_success |-> u]
Failed == [accuracy |-> 1]
MCScores == {Score(0, 2), Score(2, 1), Score(0, 1), Failed}

Symmetry == Permutations(Cycles)
=============================================================================
