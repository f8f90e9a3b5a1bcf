-------------------------- MODULE MCCognitiveGraph --------------------------
(***************************************************************************)
(* CognitiveGraph for TLC.  FewInputs has one request for each path through*)
(* the workflow, for runs with several requests; MoreInputs adds to them.  *)
(***************************************************************************)
EXTENDS CognitiveGraph, TLC

FewInputs ==
  { [prompt |-> {"indicator"}, model |-> "auto", stream |-> FALSE],
    [prompt |-> {"indicator"}, model |-> "auto", stream |-> TRUE],
    [prompt |-> {}, model |-> "auto", stream |-> FALSE],
    [prompt |-> {"short", "trivial", "greeting"}, model |-> "auto", stream |-> FALSE],
    [prompt |-> {"short", "status", "sovereign"}, model |-> "auto", stream |-> TRUE],
    [prompt |-> {"empty", "short"}, model |-> "auto", stream |-> FALSE] }

\* The same, a status query of each kind, and a model asked for by name.
MoreInputs ==
  FewInputs \cup
  { [prompt |-> {"short", "status"}, model |-> "auto", stream |-> FALSE],
    [prompt |-> {"short", "trivial"}, model |-> "deepseek", stream |-> FALSE],
    [prompt |-> {"sovereign", "status"}, model |-> "qwen", stream |-> FALSE] }

Symmetry == Permutations(Requests)
=============================================================================
