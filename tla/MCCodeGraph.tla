----------------------------- MODULE MCCodeGraph -----------------------------
EXTENDS CodeGraph, TLC

\* Two files of the same name in two packages.
MCFiles == {<<"src", "agent", "main">>, <<"src", "gepa", "main">>}
MCTargets == {<<"src">>} \cup MCFiles

Text(imports, classes, methods, functions) ==
  [valid |-> TRUE, imports |-> imports, classes |-> classes, methods |-> methods,
   functions |-> functions]

\* A class with a method, the class without it beside a function, and a syntax error;
\* the two that parse import the same name in two ways.
MCTexts ==
  {Text({[qualified_name |-> "os.path", module |-> "os.path"]}, {"App"}, {<<"App", "run">>}, {}),
   Text({[qualified_name |-> "os.path", module |-> "os"]}, {"App"}, {}, {"run"}),
   [Text({}, {}, {}, {}) EXCEPT !.valid = FALSE]}

Symmetry == Permutations(Runs)
=============================================================================
