--------------------------- MODULE MCLegacyRouter ---------------------------
EXTENDS LegacyRouter, TLC

Input(trivial, tools, complex, stream) ==
  [trivial_word |-> trivial, short |-> TRUE, tools |-> tools, complex_word |-> complex,
   long |-> FALSE, stream |-> stream]

\* A greeting, a routine task, a complex one and a streamed one.
MCInputs ==
  {Input(TRUE, FALSE, TRUE, FALSE), Input(FALSE, FALSE, TRUE, FALSE),
   Input(FALSE, TRUE, FALSE, TRUE)}

Symmetry == Permutations(Requests)
=============================================================================
