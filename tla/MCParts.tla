------------------------------- MODULE MCParts -------------------------------
EXTENDS Parts, TLC

\* The parts treat names, and keys, alike
Symmetry == Permutations(Names) \union Permutations(Tabs)
=============================================================================
