---- MODULE MCAgentLoop ----
EXTENDS OperatorEvents
Symmetry == Permutations(Call)
====
