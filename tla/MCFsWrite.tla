---- MODULE MCFsWrite ----
EXTENDS FsWrite
Symmetry == Permutations(New)
====
