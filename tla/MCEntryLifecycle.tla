-------------------------- MODULE MCEntryLifecycle --------------------------
EXTENDS EntryLifecycle, TLC

CONSTANTS r1, r2, r3, n1, n2, p1, p2

Symmetry == Permutations(Runtimes) \cup Permutations(Networks) \cup Permutations(Projects)
=============================================================================
