------------------------- MODULE MCCniConnection -------------------------
(* Small instances of CniConnection for TLC. *)
EXTENDS CniConnection, TLC

\* Calls, and connections, are interchangeable.  (Not used where a run checks
\* a liveness property.)
Symmetry == Permutations(Callers) \cup Permutations(Sockets)
=============================================================================
