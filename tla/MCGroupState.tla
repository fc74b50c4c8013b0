--------------------------- MODULE MCGroupState ---------------------------
(* A small instance of GroupState for TLC. *)
EXTENDS GroupState

\* A PIR that switches an ordinary light, and a PIR with a motion group of its own.
SharedAndDedicated ==
  {[group |-> 1, unit |-> "hall", dedicated |-> FALSE],
   [group |-> 2, unit |-> "yard", dedicated |-> TRUE]}
=============================================================================
