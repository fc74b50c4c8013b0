------------------------- MODULE MCReceiveBuffer -------------------------
(* A small instance of ReceiveBuffer for TLC. *)
EXTENDS ReceiveBuffer

\* The shortest reply, and one that two chunks can cut.
MCBodies == {<<"0">>, <<"0", "0">>}
=============================================================================
