------------------------ MODULE MCIlluminancePoller ------------------------
(* A small instance of IlluminancePoller for TLC. *)
EXTENDS IlluminancePoller

\* Two sensors on one NAC, and one on another.
MCSensors == {<<"north", 1>>, <<"north", 2>>, <<"south", 1>>}
MCEnabled == {<<"north", 1>>, <<"south", 1>>}
=============================================================================
