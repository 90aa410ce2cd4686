----------------------------- MODULE MCRequestQueue -----------------------------
(* Values of RequestQueue's constants for TLC. *)
EXTENDS RequestQueue

CONSTANTS p1, p2
OnePass == {p1}
TwoPasses == {p1, p2}
=============================================================================
