--------------------------- MODULE MCControlSafety ---------------------------
(* DsscControl with two PPTs and a second client that locks them; the
   lock of the Power Procedure is seen late. *)
EXTENDS DsscControl, TLC

CONSTANTS q1, q2

TwoPpts == {q1, q2}
Quadrants == Permutations(TwoPpts)
Continuous == {"ON", "CHANGING", "STARTED"}
=============================================================================
