--------------------------- MODULE MCSoftInterlock ---------------------------
(* SoftInterlock with two PPTs; the .cfg files choose the states visited. *)
EXTENDS SoftInterlock, TLC

CONSTANTS q1, q2

TwoPpts == {q1, q2}
Quadrants == Permutations(TwoPpts)

AllProxies == TwoPpts \cup {PowerDevice}
Acquiring == {"ON", "CHANGING", "ACQUIRING"}
=============================================================================
