--------------------------- MODULE MCFrameMonitor ---------------------------
(* FrameMonitor with two PPTs. *)
EXTENDS FrameMonitor

CONSTANTS q1, q2, f1, f2

TwoPpts == {q1, q2}
TwoValues == {f1, f2}
ThreeValues == {f1, f2}
=============================================================================
