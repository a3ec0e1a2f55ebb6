------------------------------ MODULE MCPhaseB ------------------------------
(* A ladder of one interval and two fractions, one of which asserts the      *)
(* hazard on the poll itself; the plane between the two predictions.         *)
EXTENDS PhaseB

MCFractions == <<1, 3>>
MCErrors == {-1, 0, 2}
=============================================================================
