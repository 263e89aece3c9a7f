------------------------------ MODULE MCIntake ------------------------------
(* The instance of Intake that TLC checks: a recording of the camera, alone *)
(* or joined by a second one that was made while it was unplugged.          *)
EXTENDS Intake

IntakeCards ==
  {[p \in Paths |-> IF p = "p1" THEN "a" ELSE second] : second \in {Missing, "b"}}
IntakeBefore == {NoItem}
=============================================================================
