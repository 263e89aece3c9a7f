--------------------------- MODULE MCDateCorrection ---------------------------
(* The instance of DateCorrection that TLC checks.                            *)
EXTENDS DateCorrection
=============================================================================
