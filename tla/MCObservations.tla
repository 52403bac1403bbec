--------------------------- MODULE MCObservations ---------------------------
(* Model values for checking Observations.                                 *)
EXTENDS Observations

CONSTANTS t1, p1, m1, u1
=============================================================================
