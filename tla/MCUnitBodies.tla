---------------------------- MODULE MCUnitBodies ----------------------------
(* Words of eight bits to run UnitBodies with: every power of two and the  *)
(* values around the sign and the ends, and addresses around zero.         *)
EXTENDS UnitBodies

EdgeWords == {0, 1, 2, 3, 4, 7, 8, 16, 64, 85, 126, 127, 128, 129, 170, 200, 254, 255}
EdgePlaces == 0 .. 4 \cup {8, 252, 253, 254, 255}
EdgePcs == {0, 28, 124, 252}
=============================================================================
