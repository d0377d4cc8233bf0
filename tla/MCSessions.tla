----------------------------- MODULE MCSessions -----------------------------
(* Model values and bounds for checking Sessions with TLC. *)
EXTENDS Sessions, TLC

CONSTANTS u1, s1, s2, t1, b1, c1, main

\* A clawback larger than any balance the bounds allow to build up by one
\* correction, and a correction upwards.
Adjustments == {-2, 1}

SidSymmetry == Permutations(Sids)
=============================================================================
