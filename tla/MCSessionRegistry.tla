------------------------- MODULE MCSessionRegistry -------------------------
(* Small instance: one user with several tabs and one with a single tab.   *)
EXTENDS SessionRegistry

CONSTANTS u1, u2, s1, s2, s3, s4

MCOwnerOf == [s \in Sessions |-> IF s = s4 THEN u2 ELSE u1]
=============================================================================
