--------------------------- MODULE MCPrivateChat ---------------------------
(* Two users, one or two server threads.                          *)
EXTENDS PrivateChat, TLC

CONSTANTS a, b, w1, w2

MCSymmetry == Permutations({w1, w2})
=============================================================================
