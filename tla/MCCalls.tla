------------------------------- MODULE MCCalls ------------------------------
(* Instances of Calls for TLC; pages are interchangeable. *)
EXTENDS Calls

CONSTANTS a, b

MCSymmetry == Permutations(Users)
=============================================================================
