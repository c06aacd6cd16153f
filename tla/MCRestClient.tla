---------------------------- MODULE MCRestClient ----------------------------
(* Instances of RestClient for TLC. *)
EXTENDS RestClient

CONSTANTS r1, r2
=============================================================================
