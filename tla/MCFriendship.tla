--------------------------- MODULE MCFriendship ---------------------------
(* Two users, one or two server threads.                                   *)
EXTENDS Friendship

CONSTANTS a, b, w1, w2
=============================================================================
