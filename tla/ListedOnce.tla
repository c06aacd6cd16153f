---------------------------- MODULE ListedOnce ----------------------------
(***************************************************************************)
(* What the session registry promises, seen from the senders: a session is *)
(* listed for at most one uninterrupted period.  It enters the listing by  *)
(* its own connect callback and, once out, never comes back, whatever the  *)
(* connects, closes and account locks around it do.                        *)
(***************************************************************************)
CONSTANTS Users, Sessions, OwnerOf

VARIABLE phase

Init == phase = [s \in Sessions |-> "before"]

\* The session becomes reachable.
List(s) ==
    /\ phase[s] = "before"
    /\ phase' = [phase EXCEPT ![s] = "listed"]

\* The session's period ends; or it ends before it began, when the session
\* was put into a set that had been dropped in the meantime.
Unlist(s) ==
    /\ phase[s] \in {"before", "listed"}
    /\ phase' = [phase EXCEPT ![s] = "after"]

\* All periods of one user end together.
UnlistUser(u) ==
    phase' = [s \in Sessions |->
                IF OwnerOf[s] = u /\ phase[s] = "listed" THEN "after" ELSE phase[s]]

Next ==
    \/ \E s \in Sessions : List(s) \/ Unlist(s)
    \/ \E u \in Users : UnlistUser(u)

Spec == Init /\ [][Next]_phase
=============================================================================
