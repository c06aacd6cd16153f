------------------------------ MODULE MCInbox ------------------------------
(* One conversation at first, on the only page; another may begin. *)
EXTENDS Inbox
CONSTANTS c1, c2
MCBegun == <<c1>>
=============================================================================
