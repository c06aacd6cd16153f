---------------------------- MODULE MCMessageList ---------------------------
(* Small instance: two conversations, pages of one message.                *)
EXTENDS MessageList

CONSTANTS c1, c2
=============================================================================
