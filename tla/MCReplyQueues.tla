--------------------------- MODULE MCReplyQueues ---------------------------
(* Small instances of ReplyQueues for TLC. *)
EXTENDS ReplyQueues

CONSTANTS x, y

\* Three replies to a conversation that may refuse, one to one that does not.
TwoRooms == <<x, x, y, x>>
=============================================================================
